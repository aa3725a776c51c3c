----------------------------- MODULE Connection -----------------------------
(***************************************************************************)
(* One DowowNetwork::Connection object (Connection.cpp, Connection.hpp):   *)
(* its polling thread (ConnThreadFunc), the user threads that call Push,   *)
(* Pull, Disconnect, WaitForStop and the interval setters, the owner that  *)
(* (re)initialises and destroys it, the external code that holds it        *)
(* through a SafeConnection, and the peer at the other end of the socket.  *)
(*                                                                         *)
(* Locks.  mutex_cd is held by the polling thread over a whole pass of its *)
(* loop and over its whole teardown, and by InitializeByFD, so it is state *)
(* here.  Every other critical section (mutex_sq, mutex_rq, mutex_fri,     *)
(* mutex_ra, and mutex_cd as Push and Disconnect take it) contains no      *)
(* blocking call and is one step.  The mutexes are recursive, so Push and  *)
(* Disconnect called by the polling thread itself do not wait.             *)
(*                                                                         *)
(* Data.  A request is the id it carries: a number drawn from              *)
(* free_request_id, or Unnumbered when Push is told to keep the caller's   *)
(* id (keep-alives and responses).  A request on its way in is its kind.   *)
(***************************************************************************)
EXTENDS Integers, Sequences, FiniteSets

CONSTANTS
    Pushers, Pullers, Closers, Tuners,  \* threads that call Push, Pull, Disconnect, Set*Interval
    Holders,       \* external code that wraps the object in a SafeConnection
    CloseCalls,    \* which calls of Disconnect the Closers make
    Kinds,         \* kinds of requests the peer sends
    IntervalArgs,  \* arguments of the interval setters
    Blocks,        \* send() calls that one request takes
    MaxSessions,   \* bound: calls of InitializeByFD
    MaxQueue,      \* bound: no Push is started while send_queue is this long
    MaxId,         \* bound: no Push is started once free_request_id exceeds it
    MaxNet,        \* bound: requests of the peer that are in flight
    MaxRecv        \* bound: length of recv_queue

Users == Pushers \cup Pullers \cup Closers \cup Tuners \cup Holders

AllKinds == {"_", "queued", "handled", "oversized"}

\* Disconnect(forced, wait_for_join)
Forced == {"force", "force_wait"}
Waiting == {"force_wait", "grace_wait"}
DisconnectCalls == {"force", "force_wait", "grace", "grace_wait"}

ASSUME KindsAssumption == Kinds \subseteq AllKinds
ASSUME CloseCallsAssumption == CloseCalls \subseteq DisconnectCalls
ASSUME IntervalAssumption == IntervalArgs \subseteq Int
ASSUME BlocksAssumption == Blocks \in Nat \ {0}
ASSUME BoundsAssumption ==
    /\ MaxSessions \in Nat /\ MaxQueue \in Nat /\ MaxId \in Nat
    /\ MaxNet \in Nat /\ MaxRecv \in Nat

Unnumbered == 0

VARIABLES
    mutex_cd,               \* who holds it: "free", "bg" (the polling thread) or "owner"
    connected,              \* socket_type # SocketTypeUndefined
    is_disconnecting,
    send_queue,             \* sequence of ids
    send_buffer,            \* the id of the request in the buffer
    send_left,              \* blocks of it not sent yet; 0: the buffer is deleted
    free_request_id,
    is_even_request_parts,
    recv_queue,             \* number of requests in it
    is_recv_length,
    refs_amount,
    holding,                \* the SafeConnections that exist
    push_event, to_stop_event, stopped_event,   \* eventfds
    receive_event, not_needed_event,            \* eventfds, "none" is -1
    our_sa_timer, their_na_timer,               \* timerfds
    our_sa_interval, their_na_interval,
    bg,                     \* where the polling thread is
    pollfds,                \* which socket events it asked poll() for
    revents,                \* what poll() returned
    pc,                     \* where each user thread is
    owner,                  \* where the owner is
    net_in,                 \* kinds of the requests on their way in
    peer_open,              \* the peer has not closed its end
    session,                \* history: number of InitializeByFD calls
    sent_id                 \* history: the last number sent in this session

connVars == <<connected, is_disconnecting>>
sendVars == <<send_queue, send_buffer, send_left, sent_id>>
idVars == <<free_request_id, is_even_request_parts>>
recvVars == <<recv_queue, is_recv_length>>
transferVars == <<sendVars, idVars, recvVars>>
refVars == <<refs_amount, holding, not_needed_event>>
eventVars == <<push_event, to_stop_event, stopped_event, receive_event>>
timerVars == <<our_sa_timer, their_na_timer, our_sa_interval, their_na_interval>>
stateVars == <<connVars, transferVars, refVars>>
fdVars == <<eventVars, timerVars>>
objectVars == <<mutex_cd, stateVars, fdVars>>
pollVars == <<pollfds, revents>>
bgVars == <<bg, pollVars>>
netVars == <<net_in, peer_open>>
threadVars == <<pc, owner, session>>
outsideVars == <<netVars, threadVars>>

vars == <<objectVars, bgVars, outsideVars>>

-----------------------------------------------------------------------------
(* Descriptors *)

EventFds == {"none", "closed", "clear", "set"}
Timers == {"closed", "off", "armed", "expired"}

\* Writing to descriptor -1 or to a closed one fails and is not noticed.
WriteEventFd(e) == IF e \in {"none", "closed"} THEN e ELSE "set"

\* Read with a zero timeout, which leaves an event that is not set alone.
\* A mutant: the event is not reset.
MutReadEventFd(e) == e
ReadEventFd(e) == IF e = "set" THEN "clear" ELSE e

SetTimerFdTimeout(timer, interval) ==
    IF timer = "closed" THEN "closed" ELSE IF interval = 0 THEN "off" ELSE "armed"

\* A mutant: the interval is stored as given.
MutClamp(interval) == interval
Clamp(interval) == IF interval < 1 THEN 1 ELSE interval

-----------------------------------------------------------------------------
(* Helpers of Push and Disconnect *)

\* A mutant: only the buffer is looked at.
MutHasSomethingToSend == send_left # 0
HasSomethingToSend == send_queue # <<>> \/ send_left # 0

IsDisconnecting(c, d) == d /\ c

\* The check that Push makes while it holds mutex_cd.
MayPush(c, d) == ~(~c \/ IsDisconnecting(c, d))

\* A mutant: the counter does not move.
MutNextId(id) == id
NextId(id) == id + 2

\* A mutant: the polling thread is not told.
MutNotifyThread == push_event' = push_event
NotifyThread == push_event' = WriteEventFd(push_event)

\* What Push does once past the check, with mutex_sq held.
PushRequest(numbered) ==
    /\ send_queue' = Append(send_queue, IF numbered THEN free_request_id ELSE Unnumbered)
    /\ free_request_id' = IF numbered THEN NextId(free_request_id) ELSE free_request_id
    /\ NotifyThread

\* Push of a request that keeps its id, by a caller that already holds mutex_cd.
PushUnderLock(d) ==
    IF MayPush(connected, d) THEN PushRequest(FALSE)
                             ELSE UNCHANGED <<send_queue, free_request_id, push_event>>

\* The part of Disconnect that runs with mutex_cd held, when connected.
DisconnectLocked(forced) ==
    /\ to_stop_event' = IF forced THEN WriteEventFd(to_stop_event) ELSE to_stop_event
    /\ is_disconnecting' = (is_disconnecting \/ ~forced)
    /\ IF forced \/ is_disconnecting
       THEN UNCHANGED <<send_queue, free_request_id, push_event>>
       ELSE PushUnderLock(TRUE)

-----------------------------------------------------------------------------
(* The polling thread: ConnThreadFunc.  A pass goes through "prepare",     *)
(* "poll", "lock", then those of "recv", "send", "sa" that poll() reported *)
(* and "na"; the teardown from "exit" to "done".                           *)

InPass == {"recv", "notify", "handler", "send", "sa", "saread", "na"}
Teardown == {"notify_pull", "refs", "await", "close", "clear", "mark", "signal"}
BgStates == {"none", "prepare", "poll", "lock", "exit", "done"} \cup InPass \cup Teardown

NoEvents == [stop |-> FALSE, in |-> FALSE, out |-> FALSE,
             sa |-> FALSE, na |-> FALSE, push |-> FALSE]
NothingAsked == [in |-> FALSE, out |-> FALSE]

AfterSend == IF revents.sa THEN "sa" ELSE "na"
AfterReceive == IF revents.out THEN "send" ELSE AfterSend
AfterLock == IF revents.in THEN "recv" ELSE AfterReceive

\* Leaving the loop body ends the life of pollfds and releases mutex_cd.
LeavePass(to) ==
    /\ mutex_cd' = "free"
    /\ bg' = to
    /\ pollfds' = NothingAsked /\ revents' = NoEvents

Break == LeavePass("exit")

\* Input is waited for only if not disconnecting, output only if there is some.
\* A mutant: a connection that is disconnecting still receives.
MutSocketEvents == [in |-> TRUE, out |-> HasSomethingToSend]
SocketEvents == [in |-> ~is_disconnecting, out |-> HasSomethingToSend]

BgPrepare ==
    /\ bg = "prepare" /\ mutex_cd = "free"
    /\ bg' = "poll"
    /\ pollfds' = SocketEvents
    /\ UNCHANGED <<objectVars, revents, outsideVars>>

\* poll() returns at least one event.  A hang-up is reported even if nothing
\* was asked of the socket.
BgPoll(writable) ==
    /\ bg = "poll"
    /\ bg' = "lock"
    /\ revents' = [stop |-> to_stop_event = "set",
                   in |-> pollfds.in /\ (net_in # <<>> \/ ~peer_open),
                   out |-> pollfds.out /\ writable,
                   sa |-> our_sa_timer = "expired",
                   na |-> their_na_timer = "expired",
                   push |-> push_event = "set"]
    /\ revents' # NoEvents \/ ~peer_open
    /\ UNCHANGED <<objectVars, pollfds, outsideVars>>

\* The 'to_stop' event is looked at first and ends the loop.
\* A mutant: what is queued is sent before the request to stop is honoured.
MutStopSeen == revents.stop /\ ~HasSomethingToSend
StopSeen == revents.stop

BgStop ==
    /\ bg = "lock" /\ mutex_cd = "free" /\ StopSeen
    /\ to_stop_event' = "clear"
    /\ Break
    /\ UNCHANGED <<stateVars, push_event, stopped_event, receive_event, timerVars, outsideVars>>

BgLock ==
    /\ bg = "lock" /\ mutex_cd = "free" /\ ~StopSeen
    /\ mutex_cd' = "bg"
    /\ bg' = AfterLock
    /\ UNCHANGED <<stateVars, fdVars, pollVars, outsideVars>>

\* The end of a Receive() that returns true.
Received ==
    /\ their_na_timer' = SetTimerFdTimeout(their_na_timer, their_na_interval)
    /\ bg' = AfterReceive
    /\ UNCHANGED <<our_sa_timer, our_sa_interval, their_na_interval>>

\* What recv() finds: the end of the stream, or the next request.
Incoming == IF net_in = <<>> THEN "end" ELSE Head(net_in)

\* recv() returns 0 or -1, or the announced length is too big.
ReceiveBroken ==
    /\ bg = "recv"
    /\ Incoming = "end" \/ (is_recv_length /\ Incoming = "oversized")
    /\ Break
    /\ UNCHANGED <<stateVars, fdVars, outsideVars>>

ReceiveLength ==
    /\ bg = "recv" /\ is_recv_length
    /\ Incoming \notin {"end", "oversized"}
    /\ is_recv_length' = FALSE
    /\ Received
    /\ UNCHANGED <<mutex_cd, connVars, sendVars, idVars, recv_queue, refVars, eventVars,
                   pollVars, outsideVars>>

\* The body is complete: a keep-alive, like one that cannot be deserialized, is
\* dropped, a request that no handler takes is queued, any other is passed to its
\* handler.
ReceiveKeepAlive ==
    /\ bg = "recv" /\ ~is_recv_length
    /\ Incoming = "_"
    /\ net_in' = Tail(net_in)
    /\ is_recv_length' = TRUE
    /\ Received
    /\ UNCHANGED <<mutex_cd, connVars, sendVars, idVars, recv_queue, refVars, eventVars,
                   pollVars, peer_open, threadVars>>

ReceiveRequest ==
    /\ bg = "recv" /\ ~is_recv_length
    /\ Incoming \in {"queued", "handled"}
    /\ net_in' = Tail(net_in)
    /\ IF Incoming = "queued"
       THEN bg' = "notify" /\ recv_queue' = recv_queue + 1
       ELSE bg' = "handler" /\ UNCHANGED recv_queue
    /\ UNCHANGED <<mutex_cd, connVars, sendVars, idVars, is_recv_length, refVars, fdVars,
                   pollVars, peer_open, threadVars>>

\* The receive event is written after mutex_rq has been released.
ReceiveNotify ==
    /\ bg = "notify"
    /\ receive_event' = WriteEventFd(receive_event)
    /\ is_recv_length' = TRUE
    /\ Received
    /\ UNCHANGED <<mutex_cd, connVars, sendVars, idVars, recv_queue, refVars, push_event,
                   to_stop_event, stopped_event, pollVars, outsideVars>>

\* A handler runs in the polling thread with mutex_cd held.  It may push,
\* disconnect (without waiting for the stop) and return.
HandlerPush(numbered) ==
    /\ bg = "handler"
    /\ Len(send_queue) < MaxQueue /\ free_request_id <= MaxId
    /\ MayPush(connected, is_disconnecting)
    /\ PushRequest(numbered)
    /\ UNCHANGED <<mutex_cd, connVars, send_buffer, send_left, sent_id, is_even_request_parts,
                   recvVars, refVars, to_stop_event, stopped_event, receive_event, timerVars,
                   bgVars, outsideVars>>

HandlerDisconnect(forced) ==
    /\ bg = "handler" /\ connected
    /\ DisconnectLocked(forced)
    /\ UNCHANGED <<mutex_cd, connected, send_buffer, send_left, sent_id, is_even_request_parts,
                   recvVars, refVars, stopped_event, receive_event, timerVars, bgVars,
                   outsideVars>>

HandlerReturn ==
    /\ bg = "handler"
    /\ is_recv_length' = TRUE
    /\ Received
    /\ UNCHANGED <<mutex_cd, connVars, sendVars, idVars, recv_queue, refVars, eventVars,
                   pollVars, outsideVars>>

\* Send(): PopSendQueue() if the buffer is empty, then one send().
Popped == send_left = 0 /\ send_queue # <<>>
SendingId == IF Popped THEN Head(send_queue) ELSE send_buffer
SendingLeft == IF Popped THEN Blocks ELSE send_left
SendingRest == IF Popped THEN Tail(send_queue) ELSE send_queue

\* send() fails: the peer is gone.
SendBroken ==
    /\ bg = "send" /\ ~peer_open
    /\ SendingLeft # 0
    /\ send_queue' = SendingRest /\ send_buffer' = SendingId /\ send_left' = SendingLeft
    /\ Break
    /\ UNCHANGED <<connVars, sent_id, idVars, recvVars, refVars, fdVars, outsideVars>>

\* The last block of the last request of a graceful disconnection is sent.
\* A mutant: the queue is forgotten.
MutDrained == is_disconnecting /\ SendingLeft = 1
Drained == is_disconnecting /\ SendingLeft = 1 /\ SendingRest = <<>>

SendBlock ==
    /\ bg = "send"
    /\ SendingLeft # 0
    /\ send_queue' = SendingRest /\ send_left' = SendingLeft - 1
    /\ send_buffer' = IF SendingLeft = 1 THEN Unnumbered ELSE SendingId
    /\ sent_id' = IF SendingLeft = 1 /\ SendingId # Unnumbered THEN SendingId ELSE sent_id
    /\ IF Drained
       THEN Break /\ UNCHANGED our_sa_timer
       ELSE /\ our_sa_timer' = SetTimerFdTimeout(our_sa_timer, our_sa_interval)
            /\ bg' = AfterSend
            /\ UNCHANGED <<mutex_cd, pollVars>>
    /\ UNCHANGED <<connVars, idVars, recvVars, refVars, eventVars, their_na_timer,
                   our_sa_interval, their_na_interval, outsideVars>>

\* Our still-alive timer was reported: push a keep-alive, then read() the timer.
BgKeepAlive ==
    /\ bg = "sa"
    /\ PushUnderLock(is_disconnecting)
    /\ bg' = "saread"
    /\ UNCHANGED <<mutex_cd, connVars, send_buffer, send_left, sent_id, is_even_request_parts,
                   recvVars, refVars, to_stop_event, stopped_event, receive_event, timerVars,
                   pollVars, outsideVars>>

\* The read() blocks until the timer has expired (again).
BgReadTimer ==
    /\ bg = "saread" /\ our_sa_timer = "expired"
    /\ our_sa_timer' = SetTimerFdTimeout(our_sa_timer, our_sa_interval)
    /\ bg' = "na"
    /\ UNCHANGED <<mutex_cd, stateVars, eventVars, their_na_timer, our_sa_interval,
                   their_na_interval, pollVars, outsideVars>>

BgTheyTimedOut ==
    /\ bg = "na" /\ revents.na
    /\ Break
    /\ UNCHANGED <<stateVars, fdVars, outsideVars>>

\* The push event is read and the pass ends.
BgPassEnd ==
    /\ bg = "na" /\ ~revents.na
    /\ push_event' = IF revents.push THEN "clear" ELSE push_event
    /\ LeavePass("prepare")
    /\ UNCHANGED <<stateVars, to_stop_event, stopped_event, receive_event, timerVars, outsideVars>>

-----------------------------------------------------------------------------
(* The teardown of the polling thread, mutex_cd held to the end *)

BgExit ==
    /\ bg = "exit" /\ mutex_cd = "free"
    /\ mutex_cd' = "bg"
    /\ is_disconnecting' = TRUE
    /\ bg' = "notify_pull"
    /\ UNCHANGED <<connected, transferVars, refVars, fdVars, pollVars, outsideVars>>

\* A mutant: a waiting Pull() is not told that the connection is gone.
MutClosedReceiveEvent == receive_event
ClosedReceiveEvent == IF receive_event = "none" THEN "none" ELSE "closed"

\* A waiting Pull() is woken; its event is closed but not reset to -1.
BgNotifyPull ==
    /\ bg = "notify_pull"
    /\ receive_event' = ClosedReceiveEvent
    /\ bg' = "refs"
    /\ UNCHANGED <<mutex_cd, stateVars, push_event, to_stop_event, stopped_event, timerVars,
                   pollVars, outsideVars>>

\* A mutant: the SafeConnections are not looked at.
MutBgCheckRefs ==
    /\ bg = "refs"
    /\ bg' = "close"
    /\ UNCHANGED <<mutex_cd, connVars, transferVars, refVars, fdVars, pollVars, outsideVars>>
BgCheckRefs ==
    /\ bg = "refs"
    /\ IF refs_amount # 0
       THEN not_needed_event' = "clear" /\ bg' = "await"
       ELSE UNCHANGED not_needed_event /\ bg' = "close"
    /\ UNCHANGED <<mutex_cd, connVars, transferVars, refs_amount, holding, fdVars, pollVars,
                   outsideVars>>

BgNotNeeded ==
    /\ bg = "await" /\ not_needed_event = "set"
    /\ not_needed_event' = "none"
    /\ bg' = "close"
    /\ UNCHANGED <<mutex_cd, connVars, transferVars, refs_amount, holding, fdVars, pollVars,
                   outsideVars>>

\* Descriptors are closed and both buffers deleted.
BgClose ==
    /\ bg = "close"
    /\ push_event' = "closed" /\ to_stop_event' = "closed"
    /\ our_sa_timer' = "closed" /\ their_na_timer' = "closed"
    /\ net_in' = <<>> /\ peer_open' = FALSE
    /\ send_buffer' = Unnumbered /\ send_left' = 0
    /\ is_recv_length' = TRUE
    /\ bg' = "clear"
    /\ UNCHANGED <<mutex_cd, connVars, send_queue, sent_id, idVars, recv_queue, refVars,
                   stopped_event, receive_event, our_sa_interval, their_na_interval, pollVars,
                   threadVars>>

BgClearQueue ==
    /\ bg = "clear"
    /\ send_queue' = <<>>
    /\ bg' = "mark"
    /\ UNCHANGED <<mutex_cd, connVars, send_buffer, send_left, sent_id, idVars, recvVars,
                   refVars, fdVars, pollVars, outsideVars>>

\* A mutant: mutex_cd is released before the stop is signalled.
MutBgMarkUndefined ==
    /\ bg = "mark"
    /\ connected' = FALSE
    /\ mutex_cd' = "free"
    /\ bg' = "signal"
    /\ UNCHANGED <<is_disconnecting, transferVars, refVars, fdVars, pollVars, outsideVars>>
BgMarkUndefined ==
    /\ bg = "mark"
    /\ connected' = FALSE
    /\ bg' = "signal"
    /\ UNCHANGED <<mutex_cd, is_disconnecting, transferVars, refVars, fdVars, pollVars,
                   outsideVars>>

\* A mutant: nobody is told of the stop.
MutStoppedNotice == stopped_event
StoppedNotice == WriteEventFd(stopped_event)

BgSignalStopped ==
    /\ bg = "signal"
    /\ stopped_event' = StoppedNotice
    /\ mutex_cd' = "free"
    /\ bg' = "done"
    /\ UNCHANGED <<stateVars, push_event, to_stop_event, receive_event, timerVars, pollVars,
                   outsideVars>>

-----------------------------------------------------------------------------
(* User threads *)

OwnerUses == {"idle", "init", "set_even"}

\* Without a SafeConnection the object may be used until its owner destroys it.
MayUse(t) == IF t \in Holders THEN t \in holding ELSE owner \in OwnerUses

PushCall(t) ==
    /\ pc[t] = "idle" /\ MayUse(t)
    /\ Len(send_queue) < MaxQueue /\ free_request_id <= MaxId
    /\ pc' = [pc EXCEPT ![t] = "push"]
    /\ UNCHANGED <<objectVars, bgVars, netVars, owner, session>>

\* The check is made under mutex_cd, which is released before the request is queued.
PushCheck(t) ==
    /\ pc[t] = "push" /\ mutex_cd = "free"
    /\ pc' = [pc EXCEPT ![t] = IF MayPush(connected, is_disconnecting) THEN "enqueue"
                                                                      ELSE "idle"]
    /\ UNCHANGED <<objectVars, bgVars, netVars, owner, session>>

PushEnqueue(t, numbered) ==
    /\ pc[t] = "enqueue"
    /\ PushRequest(numbered)
    /\ pc' = [pc EXCEPT ![t] = "idle"]
    /\ UNCHANGED <<mutex_cd, connVars, send_buffer, send_left, sent_id, is_even_request_parts,
                   recvVars, refVars, to_stop_event, stopped_event, receive_event, timerVars,
                   bgVars, netVars, owner, session>>

DisconnectCall(t, call) ==
    /\ pc[t] = "idle" /\ MayUse(t)
    /\ pc' = [pc EXCEPT ![t] = call]
    /\ UNCHANGED <<objectVars, bgVars, netVars, owner, session>>

Disconnect(t) ==
    /\ pc[t] \in DisconnectCalls /\ mutex_cd = "free"
    /\ IF connected
       THEN /\ DisconnectLocked(pc[t] \in Forced)
            /\ pc' = [pc EXCEPT ![t] = IF pc[t] \in Waiting THEN "wait" ELSE "idle"]
       ELSE /\ pc' = [pc EXCEPT ![t] = "idle"]
            /\ UNCHANGED <<is_disconnecting, send_queue, free_request_id, push_event,
                           to_stop_event>>
    /\ UNCHANGED <<mutex_cd, connected, send_buffer, send_left, sent_id, is_even_request_parts,
                   recvVars, refVars, stopped_event, receive_event, timerVars, bgVars, netVars,
                   owner, session>>

WaitForStop(t) ==
    /\ pc[t] = "wait" /\ stopped_event = "set"
    /\ pc' = [pc EXCEPT ![t] = "idle"]
    /\ UNCHANGED <<objectVars, bgVars, netVars, owner, session>>

Pulling == {"pull", "pull_forever"}

\* Pull() finds a request at once.
PullPop(t) ==
    /\ pc[t] = "idle" /\ MayUse(t)
    /\ recv_queue > 0
    /\ recv_queue' = recv_queue - 1
    /\ UNCHANGED <<mutex_cd, connVars, sendVars, idVars, is_recv_length, refVars, fdVars, bgVars,
                   outsideVars>>

\* A mutant: the queue is not looked at while mutex_rq is held.
MutPullMustWait == receive_event = "none"
PullMustWait == recv_queue = 0 /\ receive_event = "none"

\* Pull() with a timeout, nothing queued and nobody waiting: set up the event and poll() it.
PullWait(t, call) ==
    /\ pc[t] = "idle" /\ MayUse(t)
    /\ PullMustWait
    /\ receive_event' = "clear"
    /\ pc' = [pc EXCEPT ![t] = call]
    /\ UNCHANGED <<mutex_cd, stateVars, push_event, to_stop_event, stopped_event, timerVars,
                   bgVars, netVars, owner, session>>

\* The poll() returns (a closed descriptor is POLLNVAL): pop what there is, close the event.
PullReturn(t) ==
    /\ pc[t] \in Pulling
    /\ receive_event # "clear" \/ pc[t] = "pull"
    /\ recv_queue' = IF recv_queue > 0 THEN recv_queue - 1 ELSE 0
    /\ receive_event' = "none"
    /\ pc' = [pc EXCEPT ![t] = "idle"]
    /\ UNCHANGED <<mutex_cd, connVars, sendVars, idVars, is_recv_length, refVars, push_event,
                   to_stop_event, stopped_event, timerVars, bgVars, netVars, owner, session>>

\* The setters take no lock.
SetOurSaInterval(t, interval) ==
    /\ pc[t] = "idle" /\ MayUse(t)
    /\ our_sa_interval' = Clamp(interval)
    /\ our_sa_timer' = SetTimerFdTimeout(our_sa_timer, Clamp(interval))
    /\ pc' = [pc EXCEPT ![t] = "tuned"]
    /\ UNCHANGED <<mutex_cd, stateVars, eventVars, their_na_timer, their_na_interval, bgVars,
                   netVars, owner, session>>

SetTheirNaIntervalLimit(t, interval) ==
    /\ pc[t] = "idle" /\ MayUse(t)
    /\ their_na_interval' = Clamp(interval)
    /\ their_na_timer' = SetTimerFdTimeout(their_na_timer, Clamp(interval))
    /\ pc' = [pc EXCEPT ![t] = "tuned"]
    /\ UNCHANGED <<mutex_cd, stateVars, eventVars, our_sa_timer, our_sa_interval, bgVars,
                   netVars, owner, session>>

\* SafeConnection's constructor and destructor.
IncreaseRefs(h) ==
    /\ h \notin holding /\ owner \in OwnerUses
    /\ holding' = holding \cup {h}
    /\ refs_amount' = refs_amount + 1
    /\ UNCHANGED <<mutex_cd, connVars, transferVars, not_needed_event, fdVars, bgVars,
                   outsideVars>>

\* A mutant: the counter is compared with zero before it is decreased.
MutReleaseNotice == IF refs_amount = 0 THEN WriteEventFd(not_needed_event) ELSE not_needed_event
ReleaseNotice == WriteEventFd(not_needed_event)

DecreaseRefs(h) ==
    /\ h \in holding /\ pc[h] \in {"idle", "tuned"}
    /\ holding' = holding \ {h}
    /\ refs_amount' = refs_amount - 1
    /\ not_needed_event' = ReleaseNotice
    /\ UNCHANGED <<mutex_cd, connVars, transferVars, fdVars, bgVars, outsideVars>>

-----------------------------------------------------------------------------
(* The owner: InitializeByFD, SetEvenRequestIdsPart, ~Connection *)

\* socket_type is set first, and can be seen without mutex_cd.
InitializeBegin ==
    /\ owner = "idle" /\ mutex_cd = "free" /\ ~connected
    /\ session < MaxSessions
    /\ mutex_cd' = "owner"
    /\ connected' = TRUE
    /\ owner' = "init"
    /\ UNCHANGED <<is_disconnecting, transferVars, refVars, fdVars, bgVars, netVars, pc, session>>

\* The rest of InitializeByFD; the send queue is left as it is.
InitializeEnd ==
    /\ owner = "init"
    /\ stopped_event' = ReadEventFd(stopped_event) /\ push_event' = "clear" /\ to_stop_event' = "clear"
    /\ our_sa_timer' = SetTimerFdTimeout("off", our_sa_interval)
    /\ their_na_timer' = SetTimerFdTimeout("off", their_na_interval)
    /\ is_disconnecting' = FALSE
    /\ free_request_id' = IF is_even_request_parts THEN 2 ELSE 1
    /\ recv_queue' = 0
    /\ net_in' = <<>> /\ peer_open' = TRUE
    /\ bg' = "prepare"
    /\ pollfds' = NothingAsked /\ revents' = NoEvents
    /\ mutex_cd' = "free"
    /\ owner' = "set_even"
    /\ session' = session + 1 /\ sent_id' = 0
    /\ UNCHANGED <<connected, send_queue, send_buffer, send_left, is_even_request_parts,
                   is_recv_length, refVars, receive_event, our_sa_interval, their_na_interval,
                   pc>>

\* Called right after InitializeByFD, by Connection(int) and by Client.
SetEvenRequestIdsPart ==
    /\ owner = "set_even"
    /\ is_even_request_parts' = TRUE
    /\ free_request_id' = IF free_request_id % 2 = 1 THEN free_request_id + 1
                                                     ELSE free_request_id
    /\ owner' = "idle"
    /\ UNCHANGED <<mutex_cd, connVars, sendVars, recvVars, refVars, fdVars, bgVars, netVars, pc,
                   session>>

\* The object is not destroyed under a thread that has no SafeConnection.
DestroyBegin ==
    /\ owner = "idle"
    /\ \A t \in Users \ Holders : pc[t] \in {"idle", "tuned"}
    /\ owner' = "destroy"
    /\ UNCHANGED <<objectVars, bgVars, netVars, pc, session>>

\* Disconnect(true, true).
DestroyDisconnect ==
    /\ owner = "destroy" /\ mutex_cd = "free"
    /\ IF connected
       THEN to_stop_event' = WriteEventFd(to_stop_event) /\ owner' = "destroy_wait"
       ELSE UNCHANGED to_stop_event /\ owner' = "join"
    /\ UNCHANGED <<mutex_cd, stateVars, push_event, stopped_event, receive_event, timerVars,
                   bgVars, netVars, pc, session>>

DestroyWait ==
    /\ owner = "destroy_wait" /\ stopped_event = "set"
    /\ owner' = "join"
    /\ UNCHANGED <<objectVars, bgVars, netVars, pc, session>>

DestroyJoin ==
    /\ owner = "join" /\ bg \in {"none", "done"}
    /\ stopped_event' = "closed"
    /\ owner' = "destroyed"
    /\ UNCHANGED <<mutex_cd, stateVars, push_event, to_stop_event, receive_event, timerVars,
                   bgVars, netVars, pc, session>>

-----------------------------------------------------------------------------
(* The environment: the peer, which is another Connection and keeps to the *)
(* protocol, and the clock                                                 *)

PeerSend(kind) ==
    /\ peer_open
    /\ Len(net_in) < MaxNet
    /\ kind = "queued" => recv_queue + Len(net_in) < MaxRecv
    /\ net_in' = Append(net_in, kind)
    /\ UNCHANGED <<objectVars, bgVars, peer_open, threadVars>>

\* An orderly close delivers what is in flight, a reset does not.
PeerClose(reset) ==
    /\ peer_open
    /\ peer_open' = FALSE
    /\ net_in' = IF reset THEN <<>> ELSE net_in
    /\ UNCHANGED <<objectVars, bgVars, threadVars>>

OurSaExpires ==
    /\ our_sa_timer = "armed"
    /\ bg = "saread" \/ Len(send_queue) < MaxQueue
    /\ our_sa_timer' = "expired"
    /\ UNCHANGED <<mutex_cd, stateVars, eventVars, their_na_timer, our_sa_interval,
                   their_na_interval, bgVars, outsideVars>>

TheirNaExpires ==
    /\ their_na_timer = "armed"
    /\ their_na_timer' = "expired"
    /\ UNCHANGED <<mutex_cd, stateVars, eventVars, our_sa_timer, our_sa_interval,
                   their_na_interval, bgVars, outsideVars>>

-----------------------------------------------------------------------------
Init ==
    /\ mutex_cd = "free"
    /\ connected = FALSE /\ is_disconnecting = FALSE
    /\ send_queue = <<>> /\ send_buffer = Unnumbered /\ send_left = 0 /\ sent_id = 0
    /\ free_request_id = 1 /\ is_even_request_parts = FALSE
    /\ recv_queue = 0 /\ is_recv_length = TRUE
    /\ refs_amount = 0 /\ holding = {} /\ not_needed_event = "none"
    /\ push_event = "closed" /\ to_stop_event = "closed" /\ stopped_event = "clear"
    /\ receive_event = "none"
    /\ our_sa_timer = "closed" /\ their_na_timer = "closed"
    /\ our_sa_interval = 10 /\ their_na_interval = 60
    /\ bg = "none" /\ pollfds = NothingAsked /\ revents = NoEvents
    /\ net_in = <<>> /\ peer_open = FALSE
    /\ pc = [t \in Users |-> "idle"] /\ owner = "idle" /\ session = 0

BgPass ==
    \/ BgPrepare \/ BgStop \/ BgLock
    \/ ReceiveBroken \/ ReceiveLength \/ ReceiveKeepAlive \/ ReceiveRequest \/ ReceiveNotify
    \/ HandlerReturn
    \/ SendBroken \/ SendBlock
    \/ BgKeepAlive \/ BgReadTimer \/ BgTheyTimedOut \/ BgPassEnd

BgTeardown ==
    \/ BgExit \/ BgNotifyPull \/ BgCheckRefs \/ BgNotNeeded
    \/ BgClose \/ BgClearQueue \/ BgMarkUndefined \/ BgSignalStopped

Handler ==
    \/ \E numbered \in BOOLEAN : HandlerPush(numbered)
    \/ \E forced \in BOOLEAN : HandlerDisconnect(forced)

\* Steps of a call that is under way.
PushStep(t) == PushCheck(t) \/ \E numbered \in BOOLEAN : PushEnqueue(t, numbered)
CloseStep(t) == Disconnect(t) \/ WaitForStop(t)

Calls ==
    \/ \E t \in Pushers : PushCall(t) \/ PushStep(t)
    \/ \E t \in Closers : CloseStep(t) \/ \E call \in CloseCalls : DisconnectCall(t, call)
    \/ \E t \in Pullers :
         \/ PullPop(t)
         \/ \E call \in Pulling : PullWait(t, call)
         \/ PullReturn(t)
    \/ \E t \in Tuners, interval \in IntervalArgs :
         SetOurSaInterval(t, interval) \/ SetTheirNaIntervalLimit(t, interval)
    \/ \E h \in Holders : IncreaseRefs(h) \/ DecreaseRefs(h)

OwnerStep ==
    \/ InitializeEnd \/ SetEvenRequestIdsPart
    \/ DestroyDisconnect \/ DestroyWait \/ DestroyJoin

Environment ==
    \/ \E kind \in Kinds : PeerSend(kind)
    \/ \E reset \in BOOLEAN : PeerClose(reset)
    \/ OurSaExpires \/ TheirNaExpires

\* The object is gone and nothing more happens to it.
Destroyed == owner = "destroyed" /\ UNCHANGED vars

Next ==
    \/ BgPass \/ (\E writable \in BOOLEAN : BgPoll(writable)) \/ BgTeardown \/ Handler
    \/ Calls
    \/ InitializeBegin \/ DestroyBegin \/ OwnerStep
    \/ Environment
    \/ Destroyed

(***************************************************************************)
(* Fairness.  The polling thread and the owner run.  The peer keeps        *)
(* reading, so a poll() that asks for output infinitely often reports it   *)
(* infinitely often.  A call that waits for a mutex which is free          *)
(* infinitely often gets it.  A timer expires unless I/O re-arms it.       *)
(* SafeConnections are released.  Nobody has to make a call.               *)
(***************************************************************************)
PollWritable == pollfds.out /\ BgPoll(TRUE)
SilenceExpires == (net_in = <<>> \/ ~pollfds.in) /\ TheirNaExpires
IdlenessExpires == (bg = "saread" \/ ~HasSomethingToSend) /\ OurSaExpires

Fairness ==
    /\ WF_vars(BgPass) /\ WF_vars(BgTeardown)
    /\ WF_vars(\E writable \in BOOLEAN : BgPoll(writable)) /\ SF_vars(PollWritable)
    /\ SF_vars(OwnerStep)
    /\ WF_vars(SilenceExpires) /\ WF_vars(IdlenessExpires)
    /\ \A t \in Pushers : SF_vars(PushStep(t))
    /\ \A t \in Closers : SF_vars(CloseStep(t))
    /\ \A t \in Pullers : WF_vars(PullReturn(t))
    /\ \A h \in Holders : WF_vars(DecreaseRefs(h))

Spec == Init /\ [][Next]_vars
FairSpec == Spec /\ Fairness

-----------------------------------------------------------------------------
(* Properties *)

PcStates == {"idle", "push", "enqueue", "wait", "tuned"} \cup DisconnectCalls \cup Pulling
OwnerStates == OwnerUses \cup {"destroy", "destroy_wait", "join", "destroyed"}

\* Every variable holds a value of its C++ type or of the abstraction of it.
TypeOK ==
    /\ mutex_cd \in {"free", "bg", "owner"}
    /\ connected \in BOOLEAN /\ is_disconnecting \in BOOLEAN
    /\ send_queue \in Seq(Nat) /\ send_buffer \in Nat /\ send_left \in 0..Blocks
    /\ sent_id \in Nat
    /\ free_request_id \in Nat /\ is_even_request_parts \in BOOLEAN
    /\ recv_queue \in Nat /\ is_recv_length \in BOOLEAN
    /\ refs_amount \in Int /\ holding \subseteq Holders
    /\ not_needed_event \in {"none", "clear", "set"}
    /\ push_event \in {"closed", "clear", "set"} /\ to_stop_event \in {"closed", "clear", "set"}
    /\ stopped_event \in {"closed", "clear", "set"} /\ receive_event \in EventFds
    /\ our_sa_timer \in Timers /\ their_na_timer \in Timers
    /\ our_sa_interval \in Nat \ {0} /\ their_na_interval \in Nat \ {0}
    /\ bg \in BgStates
    /\ pollfds \in [in : BOOLEAN, out : BOOLEAN]
    /\ revents \in [stop : BOOLEAN, in : BOOLEAN, out : BOOLEAN,
                    sa : BOOLEAN, na : BOOLEAN, push : BOOLEAN]
    /\ net_in \in Seq(AllKinds) /\ peer_open \in BOOLEAN
    /\ pc \in [Users -> PcStates] /\ owner \in OwnerStates /\ session \in Nat

\* Once the stopped event is set (GetStoppedEvent, WaitForStop) the polling
\* thread has finished with the object, so that Server may delete it; it holds
\* until InitializeByFD starts the next session and resets the event.
StoppedMeansFinished ==
    stopped_event = "set" /\ owner # "init" => bg = "done" /\ ~connected

\* InitializeByFD never starts a second polling thread beside a live one: the
\* old one it detaches has "nothing bad" left to do (Connection.cpp:436).
OnePollingThread == owner = "init" => bg \in {"none", "done"}

\* A polling thread that sleeps in poll() without asking for output, although
\* a Push has queued a request, is about to be woken by the push event.
NoLostPush ==
    bg = "poll" /\ ~pollfds.out /\ HasSomethingToSend => push_event = "set"

\* A Pull that waits although the receive queue is not empty has its event set
\* or is about to get it from Receive: no wake-up is lost between them.
NoLostWakeup ==
    (\E t \in Pullers : pc[t] \in Pulling) /\ recv_queue > 0
        => receive_event \in {"set", "closed"} \/ bg = "notify"

\* A teardown that waits for the SafeConnections to go, when none is left, has
\* been told so by DecreaseRefs.
NoLostRelease == bg = "await" /\ refs_amount = 0 => not_needed_event = "set"

\* The phase that the abstract specification tells apart.
Phase ==
    CASE bg = "none" -> "off"
      [] bg = "done" -> "stopped"
      [] bg = "await" /\ not_needed_event # "set" -> "await"
      [] bg \in {"close", "clear", "mark", "signal"}
         \/ (bg = "await" /\ not_needed_event = "set") -> "stopping"
      [] OTHER -> "open"

Life == INSTANCE Lifecycle WITH phase <- Phase, refs <- refs_amount

\* The object keeps the interface that Server builds on (module Lifecycle): when
\* its teardown meets SafeConnections it stops only after a release, it stops
\* only through the teardown, and it is not opened again before it has stopped.
KeepsLifecycle == Life!Spec

\* Every number that Push assigned is new in this session: the numbers in the
\* buffer and the queue grow, above the last one sent and below the next free one.
IdsStayFresh ==
    LET last == IF send_buffer = Unnumbered THEN sent_id ELSE send_buffer
        Numbered == {i \in DOMAIN send_queue : send_queue[i] # Unnumbered}
    IN  /\ sent_id <= last /\ last < free_request_id
        /\ send_buffer # Unnumbered => sent_id < send_buffer
        /\ \A i \in Numbered : last < send_queue[i] /\ send_queue[i] < free_request_id
        /\ \A i, j \in Numbered : i < j => send_queue[i] < send_queue[j]

\* Send() ends a graceful disconnection only when nothing is left to send.
DrainedFirst ==
    [][bg = "send" /\ bg' = "exit" /\ peer_open => ~HasSomethingToSend']_vars

\* A forced Disconnect() ends the polling thread, whatever it is doing.
ForcedDisconnectStops == to_stop_event = "set" ~> bg = "done"

\* A graceful Disconnect() ends it too, even if the peer keeps sending: the
\* socket is not read any more, so their not-alive timer is not re-armed.
GracefulDisconnectStops == is_disconnecting ~> bg = "done"

\* A numbered request leaves the queue and the buffer, or the connection ends.
Pushed(id) == send_buffer = id \/ \E i \in DOMAIN send_queue : send_queue[i] = id
PushedIsSent == \A id \in 1..MaxId : Pushed(id) ~> ~Pushed(id) \/ ~connected

\* Push, Disconnect and WaitForStop return.
Called(t) == pc[t] \notin {"idle", "tuned"} \cup Pulling
CallsReturn == \A t \in Users : Called(t) ~> ~Called(t)

\* A Pull(-1) that waits when the polling thread leaves its loop is released.
WaitingPullReleased ==
    \A t \in Pullers : pc[t] = "pull_forever" /\ bg = "exit" ~> pc[t] = "idle"

\* A peer from which nothing arrives any more is disconnected, whatever
\* interval SetTheirNaIntervalLimit was given.
SilentPeerDropped == <>[](net_in = <<>>) => []<>(~connected)

-----------------------------------------------------------------------------
(* What the repository says of the program and the code does not do *)

\* README.md, Connection: "Once disconnection occurs that thread is stopped."
DisconnectionStopsThread == bg = "exit" ~> bg = "done"
=============================================================================
