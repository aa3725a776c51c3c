------------------------------- MODULE Client -------------------------------
(***************************************************************************)
(* The connecting part of DowowNetwork::Client (Client.cpp): one thread    *)
(* that calls ConnectTcp and ConnectUnix, again and again as connections   *)
(* come and go, and at last ~Client, and the detached connecting threads   *)
(* (TcpThreadFunc, UnixThreadFunc), of which an old one may still be       *)
(* leaving when the next is started.                                       *)
(*                                                                         *)
(* The Connection that Client derives from is reduced to IsConnected().    *)
(* The sockets are blocking: fcntl(F_SETFL) is given the number 1, which   *)
(* is no status flag, so connect() never answers EINPROGRESS and the wait  *)
(* with a timeout that would follow is never reached.                      *)
(***************************************************************************)
EXTENDS Integers

CONSTANT MaxConnects    \* bound: calls of ConnectTcp and ConnectUnix

ASSUME MaxConnectsAssumption == MaxConnects \in Nat

Threads == 1..MaxConnects   \* a connecting thread, and the socket made for it
NoSocket == 0               \* descriptor -1

VARIABLES
    mutex_tsfd,         \* who holds it: a connecting thread, or 0
    temp_socket_fd,
    connect_event,      \* eventfd, "none" is -1
    connected,          \* Connection::IsConnected()
    socket,             \* "none", "open", "given" to InitializeByFD, or "closed"
    func,               \* "tcp" or "unix": the function each thread runs
    th,                 \* where each connecting thread is
    pc,                 \* where the calling thread is
    calls               \* history: number of Connect calls

vars == <<mutex_tsfd, temp_socket_fd, connect_event, connected, socket, func, th, pc, calls>>

IsConnecting == temp_socket_fd # NoSocket

-----------------------------------------------------------------------------
(* The calling thread *)

\* The check, socket(), eventfd() and the start of the thread.
Connect(f) ==
    /\ pc = "idle" /\ calls < MaxConnects
    /\ ~(connected \/ IsConnecting)
    /\ calls' = calls + 1
    /\ temp_socket_fd' = calls + 1
    /\ socket' = [socket EXCEPT ![calls + 1] = "open"]
    /\ func' = [func EXCEPT ![calls + 1] = f]
    /\ connect_event' = "clear"
    /\ th' = [th EXCEPT ![calls + 1] = "start"]
    /\ pc' = "read"
    /\ UNCHANGED <<mutex_tsfd, connected>>

ConnectTcp == Connect("tcp")
ConnectUnix == Connect("unix")

\* ReadEventFd(connect_event, -1) returns.
\* A mutant: its timeout is zero.
MutEventRead == connect_event # "none"
EventRead == connect_event = "set"

\* The event is closed and IsConnected() returned.
ConnectReturn ==
    /\ pc = "read" /\ EventRead
    /\ connect_event' = "none"
    /\ pc' = "idle"
    /\ UNCHANGED <<mutex_tsfd, temp_socket_fd, connected, socket, func, th, calls>>

\* ~Client takes mutex_tsfd; ~Connection follows.
\* A mutant: it does not.
MutDestroyMayGoOn == TRUE
DestroyMayGoOn == mutex_tsfd = 0

Destroy ==
    /\ pc = "idle" /\ DestroyMayGoOn
    /\ pc' = "destroyed"
    /\ connected' = FALSE
    /\ UNCHANGED <<mutex_tsfd, temp_socket_fd, connect_event, socket, func, th, calls>>

-----------------------------------------------------------------------------
(* TcpThreadFunc and UnixThreadFunc *)

ThreadLock(i) ==
    /\ th[i] = "start" /\ mutex_tsfd = 0
    /\ mutex_tsfd' = i
    /\ th' = [th EXCEPT ![i] = "connect"]
    /\ UNCHANGED <<temp_socket_fd, connect_event, connected, socket, func, pc, calls>>

\* The socket is given up.
\* A mutant: temp_socket_fd keeps its number.
MutGiveUp(i) ==
    /\ socket' = [socket EXCEPT ![temp_socket_fd] = "closed"]
    /\ UNCHANGED temp_socket_fd
GiveUp(i) ==
    /\ socket' = [socket EXCEPT ![temp_socket_fd] = "closed"]
    /\ temp_socket_fd' = NoSocket

\* inet_aton refuses the address.
BadAddress(i) ==
    /\ th[i] = "connect" /\ func[i] = "tcp"
    /\ GiveUp(i)
    /\ th' = [th EXCEPT ![i] = "notify"]
    /\ UNCHANGED <<mutex_tsfd, connect_event, connected, func, pc, calls>>

\* connect() fails.
ConnectFails(i) ==
    /\ th[i] = "connect"
    /\ GiveUp(i)
    /\ th' = [th EXCEPT ![i] = "notify"]
    /\ UNCHANGED <<mutex_tsfd, connect_event, connected, func, pc, calls>>

\* connect() succeeds: InitializeByFD.
ConnectSucceeds(i) ==
    /\ th[i] = "connect"
    /\ socket' = [socket EXCEPT ![temp_socket_fd] = "given"]
    /\ connected' = TRUE
    /\ th' = [th EXCEPT ![i] = "unset"]
    /\ UNCHANGED <<mutex_tsfd, temp_socket_fd, connect_event, func, pc, calls>>

\* temp_socket_fd is unset, then SetEvenRequestIdsPart(true).
ThreadUnset(i) ==
    /\ th[i] = "unset"
    /\ temp_socket_fd' = NoSocket
    /\ th' = [th EXCEPT ![i] = "notify"]
    /\ UNCHANGED <<mutex_tsfd, connect_event, connected, socket, func, pc, calls>>

ConnectNotice == IF connect_event = "none" THEN "none" ELSE "set"

ThreadNotify(i) ==
    /\ th[i] = "notify"
    /\ connect_event' = ConnectNotice
    /\ th' = [th EXCEPT ![i] = "unlock"]
    /\ UNCHANGED <<mutex_tsfd, temp_socket_fd, connected, socket, func, pc, calls>>

\* The last thing a connecting thread does is to release mutex_tsfd.
ThreadUnlock(i) ==
    /\ th[i] = "unlock"
    /\ mutex_tsfd' = 0
    /\ th' = [th EXCEPT ![i] = "done"]
    /\ UNCHANGED <<temp_socket_fd, connect_event, connected, socket, func, pc, calls>>

-----------------------------------------------------------------------------
(* The environment *)

\* The connection ends, once its polling thread is started.
ConnectionEnds ==
    /\ connected
    /\ connected' = FALSE
    /\ UNCHANGED <<mutex_tsfd, temp_socket_fd, connect_event, socket, func, th, pc, calls>>

-----------------------------------------------------------------------------
Init ==
    /\ mutex_tsfd = 0 /\ temp_socket_fd = NoSocket /\ connect_event = "none"
    /\ connected = FALSE /\ pc = "idle" /\ calls = 0
    /\ socket = [i \in Threads |-> "none"] /\ func = [i \in Threads |-> "none"]
    /\ th = [i \in Threads |-> "none"]

ThreadStep(i) ==
    \/ ThreadLock(i) \/ ThreadUnset(i) \/ ThreadNotify(i) \/ ThreadUnlock(i)

Answer(i) == BadAddress(i) \/ ConnectFails(i) \/ ConnectSucceeds(i)

Gone == pc = "destroyed" /\ UNCHANGED vars

Next ==
    \/ ConnectTcp \/ ConnectUnix \/ ConnectReturn \/ Destroy
    \/ \E i \in Threads : ThreadStep(i) \/ Answer(i)
    \/ ConnectionEnds
    \/ Gone

Spec == Init /\ [][Next]_vars

-----------------------------------------------------------------------------
(* Properties *)

\* Every variable holds a value of its C++ type or of the abstraction of it.
TypeOK ==
    /\ mutex_tsfd \in Threads \cup {0} /\ temp_socket_fd \in Threads \cup {NoSocket}
    /\ connect_event \in {"none", "clear", "set"} /\ connected \in BOOLEAN
    /\ socket \in [Threads -> {"none", "open", "given", "closed"}]
    /\ func \in [Threads -> {"none", "tcp", "unix"}]
    /\ th \in [Threads -> {"none", "start", "connect", "unset", "notify", "unlock", "done"}]
    /\ pc \in {"idle", "read", "destroyed"} /\ calls \in 0..MaxConnects

\* ~Client waits for the connecting thread ("wait for it to finish"): once the object is gone no
\* connecting thread touches it any more.
DestroyedIsUnused == pc = "destroyed" => \A i \in Threads : th[i] \in {"none", "done"}

\* When Connect has returned nothing is under way, so that the next call is not
\* refused, and no socket is left open but the one the Connection owns.
ReturnedIsOver == pc = "idle" => ~IsConnecting /\ \A i \in Threads : socket[i] # "open"

\* A connecting thread works on the socket and the event of its own call, not
\* on those of a call made since.
OwnAttempt ==
    \A i \in Threads :
        /\ th[i] \in {"connect", "unset"} => temp_socket_fd = i
        /\ th[i] = "notify" => connect_event = "clear" /\ calls = i
=============================================================================
