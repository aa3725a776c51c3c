------------------------------- MODULE Server -------------------------------
(***************************************************************************)
(* One DowowNetwork::Server object (Server.cpp, Server.hpp): its thread    *)
(* (ServerThreadFunc), the threads that start, stop, wait for and destroy  *)
(* it, the external code that asks it for connections, and the clients.    *)
(*                                                                         *)
(* mutex_server is held by the thread from the return of poll() to the end *)
(* of the round and over its whole shutdown.  StartTcp, StartUnix and the  *)
(* handler setters take it for one step; GetConnection, SetMaxConnections, *)
(* Stop and WaitForStop do not take it.                                    *)
(*                                                                         *)
(* A connection is what module Connection shows the server of it: its      *)
(* polling thread runs ("open", or "told" to stop), waits in its teardown  *)
(* for a SafeConnection to go ("await"), finishes ("stopping"), and has    *)
(* set its stopped event ("stopped").                                      *)
(***************************************************************************)
EXTENDS Integers, Sequences, FiniteSets, SequencesExt

CONSTANTS
    Conns,      \* clients, each with the Connection object it may become
    Holders,    \* external code that calls GetConnection
    Callers,    \* threads that call Stop and WaitForStop
    Owner,      \* the one of them that starts and destroys the server
    Nobody,     \* what a Holder without a SafeConnection holds
    Limits,     \* arguments of SetMaxConnections
    SetAtStart, \* the handlers that are set before the first start
    MaxStarts   \* bound: successful calls of StartTcp and StartUnix

AllHandlers == {"connected", "disconnected"}

ASSUME OwnerAssumption == Owner \in Callers
ASSUME NobodyAssumption == Nobody \notin Conns
ASSUME LimitsAssumption == Limits \subseteq Int
ASSUME HandlersAssumption == SetAtStart \subseteq AllHandlers
ASSUME MaxStartsAssumption == MaxStarts \in Nat

VARIABLES
    mutex_server,   \* "free" or "thread"
    socket_type,
    connections,    \* the list, a sequence
    conn,           \* what has become of each client
    id,             \* the id of each Connection
    max_connections,
    handlers,       \* the handlers that are set; the others are uninitialized
    to_stop_event, stopped_event,
    st,             \* where the thread is
    free_conn_id,   \* its local variable
    accept_new,     \* its local variable: poll() is asked about the server socket
    revents,        \* what poll() returned
    new_conn,       \* its local variable
    held,           \* the Connection in each Holder's SafeConnection
    pc,             \* where each Caller is
    dying,          \* ~Server has been entered
    starts,         \* history: number of starts
    late            \* history: clients admitted above max_connections since it was set

threadVars == <<free_conn_id, accept_new, revents, new_conn>>
listVars == <<connections, conn, id>>
settingVars == <<max_connections, handlers, late>>
runVars == <<socket_type, to_stop_event, stopped_event, starts>>
callVars == <<pc, dying>>

vars == <<mutex_server, st, threadVars, listVars, settingVars, runVars, callVars, held>>

-----------------------------------------------------------------------------
ConnStates == {"new", "waiting", "open", "told", "await", "stopping", "stopped", "freed"}
Alive == {"open", "told", "await", "stopping", "stopped"}

Started == socket_type # "undefined"
Destroyed == stopped_event = "closed"

\* accept4 finds a client in the backlog of the server socket.
Waiting == {c \in Conns : conn[c] = "waiting"}
Refs(c) == Cardinality({h \in Holders : held[h] = c})

WriteEventFd(e) == IF e \in {"none", "closed"} THEN e ELSE "set"

NoEvents == [accept |-> FALSE, stop |-> FALSE, closed |-> {}]

-----------------------------------------------------------------------------
(* ServerThreadFunc *)

Unlock(to) == mutex_server' = "free" /\ st' = to

\* A mutant: a limit of zero is taken for no limit.
MutAcceptNew == max_connections > 0 => Len(connections) < max_connections
\* A mutant: the server socket itself is counted.
MutAcceptNewShort == max_connections >= 0 => Len(connections) + 1 < max_connections
AcceptNew == max_connections >= 0 => Len(connections) < max_connections

\* The connections whose stopped events are polled.
\* A mutant: poll() is given one pollfd too few.
MutPolled == {connections[i] : i \in 1..(Len(connections) - 1)}
Polled == {connections[i] : i \in 1..Len(connections)}

\* The pollfds are filled without mutex_server.
ThreadPrepare ==
    /\ st = "prepare"
    /\ accept_new' = AcceptNew
    /\ st' = "poll"
    /\ UNCHANGED <<mutex_server, free_conn_id, revents, new_conn, listVars, settingVars, runVars,
                   callVars, held>>

ThreadPoll ==
    /\ st = "poll"
    /\ revents' = [accept |-> accept_new /\ Waiting # {},
                   stop |-> to_stop_event = "set",
                   closed |-> {c \in Polled : conn[c] = "stopped"}]
    /\ revents' # NoEvents
    /\ st' = "lock"
    /\ UNCHANGED <<mutex_server, free_conn_id, accept_new, new_conn, listVars, settingVars,
                   runVars, callVars, held>>

ThreadStop ==
    /\ st = "lock" /\ mutex_server = "free" /\ revents.stop
    /\ st' = "exit"
    /\ UNCHANGED <<mutex_server, threadVars, listVars, settingVars, runVars, callVars, held>>

ThreadLock ==
    /\ st = "lock" /\ mutex_server = "free" /\ ~revents.stop
    /\ mutex_server' = "thread"
    /\ st' = "sweep"
    /\ UNCHANGED <<threadVars, listVars, settingVars, runVars, callVars, held>>

\* A walk along the list has come to the first of these indices.
First(indices, i) == i \in indices /\ \A j \in indices : i <= j

\* The reported connections that the sweep has not deleted yet.
\* A mutant: the index into the pollfds lags behind the list.
MutUnswept ==
    {i \in DOMAIN connections : /\ conn[connections[i]] # "freed"
                                /\ i > 1 /\ connections[i - 1] \in revents.closed}
Unswept ==
    {i \in DOMAIN connections : connections[i] \in revents.closed /\ conn[connections[i]] # "freed"}

\* The 'disconnected' handler is called without a check.
SweepHandler ==
    /\ st = "sweep" /\ Unswept # {}
    /\ st' = IF "disconnected" \in handlers THEN "gone" ELSE "undefined"
    /\ UNCHANGED <<mutex_server, threadVars, listVars, settingVars, runVars, callVars, held>>

\* The connection is deleted; the list keeps its address for now.
SweepDelete ==
    /\ st = "gone"
    /\ \E i \in DOMAIN connections :
         First(Unswept, i) /\ conn' = [conn EXCEPT ![connections[i]] = "freed"]
    /\ st' = "sweep"
    /\ UNCHANGED <<mutex_server, threadVars, connections, id, settingVars, runVars, callVars, held>>

\* Then the deleted connections are removed from the list, one after the other.
Deleted == {i \in DOMAIN connections : connections[i] \in revents.closed}

SweepRemove ==
    /\ st = "sweep" /\ Unswept = {}
    /\ \E i \in DOMAIN connections : First(Deleted, i) /\ connections' = RemoveAt(connections, i)
    /\ UNCHANGED <<mutex_server, st, threadVars, conn, id, settingVars, runVars, callVars, held>>

\* Nothing accepted and nothing deleted makes the thread quit.
SweepEnd ==
    /\ st = "sweep" /\ Unswept = {} /\ Deleted = {}
    /\ IF revents.accept
       THEN st' = "accept" /\ UNCHANGED mutex_server
       ELSE Unlock(IF revents.closed # {} THEN "prepare" ELSE "exit")
    /\ UNCHANGED <<threadVars, listVars, settingVars, runVars, callVars, held>>

\* AcceptOne.  What the test of an uninitialized 'connected' handler sees, and
\* whether the call returns, is open.
AcceptOne(c) ==
    /\ st = "accept" /\ c \in Waiting
    /\ conn' = [conn EXCEPT ![c] = "open"]
    /\ new_conn' = c
    /\ st' \in IF "connected" \in handlers THEN {"joined"} ELSE {"joined", "undefined"}
    /\ UNCHANGED <<mutex_server, free_conn_id, accept_new, revents, connections, id, settingVars,
                   runVars, callVars, held>>

AcceptFails ==
    /\ st = "accept"
    /\ Unlock("prepare")
    /\ UNCHANGED <<threadVars, listVars, settingVars, runVars, callVars, held>>

\* A mutant: the id is not taken from the counter.
MutTakeId(c) ==
    /\ id' = [id EXCEPT ![c] = free_conn_id]
    /\ UNCHANGED free_conn_id
TakeId(c) ==
    /\ id' = [id EXCEPT ![c] = free_conn_id]
    /\ free_conn_id' = free_conn_id + 1

\* A mutant: the pointer is cleared first.
MutListed == Append(connections, Nobody)
Listed == Append(connections, new_conn)

\* The 'connected' handler has returned: only now the connection gets its id
\* and is listed.
Register ==
    /\ st = "joined"
    /\ TakeId(new_conn)
    /\ connections' = Listed
    /\ late' = IF max_connections >= 0 /\ Len(connections) >= max_connections
               THEN late + 1 ELSE late
    /\ new_conn' = Nobody
    /\ Unlock("prepare")
    /\ UNCHANGED <<accept_new, revents, conn, max_connections, handlers, runVars, callVars, held>>

-----------------------------------------------------------------------------
(* The shutdown, mutex_server held to the end *)

\* A mutant: the stop is signalled before the connections are closed.
MutThreadExit ==
    /\ st = "exit" /\ mutex_server = "free"
    /\ mutex_server' = "thread"
    /\ stopped_event' = WriteEventFd(stopped_event)
    /\ st' = "drain"
    /\ UNCHANGED <<threadVars, listVars, settingVars, socket_type, to_stop_event, starts,
                   callVars, held>>
ThreadExit ==
    /\ st = "exit" /\ mutex_server = "free"
    /\ mutex_server' = "thread"
    /\ st' = "drain"
    /\ UNCHANGED <<threadVars, listVars, settingVars, runVars, callVars, held>>

\* The connections that the shutdown has not deleted yet.
\* A mutant: the list is only cleared.
MutUndrained == {}
Undrained == {i \in DOMAIN connections : conn[connections[i]] # "freed"}

\* Disconnect(true): it needs the connection's mutex_cd, which a teardown that
\* awaits the release of a SafeConnection keeps.
\* A mutant: the disconnection is graceful, and the peer need not read.
MutForced(c) == conn[c]
Forced(c) == IF conn[c] = "open" THEN "told" ELSE conn[c]

DrainDisconnect ==
    /\ st = "drain"
    /\ \E i \in DOMAIN connections :
         /\ First(Undrained, i) /\ conn[connections[i]] # "await"
         /\ conn' = [conn EXCEPT ![connections[i]] = Forced(connections[i])]
    /\ st' = "join"
    /\ UNCHANGED <<mutex_server, threadVars, connections, id, settingVars, runVars, callVars, held>>

DrainDelete ==
    /\ st = "join"
    /\ \E i \in DOMAIN connections :
         /\ First(Undrained, i) /\ conn[connections[i]] = "stopped"
         /\ conn' = [conn EXCEPT ![connections[i]] = "freed"]
    /\ st' = "drain"
    /\ UNCHANGED <<mutex_server, threadVars, connections, id, settingVars, runVars, callVars, held>>

\* The list is cleared and both descriptors are closed; clients that were not
\* accepted are refused.
DrainEnd ==
    /\ st = "drain" /\ Undrained = {}
    /\ connections' = <<>>
    /\ conn' = [c \in Conns |-> IF c \in Waiting THEN "new" ELSE conn[c]]
    /\ to_stop_event' = "closed"
    /\ st' = "signal"
    /\ UNCHANGED <<mutex_server, threadVars, id, settingVars, socket_type, stopped_event, starts,
                   callVars, held>>

\* A mutant: nobody is told.
MutStopNotice == stopped_event
StopNotice == WriteEventFd(stopped_event)

ThreadSignal ==
    /\ st = "signal"
    /\ stopped_event' = StopNotice
    /\ st' = "reset"
    /\ UNCHANGED <<mutex_server, threadVars, listVars, settingVars, socket_type, to_stop_event,
                   starts, callVars, held>>

ThreadReset ==
    /\ st = "reset"
    /\ to_stop_event' = "none"
    /\ socket_type' = "undefined"
    /\ Unlock("done")
    /\ UNCHANGED <<threadVars, listVars, settingVars, stopped_event, starts, callVars, held>>

-----------------------------------------------------------------------------
(* The public methods *)

\* A start that fails changes nothing that matters.  The stopped event keeps
\* its value.
Start(type) ==
    /\ pc[Owner] = "idle" /\ ~dying
    /\ mutex_server = "free" /\ ~Started
    /\ starts < MaxStarts
    /\ socket_type' = type
    /\ to_stop_event' = "clear"
    /\ st' = "prepare"
    /\ free_conn_id' = 1 /\ accept_new' = FALSE /\ revents' = NoEvents /\ new_conn' = Nobody
    /\ starts' = starts + 1
    /\ UNCHANGED <<mutex_server, listVars, settingVars, stopped_event, callVars, held>>

StartUnix == Start("unix")
StartTcp == Start("tcp")

SetHandler(which) ==
    /\ ~dying /\ mutex_server = "free"
    /\ handlers' = handlers \cup {which}
    /\ UNCHANGED <<mutex_server, st, threadVars, listVars, max_connections, late, runVars,
                   callVars, held>>

SetMaxConnections(n) ==
    /\ ~dying
    /\ max_connections' = n
    /\ late' = 0
    /\ UNCHANGED <<mutex_server, st, threadVars, listVars, handlers, runVars, callVars, held>>

\* GetConnection takes no lock and compares the tag or id of every listed address.
GetConnection(h, c) ==
    /\ ~dying /\ held[h] = Nobody
    /\ c \in Range(connections)
    /\ held' = [held EXCEPT ![h] = c]
    /\ UNCHANGED <<mutex_server, st, threadVars, listVars, settingVars, runVars, callVars>>

\* ~SafeConnection: any release lets a waiting teardown go on.
Release(h) ==
    /\ held[h] # Nobody
    /\ conn' = [conn EXCEPT ![held[h]] = IF @ = "await" THEN "stopping" ELSE @]
    /\ held' = [held EXCEPT ![h] = Nobody]
    /\ UNCHANGED <<mutex_server, st, threadVars, connections, id, settingVars, runVars, callVars>>

\* Stop(0) and Stop(-1) have found the server started.
StopCall(t, call) ==
    /\ pc[t] = "idle" /\ ~dying /\ Started
    /\ pc' = [pc EXCEPT ![t] = call]
    /\ UNCHANGED <<mutex_server, st, threadVars, listVars, settingVars, runVars, dying, held>>

StopWrite(t) ==
    /\ pc[t] \in {"stop", "stop_wait"}
    /\ to_stop_event' = WriteEventFd(to_stop_event)
    /\ pc' = [pc EXCEPT ![t] = IF pc[t] = "stop" THEN "idle" ELSE "check"]
    /\ UNCHANGED <<mutex_server, st, threadVars, listVars, settingVars, socket_type,
                   stopped_event, starts, dying, held>>

WaitCall(t) ==
    /\ pc[t] = "idle" /\ ~dying
    /\ pc' = [pc EXCEPT ![t] = "check"]
    /\ UNCHANGED <<mutex_server, st, threadVars, listVars, settingVars, runVars, dying, held>>

\* WaitForStop(-1).
WaitCheck(t) ==
    /\ pc[t] = "check"
    /\ pc' = [pc EXCEPT ![t] = IF Started THEN "wait" ELSE "idle"]
    /\ UNCHANGED <<mutex_server, st, threadVars, listVars, settingVars, runVars, dying, held>>

WaitReturn(t) ==
    /\ pc[t] = "wait" /\ stopped_event = "set"
    /\ pc' = [pc EXCEPT ![t] = "idle"]
    /\ UNCHANGED <<mutex_server, st, threadVars, listVars, settingVars, runVars, dying, held>>

\* ~Server: Stop(-1), then the stopped event is closed.  Nobody else is using
\* the server.
DestroyBegin ==
    /\ ~dying /\ \A t \in Callers : pc[t] = "idle"
    /\ dying' = TRUE
    /\ pc' = [pc EXCEPT ![Owner] = IF Started THEN "stop_wait" ELSE "idle"]
    /\ UNCHANGED <<mutex_server, st, threadVars, listVars, settingVars, runVars, held>>

DestroyEnd ==
    /\ dying /\ pc[Owner] = "idle" /\ ~Destroyed
    /\ stopped_event' = "closed"
    /\ UNCHANGED <<mutex_server, st, threadVars, listVars, settingVars, socket_type,
                   to_stop_event, starts, callVars, held>>

-----------------------------------------------------------------------------
(* The clients, and the polling threads of the connections *)

ClientConnects(c) ==
    /\ st \notin {"none", "signal", "reset", "done"} /\ conn[c] = "new"
    /\ conn' = [conn EXCEPT ![c] = "waiting"]
    /\ UNCHANGED <<mutex_server, st, threadVars, connections, id, settingVars, runVars, callVars,
                   held>>

\* The polling thread leaves its loop and looks at refs_amount.
ConnTeardown(c) ==
    /\ conn[c] \in {"open", "told"}
    /\ conn' = [conn EXCEPT ![c] = IF Refs(c) # 0 THEN "await" ELSE "stopping"]
    /\ UNCHANGED <<mutex_server, st, threadVars, connections, id, settingVars, runVars, callVars,
                   held>>

ConnStopped(c) ==
    /\ conn[c] = "stopping"
    /\ conn' = [conn EXCEPT ![c] = "stopped"]
    /\ UNCHANGED <<mutex_server, st, threadVars, connections, id, settingVars, runVars, callVars,
                   held>>

-----------------------------------------------------------------------------
Init ==
    /\ mutex_server = "free" /\ st = "none"
    /\ socket_type = "undefined" /\ to_stop_event = "none" /\ stopped_event = "clear"
    /\ starts = 0
    /\ connections = <<>> /\ conn = [c \in Conns |-> "new"] /\ id = [c \in Conns |-> 0]
    /\ max_connections = -1 /\ handlers = SetAtStart /\ late = 0
    /\ free_conn_id = 1 /\ accept_new = FALSE /\ revents = NoEvents /\ new_conn = Nobody
    /\ pc = [t \in Callers |-> "idle"] /\ dying = FALSE
    /\ held = [h \in Holders |-> Nobody]

ThreadStep ==
    \/ ThreadPrepare \/ ThreadPoll \/ ThreadStop \/ ThreadLock
    \/ SweepHandler \/ SweepDelete \/ SweepRemove \/ SweepEnd
    \/ (\E c \in Conns : AcceptOne(c)) \/ AcceptFails \/ Register
    \/ ThreadExit \/ DrainDisconnect \/ DrainDelete \/ DrainEnd \/ ThreadSignal \/ ThreadReset

CallStep(t) == StopWrite(t) \/ WaitCheck(t) \/ WaitReturn(t)

Methods ==
    \/ StartUnix \/ StartTcp
    \/ \E which \in AllHandlers : SetHandler(which)
    \/ \E n \in Limits : SetMaxConnections(n)
    \/ \E h \in Holders : (\E c \in Conns : GetConnection(h, c)) \/ Release(h)
    \/ \E t \in Callers :
         \/ \E call \in {"stop", "stop_wait"} : StopCall(t, call)
         \/ WaitCall(t)
         \/ CallStep(t)
    \/ DestroyBegin \/ DestroyEnd

Clients == \E c \in Conns : ClientConnects(c) \/ ConnTeardown(c) \/ ConnStopped(c)

\* The object is gone, or the thread has called an uninitialized handler: what
\* the other threads still do then does not matter.
Halted == (st = "undefined" \/ Destroyed) /\ UNCHANGED vars

Next == ThreadStep \/ Methods \/ Clients \/ Halted

(***************************************************************************)
(* Fairness.  The thread, the calls that are under way and the polling     *)
(* threads of connections that were told to stop run.  accept4 does not    *)
(* fail for ever.  SafeConnections are released.  No client has to come,   *)
(* to go or to stay.                                                       *)
(***************************************************************************)
Fairness ==
    /\ WF_vars(ThreadStep) /\ SF_vars(\E c \in Conns : AcceptOne(c))
    /\ WF_vars(DestroyEnd)
    /\ \A t \in Callers : WF_vars(CallStep(t))
    /\ \A h \in Holders : WF_vars(Release(h))
    /\ \A c \in Conns : WF_vars(ConnStopped(c)) /\ WF_vars(conn[c] = "told" /\ ConnTeardown(c))

Spec == Init /\ [][Next]_vars
FairSpec == Spec /\ Fairness

-----------------------------------------------------------------------------
(* Properties *)

ThreadStates ==
    {"none", "prepare", "poll", "lock", "sweep", "gone", "accept", "joined", "exit", "drain",
     "join", "signal", "reset", "done", "undefined"}

\* Every variable holds a value of its C++ type or of the abstraction of it.
TypeOK ==
    /\ mutex_server \in {"free", "thread"} /\ st \in ThreadStates
    /\ socket_type \in {"undefined", "unix", "tcp"}
    /\ to_stop_event \in {"none", "closed", "clear", "set"}
    /\ stopped_event \in {"closed", "clear", "set"} /\ starts \in Nat
    /\ connections \in Seq(Conns) /\ conn \in [Conns -> ConnStates] /\ id \in [Conns -> Nat]
    /\ max_connections \in Int /\ handlers \subseteq AllHandlers /\ late \in Nat
    /\ free_conn_id \in Nat /\ accept_new \in BOOLEAN /\ new_conn \in Conns \cup {Nobody}
    /\ revents \in [accept : BOOLEAN, stop : BOOLEAN, closed : SUBSET Conns]
    /\ pc \in [Callers -> {"idle", "stop", "stop_wait", "check", "wait"}] /\ dying \in BOOLEAN
    /\ held \in [Holders -> Conns \cup {Nobody}]

\* Outside a sweep and the shutdown the list holds every Connection object
\* that exists but the one AcceptOne is still working on, each once, with ids
\* in the order of acceptance: GetConnection(id) finds at most one.
ListIsExact ==
    st \in {"prepare", "poll", "lock", "accept", "joined", "exit"} =>
        /\ Range(connections) = {c \in Conns : conn[c] \in Alive} \ {new_conn}
        /\ \A i, j \in DOMAIN connections :
             i < j => id[connections[i]] < id[connections[j]]

\* The phase of a connection that the abstract specification tells apart.
Phase(c) ==
    CASE conn[c] \in {"new", "waiting"} -> "off"
      [] conn[c] \in {"open", "told"} -> "open"
      [] conn[c] \in {"stopped", "freed"} -> "stopped"
      [] OTHER -> conn[c]

Life(c) == INSTANCE Lifecycle WITH phase <- Phase(c), refs <- Refs(c)

\* Seen from the server a connection keeps to what Connection promises (module
\* Lifecycle): the sweep and the shutdown delete only connections that have
\* stopped, however the list and the pollfds that index it have moved, and a
\* connection whose teardown met SafeConnections stops only after a release.
ConnectionsKeepLifecycle == [][\A c \in Conns : [Life(c)!Next]_(Life(c)!vars)]_vars

\* Once the thread signals the stop, no Connection object is left behind: not
\* the ones that were open, nor one accepted in the last round.
NothingLeftBehind ==
    st \in {"signal", "reset", "done"} => \A c \in Conns : conn[c] \notin Alive

\* max_connections is read before poll() and acted on after it: at most one
\* client is admitted above a limit that was set in between.
OneLateAdmission == late <= 1

\* WaitForStop(-1), and so Stop(-1), returns to its caller only when the
\* thread has closed every connection.
WaitMeansStopped ==
    [][\A t \in Callers :
         pc[t] = "wait" /\ pc'[t] = "idle" => st \in {"reset", "done"}]_vars

\* A connection that has stopped, for whatever reason, is deleted.
StoppedIsReaped == \A c \in Conns : conn[c] = "stopped" ~> conn[c] = "freed"

\* A request to stop ends the thread, whoever holds SafeConnections.
StopStops == to_stop_event = "set" ~> st = "done"

\* Stop(0), Stop(-1) and ~Server return.
StopReturns == \A t \in Callers : pc[t] \in {"stop", "stop_wait"} ~> pc[t] = "idle"

\* While max_connections leaves room, a client that waits is accepted: a place
\* that a disconnected client frees is given to the next.
Room == max_connections < 0 \/ Len(connections) < max_connections
RoomIsUsed ==
    \A c \in Conns : conn[c] = "waiting" /\ Room ~> conn[c] # "waiting" \/ ~Room

-----------------------------------------------------------------------------
(* What the repository says of the program and the code does not do *)

\* Server.hpp:113 and 118: ~Server calls Stop(-1), which waits for the server to
\* stop; so no thread uses the object after its destruction.
DestroyedIsUnused == Destroyed => st \in {"none", "done", "undefined"}
=============================================================================
