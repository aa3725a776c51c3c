---------------------------- MODULE ServerProofs ----------------------------
(***************************************************************************)
(* Proofs, for any number of clients, holders, callers and starts, of the  *)
(* safety properties of module Server.  They rest on ServerInv:            *)
(*                                                                         *)
(*   ThreadOwns    mutex_server and socket_type follow the thread;         *)
(*   ReportHolds   what poll() reported stays true until the sweep acts;   *)
(*   ListFits      which connections the list has, in every phase of the   *)
(*                 round and of the shutdown;                              *)
(*   IdsGrow       the ids in the list grow and are below the counter;     *)
(*   LateOnce      a round that may still admit a client late has not      *)
(*                 admitted one late before.                               *)
(***************************************************************************)
EXTENDS Server, SequenceTheorems, FiniteSetTheorems, TLAPS

-----------------------------------------------------------------------------
(* The inductive invariant *)

AliveConns == {c \in Conns : conn[c] \in Alive}
InList == {connections[i] : i \in DOMAIN connections}

Round == {"prepare", "poll", "lock", "accept", "joined", "exit"}
Sweeping == {"sweep", "gone"}
Draining == {"drain", "join"}
Ended == {"signal", "reset"}
Idle == {"none", "done"}

ThreadOwns ==
    /\ st \in Sweeping \cup Draining \cup Ended \cup {"accept", "joined"} => mutex_server = "thread"
    /\ st \in Idle <=> ~Started

ReportHolds ==
    /\ st \in {"lock"} \cup Sweeping => \A c \in revents.closed : conn[c] \in {"stopped", "freed"}
    /\ st = "gone" => Unswept # {}
    /\ st \in {"accept", "joined"} => revents.accept
    /\ st # "undefined" => (new_conn # Nobody <=> st = "joined")

ListFits ==
    /\ st \in Round => InList = AliveConns \ {new_conn}
    /\ st = "joined" => conn[new_conn] \in Alive
    /\ st \in Sweeping => /\ AliveConns \subseteq InList
                          /\ \A c \in InList : c \in revents.closed \/ conn[c] \in Alive
    /\ st \in Draining => AliveConns \subseteq InList
    /\ st \in Ended \cup Idle => AliveConns = {} /\ connections = <<>>

IdsGrow ==
    /\ \A i \in DOMAIN connections : id[connections[i]] < free_conn_id
    /\ \A i, j \in DOMAIN connections : i < j => id[connections[i]] < id[connections[j]]

MayAdmit ==
    \/ st = "poll" /\ accept_new
    \/ st \in {"lock", "accept", "joined"} \cup Sweeping /\ revents.accept

LateOnce ==
    /\ late <= 1
    /\ MayAdmit => late = 0 \/ max_connections < 0 \/ Len(connections) < max_connections

ServerInv == ThreadOwns /\ ReportHolds /\ ListFits /\ IdsGrow /\ LateOnce

-----------------------------------------------------------------------------
(* The list *)

\* What Append does to the list.
LEMMA AppendFacts ==
    ASSUME NEW S, NEW s \in Seq(S), NEW x \in S
    PROVE  /\ Append(s, x) \in Seq(S)
           /\ Len(Append(s, x)) = Len(s) + 1
           /\ \A j \in 1..Len(s) : Append(s, x)[j] = s[j]
           /\ Append(s, x)[Len(s) + 1] = x
  BY AppendProperties

\* What RemoveAt does to the list: the elements behind the removed one move up.
LEMMA RemoveAtFacts ==
    ASSUME NEW S, NEW s \in Seq(S), NEW i \in DOMAIN s
    PROVE  /\ RemoveAt(s, i) \in Seq(S)
           /\ Len(RemoveAt(s, i)) = Len(s) - 1
           /\ \A j \in 1..(Len(s) - 1) : RemoveAt(s, i)[j] = IF j < i THEN s[j] ELSE s[j + 1]
  <1> DEFINE a == SubSeq(s, 1, i - 1)
             b == SubSeq(s, i + 1, Len(s))
  <1>1. i \in 1..Len(s) /\ Len(s) \in Nat
    OBVIOUS
  <1>2. a \in Seq(S) /\ Len(a) = i - 1 /\ \A j \in 1..(i - 1) : a[j] = s[j]
    BY <1>1, SubSeqProperties
  <1>3. b \in Seq(S) /\ Len(b) = Len(s) - i /\ \A j \in 1..(Len(s) - i) : b[j] = s[i + j]
    BY <1>1, SubSeqProperties
  <1> HIDE DEF a, b
  <1>4. a \o b \in Seq(S) /\ Len(a \o b) = Len(s) - 1
    BY <1>1, <1>2, <1>3, ConcatProperties
  <1>5. \A j \in 1..(Len(s) - 1) : (a \o b)[j] = IF j < i THEN s[j] ELSE s[j + 1]
    <2> TAKE j \in 1..(Len(s) - 1)
    <2>1. i \in Int /\ j \in Int
      BY <1>1
    <2>2. CASE j < i
      BY <1>1, <1>2, <1>3, <2>2, ConcatProperties
    <2>3. CASE ~(j < i)
      <3>1. (a \o b)[j] = b[j - Len(a)]
        BY <1>1, <1>2, <1>3, <2>1, <2>3, ConcatProperties, SMTT(30)
      <3> QED
        BY <1>1, <1>2, <1>3, <2>1, <2>3, <3>1
    <2> QED
      BY <2>2, <2>3
  <1> QED
    BY <1>4, <1>5 DEF RemoveAt, a, b

-----------------------------------------------------------------------------
(* Types *)

LEMMA NoEventsType == NoEvents \in [accept : BOOLEAN, stop : BOOLEAN, closed : SUBSET Conns]
  BY DEF NoEvents

LEMMA TypeInit == Init => TypeOK
  <1> SUFFICES ASSUME Init PROVE TypeOK
    OBVIOUS
  <1>1. connections \in Seq(Conns)
    BY DEF Init
  <1>2. /\ conn \in [Conns -> ConnStates] /\ id \in [Conns -> Nat]
        /\ pc \in [Callers -> {"idle", "stop", "stop_wait", "check", "wait"}]
        /\ held \in [Holders -> Conns \cup {Nobody}]
    BY DEF Init, ConnStates
  <1>3. /\ accept_new \in BOOLEAN /\ dying \in BOOLEAN
        /\ revents \in [accept : BOOLEAN, stop : BOOLEAN, closed : SUBSET Conns]
    BY NoEventsType DEF Init
  <1>4. /\ starts \in Nat /\ max_connections \in Int /\ late \in Nat /\ free_conn_id \in Nat
        /\ handlers \subseteq AllHandlers
    BY HandlersAssumption DEF Init
  <1> QED
    BY <1>1, <1>2, <1>3, <1>4 DEF Init, TypeOK, ThreadStates

\* Every step of the thread keeps the types.
LEMMA TypeThread == ASSUME TypeOK, ReportHolds, ThreadStep PROVE TypeOK'
  <1> USE DEF TypeOK, ThreadStates, ConnStates, runVars, threadVars, listVars, settingVars, callVars
  <1>1. CASE ThreadPrepare
    BY <1>1 DEF ThreadPrepare, AcceptNew
  <1>2. CASE ThreadPoll
    BY <1>2 DEF ThreadPoll, Polled
  <1>3. CASE ThreadStop \/ ThreadLock
    BY <1>3 DEF ThreadStop, ThreadLock
  <1>4. CASE SweepHandler
    BY <1>4 DEF SweepHandler
  <1>5. CASE SweepDelete
    BY <1>5 DEF SweepDelete, First
  <1>6. CASE SweepRemove
    <2>1. PICK i \in DOMAIN connections : connections' = RemoveAt(connections, i)
      BY <1>6 DEF SweepRemove
    <2>2. connections' \in Seq(Conns)
      BY <2>1, RemoveAtFacts
    <2> QED
      BY <1>6, <2>2 DEF SweepRemove
  <1>7. CASE SweepEnd
    BY <1>7 DEF SweepEnd, Unlock
  <1>8. ASSUME NEW c \in Conns, AcceptOne(c) PROVE TypeOK'
    BY <1>8 DEF AcceptOne
  <1>9. CASE AcceptFails
    BY <1>9 DEF AcceptFails, Unlock
  <1>10. CASE Register
    <2>1. new_conn \in Conns
      BY <1>10 DEF ReportHolds, Register
    <2>2. connections' \in Seq(Conns)
      BY <1>10, <2>1, AppendFacts DEF Register, Listed
    <2>3. late' \in Nat /\ free_conn_id' \in Nat /\ id' \in [Conns -> Nat]
      BY <1>10, <2>1 DEF Register, TakeId
    <2> QED
      BY <1>10, <2>2, <2>3 DEF Register, Unlock
  <1>11. CASE ThreadExit
    BY <1>11 DEF ThreadExit
  <1>12. CASE DrainDisconnect
    BY <1>12 DEF DrainDisconnect, Forced
  <1>13. CASE DrainDelete
    BY <1>13 DEF DrainDelete
  <1>14. CASE DrainEnd
    BY <1>14 DEF DrainEnd
  <1>15. CASE ThreadSignal
    BY <1>15 DEF ThreadSignal, StopNotice, WriteEventFd
  <1>16. CASE ThreadReset
    BY <1>16 DEF ThreadReset, Unlock
  <1> QED
    BY <1>1, <1>2, <1>3, <1>4, <1>5, <1>6, <1>7, <1>8, <1>9, <1>10, <1>11, <1>12, <1>13, <1>14,
       <1>15, <1>16 DEF ThreadStep

\* So does every call of a method.
LEMMA TypeMethods == ASSUME TypeOK, Methods PROVE TypeOK'
  <1> USE DEF TypeOK, ThreadStates, ConnStates, runVars, threadVars, listVars, settingVars, callVars
  <1>1. CASE StartUnix \/ StartTcp
    <2>1. /\ accept_new' \in BOOLEAN
          /\ revents' \in [accept : BOOLEAN, stop : BOOLEAN, closed : SUBSET Conns]
      BY <1>1, NoEventsType DEF StartUnix, StartTcp, Start
    <2>2. starts' \in Nat /\ free_conn_id' \in Nat /\ socket_type' \in {"undefined", "unix", "tcp"}
      BY <1>1 DEF StartUnix, StartTcp, Start
    <2> QED
      BY <1>1, <2>1, <2>2 DEF StartUnix, StartTcp, Start
  <1>2. ASSUME NEW which \in AllHandlers, SetHandler(which) PROVE TypeOK'
    BY <1>2 DEF SetHandler
  <1>3. ASSUME NEW n \in Limits, SetMaxConnections(n) PROVE TypeOK'
    BY <1>3, LimitsAssumption DEF SetMaxConnections
  <1>4. ASSUME NEW h \in Holders, NEW c \in Conns, GetConnection(h, c) PROVE TypeOK'
    BY <1>4 DEF GetConnection
  <1>5. ASSUME NEW h \in Holders, Release(h) PROVE TypeOK'
    BY <1>5 DEF Release
  <1>6. ASSUME NEW t \in Callers, NEW call \in {"stop", "stop_wait"}, StopCall(t, call)
        PROVE  TypeOK'
    BY <1>6 DEF StopCall
  <1>7. ASSUME NEW t \in Callers, WaitCall(t) PROVE TypeOK'
    BY <1>7 DEF WaitCall
  <1>8. ASSUME NEW t \in Callers, CallStep(t) PROVE TypeOK'
    <2>1. CASE StopWrite(t)
      <3>1. pc' \in [Callers -> {"idle", "stop", "stop_wait", "check", "wait"}]
        BY <2>1 DEF StopWrite
      <3> QED
        BY <2>1, <3>1 DEF StopWrite, WriteEventFd
    <2>2. CASE WaitCheck(t)
      BY <2>2 DEF WaitCheck
    <2>3. CASE WaitReturn(t)
      BY <2>3 DEF WaitReturn
    <2> QED
      BY <1>8, <2>1, <2>2, <2>3 DEF CallStep
  <1>9. CASE DestroyBegin
    BY <1>9, OwnerAssumption DEF DestroyBegin
  <1>10. CASE DestroyEnd
    BY <1>10 DEF DestroyEnd
  <1> QED
    BY <1>1, <1>2, <1>3, <1>4, <1>5, <1>6, <1>7, <1>8, <1>9, <1>10 DEF Methods

\* And every step of the clients and of the polling threads of connections.
LEMMA TypeClients == ASSUME TypeOK, Clients PROVE TypeOK'
  <1> USE DEF TypeOK, ConnStates, runVars, threadVars, settingVars, callVars
  <1>1. ASSUME NEW c \in Conns, ClientConnects(c) PROVE TypeOK'
    BY <1>1 DEF ClientConnects
  <1>2. ASSUME NEW c \in Conns, ConnTeardown(c) PROVE TypeOK'
    BY <1>2 DEF ConnTeardown
  <1>3. ASSUME NEW c \in Conns, ConnStopped(c) PROVE TypeOK'
    BY <1>3 DEF ConnStopped
  <1> QED
    BY <1>1, <1>2, <1>3 DEF Clients

LEMMA TypeStep == ASSUME TypeOK, ReportHolds, [Next]_vars PROVE TypeOK'
  <1>1. CASE UNCHANGED vars
    BY <1>1 DEF vars, TypeOK, runVars, threadVars, listVars, settingVars, callVars
  <1> QED
    BY <1>1, TypeThread, TypeMethods, TypeClients DEF Next, Halted

-----------------------------------------------------------------------------
(* The steps of the other threads *)

coreVars == <<mutex_server, st, threadVars, connections, id, max_connections, late, socket_type>>

\* A connection comes closer to its end, or nothing that matters here changes.
ConnMoves ==
    /\ UNCHANGED coreVars
    /\ \A c \in Conns : conn'[c] \in Alive <=> conn[c] \in Alive
    /\ \A c \in Conns : conn[c] \in {"stopped", "freed"} => conn'[c] = conn[c]

Limited == \E n \in Limits : SetMaxConnections(n)

\* Nothing but Start, SetMaxConnections and the thread does more.
LEMMA OthersFrame ==
    ASSUME TypeOK, [Next]_vars
    PROVE  ThreadStep \/ StartUnix \/ StartTcp \/ Limited \/ ConnMoves
  <1> USE DEF ConnMoves, coreVars, threadVars, listVars, settingVars, runVars, callVars
  <1>1. ASSUME NEW which \in AllHandlers, SetHandler(which) PROVE ConnMoves
    BY <1>1 DEF SetHandler
  <1>2. ASSUME NEW h \in Holders, NEW c \in Conns, GetConnection(h, c) PROVE ConnMoves
    BY <1>2 DEF GetConnection
  <1>3. ASSUME NEW h \in Holders, Release(h) PROVE ConnMoves
    BY <1>3 DEF Release, TypeOK, Alive
  <1>4. ASSUME NEW t \in Callers, NEW call \in {"stop", "stop_wait"}, StopCall(t, call)
        PROVE  ConnMoves
    BY <1>4 DEF StopCall
  <1>5. ASSUME NEW t \in Callers, WaitCall(t) \/ CallStep(t) PROVE ConnMoves
    BY <1>5 DEF WaitCall, CallStep, StopWrite, WaitCheck, WaitReturn
  <1>6. CASE DestroyBegin \/ DestroyEnd
    BY <1>6 DEF DestroyBegin, DestroyEnd
  <1>7. ASSUME NEW c \in Conns, ClientConnects(c) PROVE ConnMoves
    <2>1. conn' = [conn EXCEPT ![c] = "waiting"] /\ conn[c] = "new"
      BY <1>7 DEF ClientConnects
    <2>2. /\ \A d \in Conns : conn'[d] \in Alive <=> conn[d] \in Alive
          /\ \A d \in Conns : conn[d] \in {"stopped", "freed"} => conn'[d] = conn[d]
      BY <2>1 DEF TypeOK, Alive
    <2>3. UNCHANGED coreVars
      BY <1>7 DEF ClientConnects
    <2> HIDE DEF coreVars
    <2> QED
      BY <2>2, <2>3
  <1>8. ASSUME NEW c \in Conns, ConnTeardown(c) PROVE ConnMoves
    BY <1>8 DEF ConnTeardown, TypeOK, Alive
  <1>9. ASSUME NEW c \in Conns, ConnStopped(c) PROVE ConnMoves
    BY <1>9 DEF ConnStopped, TypeOK, Alive
  <1>10. CASE UNCHANGED vars
    BY <1>10 DEF vars
  <1> QED
    BY <1>1, <1>2, <1>3, <1>4, <1>5, <1>6, <1>7, <1>8, <1>9, <1>10
       DEF Next, Methods, Clients, Halted, Limited

-----------------------------------------------------------------------------
(* The steps of the invariant *)

\* mutex_server and socket_type follow the thread.
LEMMA ThreadOwnsStep == ASSUME TypeOK, ThreadOwns, [Next]_vars PROVE ThreadOwns'
  <1> USE DEF ThreadOwns, Sweeping, Draining, Ended, Idle, Started, runVars
  <1>1. CASE ThreadPrepare \/ ThreadPoll \/ ThreadStop \/ ThreadLock
    BY <1>1 DEF ThreadPrepare, ThreadPoll, ThreadStop, ThreadLock
  <1>2. CASE SweepHandler \/ SweepDelete \/ SweepRemove \/ SweepEnd
    BY <1>2 DEF SweepHandler, SweepDelete, SweepRemove, SweepEnd, Unlock
  <1>3. ASSUME NEW c \in Conns, AcceptOne(c) PROVE ThreadOwns'
    BY <1>3 DEF AcceptOne
  <1>4. CASE AcceptFails \/ Register
    BY <1>4 DEF AcceptFails, Register, Unlock
  <1>5. CASE ThreadExit \/ DrainDisconnect \/ DrainDelete
    BY <1>5 DEF ThreadExit, DrainDisconnect, DrainDelete
  <1>6. CASE DrainEnd \/ ThreadSignal \/ ThreadReset
    BY <1>6 DEF DrainEnd, ThreadSignal, ThreadReset, Unlock
  <1>7. CASE StartUnix \/ StartTcp
    BY <1>7 DEF StartUnix, StartTcp, Start
  <1>8. CASE Limited
    BY <1>8 DEF Limited, SetMaxConnections
  <1>9. CASE ConnMoves
    BY <1>9 DEF ConnMoves, coreVars
  <1> QED
    BY <1>1, <1>2, <1>3, <1>4, <1>5, <1>6, <1>7, <1>8, <1>9, OthersFrame DEF ThreadStep

\* What poll() reported stays true until the sweep has dealt with it.
LEMMA ReportHoldsStep == ASSUME TypeOK, ThreadOwns, ReportHolds, [Next]_vars PROVE ReportHolds'
  <1> USE NobodyAssumption
      DEF TypeOK, ReportHolds, Sweeping, threadVars, listVars
  <1>1. CASE ThreadPrepare \/ ThreadStop \/ ThreadLock
    BY <1>1 DEF ThreadPrepare, ThreadStop, ThreadLock
  <1>2. CASE ThreadPoll
    BY <1>2 DEF ThreadPoll
  <1>3. CASE SweepHandler
    BY <1>3 DEF SweepHandler, Unswept
  <1>4. CASE SweepDelete
    BY <1>4 DEF SweepDelete, First, Unswept
  <1>5. CASE SweepRemove \/ SweepEnd
    BY <1>5 DEF SweepRemove, SweepEnd, Unlock
  <1>6. ASSUME NEW c \in Conns, AcceptOne(c) PROVE ReportHolds'
    BY <1>6 DEF AcceptOne
  <1>7. CASE AcceptFails \/ Register
    BY <1>7 DEF AcceptFails, Register, Unlock
  <1>8. CASE ThreadExit \/ DrainDisconnect \/ DrainDelete \/ DrainEnd
    BY <1>8 DEF ThreadExit, DrainDisconnect, DrainDelete, DrainEnd
  <1>9. CASE ThreadSignal \/ ThreadReset
    BY <1>9 DEF ThreadSignal, ThreadReset, Unlock
  <1>10. CASE StartUnix \/ StartTcp
    BY <1>10 DEF StartUnix, StartTcp, Start
  <1>11. CASE Limited
    BY <1>11 DEF Limited, SetMaxConnections, Unswept
  <1>12. CASE ConnMoves
    <2>1. st' = st /\ revents' = revents /\ new_conn' = new_conn /\ connections' = connections
      BY <1>12 DEF ConnMoves, coreVars
    <2>2. \A c \in Conns : conn[c] \in {"stopped", "freed"} => conn'[c] = conn[c]
      BY <1>12 DEF ConnMoves
    <2>3. revents.closed \subseteq Conns
      OBVIOUS
    <2>4. st = "gone" => Unswept' = Unswept
      <3> SUFFICES ASSUME st = "gone", NEW i \in DOMAIN connections, connections[i] \in revents.closed
                   PROVE  conn'[connections[i]] = conn[connections[i]]
        BY <2>1 DEF Unswept
      <3> QED
        BY <2>2, <2>3
    <2> QED
      BY <2>1, <2>2, <2>3, <2>4
  <1> QED
    BY <1>1, <1>2, <1>3, <1>4, <1>5, <1>6, <1>7, <1>8, <1>9, <1>10, <1>11, <1>12, OthersFrame
       DEF ThreadStep

\* The list after the removal of one address.
LEMMA ListAfterRemoval ==
    ASSUME TypeOK, NEW i \in DOMAIN connections, connections' = RemoveAt(connections, i)
    PROVE  /\ connections \in Seq(Conns) /\ connections' \in Seq(Conns)
           /\ Len(connections') = Len(connections) - 1
           /\ \A j \in 1..(Len(connections) - 1) :
                connections'[j] = IF j < i THEN connections[j] ELSE connections[j + 1]
  <1>1. connections \in Seq(Conns)
    BY DEF TypeOK
  <1> DEFINE r == RemoveAt(connections, i)
  <1>2. /\ r \in Seq(Conns)
        /\ Len(r) = Len(connections) - 1
        /\ \A j \in 1..(Len(connections) - 1) :
             r[j] = IF j < i THEN connections[j] ELSE connections[j + 1]
    BY <1>1, RemoveAtFacts, Zenon
  <1>3. connections' = r
    OBVIOUS
  <1> HIDE DEF r
  <1> QED
    BY <1>1, <1>2, <1>3

\* Which addresses are left after a removal, and after an insertion.
LEMMA RemovedFromList ==
    ASSUME TypeOK, NEW i \in DOMAIN connections, connections' = RemoveAt(connections, i)
    PROVE  /\ InList' \subseteq InList
           /\ InList \ {connections[i]} \subseteq InList'
  <1>1. /\ connections \in Seq(Conns) /\ connections' \in Seq(Conns)
        /\ Len(connections') = Len(connections) - 1
        /\ \A j \in 1..(Len(connections) - 1) :
             connections'[j] = IF j < i THEN connections[j] ELSE connections[j + 1]
    BY ListAfterRemoval
  <1>2. /\ DOMAIN connections = 1..Len(connections) /\ Len(connections) \in Nat
        /\ DOMAIN connections' = 1..(Len(connections) - 1)
    BY <1>1
  <1>3. InList' \subseteq InList
    <2> SUFFICES ASSUME NEW j \in 1..(Len(connections) - 1) PROVE connections'[j] \in InList
      BY <1>2 DEF InList
    <2>1. j \in DOMAIN connections /\ j + 1 \in DOMAIN connections
      BY <1>2
    <2>2. connections'[j] \in {connections[j], connections[j + 1]}
      BY <1>1
    <2> QED
      BY <2>1, <2>2 DEF InList
  <1>4. ASSUME NEW j \in DOMAIN connections, j # i PROVE connections[j] \in InList'
    <2>1. CASE j < i
      <3>1. j \in 1..(Len(connections) - 1) /\ connections'[j] = connections[j]
        BY <1>1, <1>2, <2>1
      <3> QED
        BY <1>2, <3>1 DEF InList
    <2>2. CASE i < j
      <3>1. /\ j - 1 \in 1..(Len(connections) - 1)
            /\ connections'[j - 1] = connections[j]
        BY <1>1, <1>2, <2>2
      <3> QED
        BY <1>2, <3>1 DEF InList
    <2> QED
      BY <1>2, <1>4, <2>1, <2>2
  <1>5. InList \ {connections[i]} \subseteq InList'
    BY <1>4 DEF InList
  <1> QED
    BY <1>3, <1>5

LEMMA AddedToList ==
    ASSUME TypeOK, NEW c \in Conns, connections' = Append(connections, c)
    PROVE  InList' = InList \cup {c}
  <1>1. /\ connections \in Seq(Conns) /\ connections' \in Seq(Conns)
        /\ Len(connections') = Len(connections) + 1
        /\ \A j \in 1..Len(connections) : connections'[j] = connections[j]
        /\ connections'[Len(connections) + 1] = c
    BY AppendFacts DEF TypeOK
  <1>2. /\ DOMAIN connections = 1..Len(connections) /\ Len(connections) \in Nat
        /\ DOMAIN connections' = 1..(Len(connections) + 1)
    BY <1>1
  <1>3. InList' \subseteq InList \cup {c}
    BY <1>1, <1>2 DEF InList
  <1>4. InList \subseteq InList'
    BY <1>1, <1>2 DEF InList
  <1>5. c \in InList'
    BY <1>1, <1>2 DEF InList
  <1> QED
    BY <1>3, <1>4, <1>5

\* Which connections the list has, in every phase of the thread.
LEMMA ListFitsStep ==
    ASSUME TypeOK, ThreadOwns, ReportHolds, ListFits, [Next]_vars PROVE ListFits'
  <1> USE NobodyAssumption DEF ListFits, Round, Sweeping, Draining, Ended, Idle
  <1>0. new_conn \in Conns \cup {Nobody} /\ AliveConns \subseteq Conns /\ InList \subseteq Conns
    BY DEF TypeOK, AliveConns, InList
  <1>1. CASE ThreadPrepare \/ ThreadPoll \/ ThreadStop
    BY <1>1 DEF ThreadPrepare, ThreadPoll, ThreadStop, threadVars, listVars, AliveConns, InList
  <1>2. CASE ThreadLock
    <2>1. st = "lock" /\ st' = "sweep" /\ UNCHANGED <<revents, connections, conn>>
      BY <1>2 DEF ThreadLock, threadVars, listVars
    <2>2. new_conn = Nobody /\ AliveConns = InList
      BY <1>0, <2>1 DEF ReportHolds
    <2> QED
      BY <2>1, <2>2 DEF AliveConns, InList
  <1>3. CASE SweepHandler
    BY <1>3 DEF SweepHandler, threadVars, listVars, AliveConns, InList
  <1>4. CASE SweepDelete
    <2>1. PICK i \in DOMAIN connections :
               i \in Unswept /\ conn' = [conn EXCEPT ![connections[i]] = "freed"]
      BY <1>4 DEF SweepDelete, First
    <2>2. st' = "sweep" /\ st = "gone" /\ UNCHANGED <<revents, connections>>
      BY <1>4 DEF SweepDelete, threadVars
    <2>3. connections[i] \in revents.closed /\ connections[i] \in Conns
      BY <2>1 DEF Unswept, TypeOK
    <2>4. InList' = InList
      BY <2>2 DEF InList
    <2>5. AliveConns' \subseteq AliveConns
      BY <2>1, <2>3 DEF AliveConns, TypeOK, Alive
    <2>6. \A c \in InList : c \in revents.closed \/ conn'[c] \in Alive
      BY <1>0, <2>1, <2>2, <2>3 DEF TypeOK
    <2> QED
      BY <2>2, <2>4, <2>5, <2>6
  <1>5. CASE SweepRemove
    <2>1. PICK i \in DOMAIN connections :
               i \in Deleted /\ connections' = RemoveAt(connections, i)
      BY <1>5 DEF SweepRemove, First
    <2>2. st = "sweep" /\ st' = "sweep" /\ Unswept = {} /\ UNCHANGED <<revents, conn>>
      BY <1>5 DEF SweepRemove, threadVars
    <2>3. InList' \subseteq InList /\ InList \ {connections[i]} \subseteq InList'
      BY <2>1, RemovedFromList
    <2>4. connections[i] \notin AliveConns
      BY <2>1, <2>2 DEF Deleted, Unswept, AliveConns, Alive
    <2>5. AliveConns' = AliveConns
      BY <2>2 DEF AliveConns
    <2> QED
      BY <2>2, <2>3, <2>4, <2>5
  <1>6. CASE SweepEnd
    <2>1. /\ st = "sweep" /\ Deleted = {} /\ UNCHANGED <<connections, conn, new_conn>>
          /\ st' \in {"accept", "prepare", "exit"}
      BY <1>6 DEF SweepEnd, Unlock, threadVars, listVars
    <2>2. \A c \in InList : c \notin revents.closed
      BY <2>1 DEF Deleted, InList
    <2>3. InList = AliveConns /\ new_conn = Nobody
      BY <1>0, <2>1, <2>2 DEF AliveConns, ReportHolds
    <2>4. InList' = InList /\ AliveConns' = AliveConns
      BY <2>1 DEF InList, AliveConns
    <2> QED
      BY <1>0, <2>1, <2>3, <2>4
  <1>7. ASSUME NEW c \in Conns, AcceptOne(c) PROVE ListFits'
    <2>1. /\ st = "accept" /\ st' \in {"joined", "undefined"} /\ new_conn' = c
          /\ conn[c] = "waiting" /\ conn' = [conn EXCEPT ![c] = "open"]
          /\ connections' = connections
      BY <1>7 DEF AcceptOne, Waiting
    <2>2. InList = AliveConns /\ InList' = InList
      BY <1>0, <2>1 DEF ReportHolds, InList
    <2>3. AliveConns' = AliveConns \cup {c} /\ c \notin AliveConns /\ conn'[c] \in Alive
      BY <2>1 DEF AliveConns, TypeOK, Alive
    <2> QED
      BY <2>1, <2>2, <2>3
  <1>8. CASE AcceptFails
    BY <1>8 DEF AcceptFails, Unlock, threadVars, listVars, AliveConns, InList
  <1>9. CASE Register
    <2>1. /\ st = "joined" /\ st' = "prepare" /\ new_conn' = Nobody /\ conn' = conn
          /\ connections' = Append(connections, new_conn)
      BY <1>9 DEF Register, Unlock, Listed
    <2>2. new_conn \in Conns /\ new_conn \in AliveConns
      BY <1>0, <2>1 DEF ReportHolds, AliveConns
    <2>3. InList' = InList \cup {new_conn}
      BY <2>1, <2>2, AddedToList
    <2>4. AliveConns' = AliveConns
      BY <2>1 DEF AliveConns
    <2> QED
      BY <1>0, <2>1, <2>2, <2>3, <2>4
  <1>10. CASE ThreadExit
    <2>1. st = "exit" /\ st' = "drain" /\ UNCHANGED <<connections, conn>>
      BY <1>10 DEF ThreadExit, listVars
    <2>2. InList = AliveConns
      BY <1>0, <2>1 DEF ReportHolds
    <2> QED
      BY <2>1, <2>2 DEF AliveConns, InList
  <1>11. CASE DrainDisconnect
    <2>1. PICK i \in DOMAIN connections : conn' = [conn EXCEPT ![connections[i]] = Forced(connections[i])]
      BY <1>11 DEF DrainDisconnect
    <2>2. st = "drain" /\ st' = "join" /\ connections' = connections
      BY <1>11 DEF DrainDisconnect
    <2>3. AliveConns' = AliveConns /\ InList' = InList
      BY <2>1, <2>2 DEF AliveConns, InList, Forced, TypeOK, Alive
    <2> QED
      BY <2>2, <2>3
  <1>12. CASE DrainDelete
    <2>1. PICK i \in DOMAIN connections : conn' = [conn EXCEPT ![connections[i]] = "freed"]
      BY <1>12 DEF DrainDelete
    <2>2. st = "join" /\ st' = "drain" /\ connections' = connections
      BY <1>12 DEF DrainDelete
    <2>3. AliveConns' \subseteq AliveConns /\ InList' = InList
      BY <2>1, <2>2 DEF AliveConns, InList, TypeOK, Alive
    <2> QED
      BY <2>2, <2>3
  <1>13. CASE DrainEnd
    <2>1. /\ st = "drain" /\ st' = "signal" /\ Undrained = {} /\ connections' = <<>>
          /\ conn' = [c \in Conns |-> IF c \in Waiting THEN "new" ELSE conn[c]]
      BY <1>13 DEF DrainEnd
    <2>2. AliveConns = {}
      BY <2>1 DEF Undrained, AliveConns, InList, Alive
    <2>3. AliveConns' = {}
      BY <2>1, <2>2 DEF AliveConns, Waiting, Alive
    <2> QED
      BY <2>1, <2>3
  <1>14. CASE ThreadSignal \/ ThreadReset
    BY <1>14 DEF ThreadSignal, ThreadReset, Unlock, listVars, AliveConns
  <1>15. CASE StartUnix \/ StartTcp
    <2>1. /\ ~Started /\ st' = "prepare" /\ new_conn' = Nobody /\ UNCHANGED <<connections, conn>>
      BY <1>15 DEF StartUnix, StartTcp, Start, listVars
    <2>2. AliveConns = {} /\ connections = <<>>
      BY <2>1 DEF ThreadOwns
    <2>3. AliveConns' = {} /\ InList' = {}
      BY <2>1, <2>2 DEF AliveConns, InList
    <2> QED
      BY <2>1, <2>3
  <1>16. CASE Limited
    BY <1>16 DEF Limited, SetMaxConnections, threadVars, listVars, AliveConns, InList
  <1>17. CASE ConnMoves
    <2>1. UNCHANGED <<st, new_conn, revents, connections>>
      BY <1>17 DEF ConnMoves, coreVars, threadVars
    <2>2. AliveConns' = AliveConns /\ InList' = InList
      BY <1>17, <2>1 DEF ConnMoves, AliveConns, InList
    <2>3. \A c \in Conns : conn'[c] \in Alive <=> conn[c] \in Alive
      BY <1>17 DEF ConnMoves
    <2>4. st = "joined" => new_conn \in Conns
      BY <1>0 DEF ReportHolds
    <2> QED
      BY <1>0, <2>1, <2>2, <2>3, <2>4
  <1> QED
    BY <1>1, <1>2, <1>3, <1>4, <1>5, <1>6, <1>7, <1>8, <1>9, <1>10, <1>11, <1>12, <1>13, <1>14,
       <1>15, <1>16, <1>17, OthersFrame DEF ThreadStep

\* A removal keeps the order of the ids, and shortens the list.
LEMMA RemovalKeepsOrder ==
    ASSUME TypeOK, IdsGrow, NEW i \in DOMAIN connections,
           connections' = RemoveAt(connections, i), UNCHANGED <<id, free_conn_id>>
    PROVE  IdsGrow'
  <1>1. /\ connections \in Seq(Conns) /\ connections' \in Seq(Conns)
        /\ Len(connections') = Len(connections) - 1
        /\ \A j \in 1..(Len(connections) - 1) :
             connections'[j] = IF j < i THEN connections[j] ELSE connections[j + 1]
    BY ListAfterRemoval
  <1>2. /\ DOMAIN connections = 1..Len(connections) /\ Len(connections) \in Nat
        /\ DOMAIN connections' = 1..(Len(connections) - 1)
    BY <1>1
  <1> DEFINE old(j) == IF j < i THEN j ELSE j + 1
  <1>3. \A j \in DOMAIN connections' :
           old(j) \in DOMAIN connections /\ connections'[j] = connections[old(j)]
    BY <1>1, <1>2
  <1>4. \A j, k \in DOMAIN connections' : j < k => old(j) < old(k)
    BY <1>2
  <1> HIDE DEF old
  <1> QED
    BY <1>3, <1>4 DEF IdsGrow

\* The ids in the list grow and are below the counter.
LEMMA IdsGrowStep ==
    ASSUME TypeOK, ThreadOwns, ReportHolds, ListFits, IdsGrow, [Next]_vars PROVE IdsGrow'
  <1>1. CASE UNCHANGED <<connections, id, free_conn_id>>
    BY <1>1 DEF IdsGrow
  <1>2. CASE SweepRemove
    <2>1. PICK i \in DOMAIN connections : connections' = RemoveAt(connections, i)
      BY <1>2 DEF SweepRemove
    <2>2. UNCHANGED <<id, free_conn_id>>
      BY <1>2 DEF SweepRemove, threadVars
    <2> QED
      BY <2>1, <2>2, RemovalKeepsOrder
  <1>3. CASE Register
    <2>1. /\ st = "joined" /\ connections' = Append(connections, new_conn)
          /\ id' = [id EXCEPT ![new_conn] = free_conn_id] /\ free_conn_id' = free_conn_id + 1
      BY <1>3 DEF Register, Listed, TakeId
    <2>2. new_conn \in Conns /\ new_conn \notin InList
      BY <2>1 DEF ReportHolds, ListFits, Round, TypeOK
    <2>3. /\ connections \in Seq(Conns) /\ connections' \in Seq(Conns)
          /\ Len(connections') = Len(connections) + 1
          /\ \A j \in 1..Len(connections) : connections'[j] = connections[j]
          /\ connections'[Len(connections) + 1] = new_conn
      BY <2>1, <2>2, AppendFacts DEF TypeOK
    <2>4. /\ DOMAIN connections = 1..Len(connections) /\ Len(connections) \in Nat
          /\ DOMAIN connections' = 1..(Len(connections) + 1)
      BY <2>3
    <2>5. /\ id'[new_conn] = free_conn_id
          /\ \A j \in DOMAIN connections : id'[connections[j]] = id[connections[j]]
      BY <2>1, <2>2, <2>3 DEF InList, TypeOK
    <2>6. free_conn_id \in Nat /\ id \in [Conns -> Nat]
      BY DEF TypeOK
    <2>7. \A j \in DOMAIN connections' : id'[connections'[j]] < free_conn_id'
      <3> TAKE j \in DOMAIN connections'
      <3>1. CASE j = Len(connections) + 1
        BY <2>1, <2>3, <2>5, <2>6, <3>1
      <3>2. CASE j \in DOMAIN connections
        <4>1. id'[connections'[j]] = id[connections[j]] /\ id[connections[j]] < free_conn_id
          BY <2>3, <2>4, <2>5, <3>2 DEF IdsGrow
        <4>2. id[connections[j]] \in Nat
          BY <2>3, <2>6, <3>2
        <4> QED
          BY <2>1, <2>6, <4>1, <4>2
      <3> QED
        BY <2>4, <3>1, <3>2
    <2>8. \A j, k \in DOMAIN connections' :
             j < k => id'[connections'[j]] < id'[connections'[k]]
      <3> SUFFICES ASSUME NEW j \in DOMAIN connections', NEW k \in DOMAIN connections', j < k
                   PROVE  id'[connections'[j]] < id'[connections'[k]]
        OBVIOUS
      <3>1. j \in DOMAIN connections /\ id'[connections'[j]] = id[connections[j]]
        BY <2>3, <2>4, <2>5
      <3>2. CASE k = Len(connections) + 1
        BY <2>3, <2>5, <3>1, <3>2 DEF IdsGrow
      <3>3. CASE k \in DOMAIN connections
        BY <2>3, <2>4, <2>5, <3>1, <3>3 DEF IdsGrow
      <3> QED
        BY <2>4, <3>2, <3>3
    <2> QED
      BY <2>7, <2>8 DEF IdsGrow
  <1>4. CASE DrainEnd
    <2>1. DOMAIN connections' = {}
      BY <1>4 DEF DrainEnd
    <2> QED
      BY <2>1 DEF IdsGrow
  <1>5. CASE StartUnix \/ StartTcp
    <2>1. ~Started /\ connections' = connections
      BY <1>5 DEF StartUnix, StartTcp, Start, listVars
    <2>2. connections' = <<>>
      BY <2>1 DEF ThreadOwns, ListFits
    <2>3. DOMAIN connections' = {}
      BY <2>2
    <2> QED
      BY <2>3 DEF IdsGrow
  <1>6. CASE ThreadPrepare \/ ThreadPoll \/ ThreadStop \/ ThreadLock
    BY <1>1, <1>6 DEF ThreadPrepare, ThreadPoll, ThreadStop, ThreadLock, threadVars, listVars
  <1>7. CASE SweepHandler \/ SweepDelete \/ SweepEnd \/ AcceptFails
    BY <1>1, <1>7 DEF SweepHandler, SweepDelete, SweepEnd, AcceptFails, threadVars, listVars
  <1>8. ASSUME NEW c \in Conns, AcceptOne(c) PROVE IdsGrow'
    BY <1>1, <1>8 DEF AcceptOne
  <1>9. CASE ThreadExit \/ DrainDisconnect \/ DrainDelete
    BY <1>1, <1>9 DEF ThreadExit, DrainDisconnect, DrainDelete, threadVars, listVars
  <1>10. CASE ThreadSignal \/ ThreadReset
    BY <1>1, <1>10 DEF ThreadSignal, ThreadReset, threadVars, listVars
  <1>11. CASE Limited
    BY <1>1, <1>11 DEF Limited, SetMaxConnections, threadVars, listVars
  <1>12. CASE ConnMoves
    BY <1>1, <1>12 DEF ConnMoves, coreVars, threadVars
  <1> QED
    BY <1>2, <1>3, <1>4, <1>5, <1>6, <1>7, <1>8, <1>9, <1>10, <1>11, <1>12, OthersFrame
       DEF ThreadStep

\* A round that may still admit a client has not admitted one above the limit
\* since the limit was set, or there is room.
LEMMA LateOnceStep ==
    ASSUME TypeOK, ReportHolds, LateOnce, [Next]_vars PROVE LateOnce'
  <1> USE DEF LateOnce, MayAdmit, Sweeping
  <1>0. /\ late \in Nat /\ max_connections \in Int /\ Len(connections) \in Nat
        /\ accept_new \in BOOLEAN /\ revents.accept \in BOOLEAN
    BY DEF TypeOK
  <1>1. CASE ThreadPrepare
    <2>1. /\ st' = "poll" /\ UNCHANGED <<late, max_connections, connections>>
          /\ accept_new' = AcceptNew
      BY <1>1 DEF ThreadPrepare, listVars, settingVars
    <2>2. accept_new' => (max_connections >= 0 => Len(connections) < max_connections)
      BY <2>1, Zenon DEF AcceptNew
    <2> QED
      BY <1>0, <2>1, <2>2
  <1>2. CASE ThreadPoll
    <2>1. /\ st = "poll" /\ st' = "lock" /\ UNCHANGED <<late, max_connections, connections>>
          /\ revents'.accept => accept_new
      BY <1>2 DEF ThreadPoll, listVars, settingVars
    <2> QED
      BY <1>0, <2>1
  <1>3. CASE ThreadStop \/ ThreadLock
    BY <1>0, <1>3 DEF ThreadStop, ThreadLock, threadVars, listVars, settingVars
  <1>4. CASE SweepHandler \/ SweepDelete
    BY <1>0, <1>4 DEF SweepHandler, SweepDelete, threadVars, listVars, settingVars
  <1>5. CASE SweepRemove
    <2>1. PICK i \in DOMAIN connections : connections' = RemoveAt(connections, i)
      BY <1>5 DEF SweepRemove
    <2>2. Len(connections') = Len(connections) - 1
      BY <2>1, RemoveAtFacts DEF TypeOK
    <2>3. st' = st /\ UNCHANGED <<late, max_connections, revents, accept_new>>
      BY <1>5 DEF SweepRemove, threadVars, settingVars
    <2> QED
      BY <1>0, <2>2, <2>3
  <1>6. CASE SweepEnd \/ AcceptFails
    BY <1>0, <1>6 DEF SweepEnd, AcceptFails, Unlock, threadVars, listVars, settingVars
  <1>7. ASSUME NEW c \in Conns, AcceptOne(c) PROVE LateOnce'
    BY <1>0, <1>7 DEF AcceptOne, settingVars
  <1>8. CASE Register
    <2>1. /\ st = "joined" /\ st' = "prepare"
          /\ late' = IF max_connections >= 0 /\ Len(connections) >= max_connections
                     THEN late + 1 ELSE late
      BY <1>8 DEF Register, Unlock
    <2>2. revents.accept
      BY <2>1 DEF ReportHolds
    <2> QED
      BY <1>0, <2>1, <2>2
  <1>9. CASE ThreadExit \/ DrainDisconnect \/ DrainDelete
    BY <1>0, <1>9 DEF ThreadExit, DrainDisconnect, DrainDelete, settingVars
  <1>10. CASE DrainEnd \/ ThreadSignal \/ ThreadReset
    BY <1>0, <1>10 DEF DrainEnd, ThreadSignal, ThreadReset, Unlock, settingVars
  <1>11. CASE StartUnix \/ StartTcp
    BY <1>0, <1>11 DEF StartUnix, StartTcp, Start, settingVars
  <1>12. CASE Limited
    BY <1>12 DEF Limited, SetMaxConnections
  <1>13. CASE ConnMoves
    BY <1>0, <1>13 DEF ConnMoves, coreVars, threadVars
  <1> QED
    BY <1>1, <1>2, <1>3, <1>4, <1>5, <1>6, <1>7, <1>8, <1>9, <1>10, <1>11, <1>12, <1>13, OthersFrame
       DEF ThreadStep

\* The invariant holds before the first start.
LEMMA ServerInvInit == Init => ServerInv
  <1> SUFFICES ASSUME Init PROVE ServerInv
    OBVIOUS
  <1>1. ThreadOwns
    BY DEF Init, ThreadOwns, Sweeping, Draining, Ended, Idle, Started
  <1>2. ReportHolds
    BY DEF Init, ReportHolds, Sweeping
  <1>3. ListFits
    BY DEF Init, ListFits, AliveConns, Alive, Round, Sweeping, Draining, Ended, Idle
  <1>4. IdsGrow
    BY DEF Init, IdsGrow
  <1>5. LateOnce
    BY DEF Init, LateOnce, MayAdmit, Sweeping
  <1> QED
    BY <1>1, <1>2, <1>3, <1>4, <1>5 DEF ServerInv

-----------------------------------------------------------------------------
(* The theorems *)

\* The inductive invariant of the server, for any number of clients, holders,
\* callers, limits and starts.
THEOREM InvariantHolds == Spec => [](TypeOK /\ ServerInv)
  <1>1. Init => TypeOK /\ ServerInv
    BY TypeInit, ServerInvInit
  <1>2. TypeOK /\ ServerInv /\ [Next]_vars => TypeOK' /\ ServerInv'
    BY TypeStep, ThreadOwnsStep, ReportHoldsStep, ListFitsStep, IdsGrowStep, LateOnceStep
       DEF ServerInv
  <1> QED
    BY <1>1, <1>2, PTL DEF Spec

\* Every variable of the server keeps its type.
THEOREM ServerTypes == Spec => []TypeOK
  BY InvariantHolds, PTL

\* Outside a sweep and the shutdown the list holds exactly the Connection
\* objects that exist, but the one AcceptOne is still working on, each once.
THEOREM ListExact == Spec => []ListIsExact
  <1>1. TypeOK /\ ServerInv => ListIsExact
    <2> SUFFICES ASSUME TypeOK, ServerInv, st \in Round
                 PROVE  /\ Range(connections) = {c \in Conns : conn[c] \in Alive} \ {new_conn}
                        /\ \A i, j \in DOMAIN connections :
                             i < j => id[connections[i]] < id[connections[j]]
      BY DEF ListIsExact, Round
    <2>1. Range(connections) = InList
      BY DEF Range, InList
    <2>2. InList = {c \in Conns : conn[c] \in Alive} \ {new_conn}
      BY DEF ServerInv, ListFits, AliveConns
    <2> QED
      BY <2>1, <2>2 DEF ServerInv, IdsGrow
  <1> QED
    BY <1>1, InvariantHolds, PTL

\* Once the thread signals the stop no Connection object is left behind.
THEOREM NothingLeft == Spec => []NothingLeftBehind
  <1>1. ServerInv => NothingLeftBehind
    BY DEF ServerInv, ListFits, NothingLeftBehind, AliveConns, Ended, Idle
  <1> QED
    BY <1>1, InvariantHolds, PTL

\* At most one client is admitted above a limit that was set between the test
\* of the limit and poll().
THEOREM LateAdmission == Spec => []OneLateAdmission
  <1>1. ServerInv => OneLateAdmission
    BY DEF ServerInv, LateOnce, OneLateAdmission
  <1> QED
    BY <1>1, InvariantHolds, PTL

-----------------------------------------------------------------------------
(* What the server sees of a connection is what Lifecycle allows *)

Holding(c) == {h \in Holders : held[h] = c}

\* The references of a connection can be counted, however many holders there are.
HeldFinite == \A c \in Conns : IsFiniteSet(Holding(c))

\* GetConnection adds one reference to one connection.
LEMMA AcquireCounts ==
    ASSUME TypeOK, HeldFinite, NEW h \in Holders, NEW c \in Conns, GetConnection(h, c)
    PROVE  HeldFinite' /\ \A d \in Conns : Refs(d)' = IF d = c THEN Refs(d) + 1 ELSE Refs(d)
  <1>1. held' = [held EXCEPT ![h] = c] /\ held[h] = Nobody /\ held \in [Holders -> Conns \cup {Nobody}]
    BY DEF GetConnection, TypeOK
  <1>2. Holding(c)' = Holding(c) \cup {h} /\ h \notin Holding(c)
    BY <1>1, NobodyAssumption DEF Holding
  <1>3. \A d \in Conns : d # c => Holding(d)' = Holding(d)
    BY <1>1, NobodyAssumption DEF Holding
  <1>4. IsFiniteSet(Holding(c))
    BY DEF HeldFinite
  <1>5. /\ IsFiniteSet(Holding(c)')
        /\ Cardinality(Holding(c)') = Cardinality(Holding(c)) + 1
    BY <1>2, <1>4, FS_AddElement
  <1>6. HeldFinite'
    BY <1>3, <1>5 DEF HeldFinite
  <1>7. \A d \in Conns : Refs(d)' = IF d = c THEN Refs(d) + 1 ELSE Refs(d)
    BY <1>3, <1>5 DEF Refs, Holding
  <1> QED
    BY <1>6, <1>7

\* ~SafeConnection takes away the reference it had.
LEMMA ReleaseCounts ==
    ASSUME TypeOK, HeldFinite, NEW h \in Holders, Release(h)
    PROVE  /\ HeldFinite' /\ held[h] \in Conns /\ Refs(held[h]) # 0
           /\ \A d \in Conns : Refs(d)' = IF d = held[h] THEN Refs(d) - 1 ELSE Refs(d)
  <1> DEFINE c == held[h]
  <1>1. /\ held' = [held EXCEPT ![h] = Nobody] /\ held \in [Holders -> Conns \cup {Nobody}]
        /\ c \in Conns
    BY DEF Release, TypeOK
  <1>2. \A d \in Conns : d # c => Holding(d)' = Holding(d)
    BY <1>1, NobodyAssumption DEF Holding
  <1>3. ASSUME NEW d \in Conns, d = c
        PROVE  /\ IsFiniteSet(Holding(d)') /\ Cardinality(Holding(d)') = Cardinality(Holding(d)) - 1
               /\ Cardinality(Holding(d)) # 0
    <2>1. Holding(d)' = Holding(d) \ {h} /\ h \in Holding(d)
      BY <1>1, <1>3, NobodyAssumption DEF Holding
    <2>2. IsFiniteSet(Holding(d))
      BY DEF HeldFinite
    <2> QED
      BY <2>1, <2>2, FS_RemoveElement, FS_EmptySet
  <1>4. HeldFinite'
    BY <1>2, <1>3 DEF HeldFinite
  <1>5. \A d \in Conns : Refs(d)' = IF d = held[h] THEN Refs(d) - 1 ELSE Refs(d)
    BY <1>2, <1>3 DEF Refs, Holding
  <1>6. Refs(held[h]) # 0
    BY <1>1, <1>3 DEF Refs, Holding
  <1> QED
    BY <1>1, <1>4, <1>5, <1>6

\* The thread leaves the SafeConnections alone.
LEMMA ThreadHoldsNothing == ThreadStep => held' = held
  BY DEF ThreadStep, ThreadPrepare, ThreadPoll, ThreadStop, ThreadLock, SweepHandler, SweepDelete,
     SweepRemove, SweepEnd, AcceptOne, AcceptFails, Register, ThreadExit, DrainDisconnect,
     DrainDelete, DrainEnd, ThreadSignal, ThreadReset

\* The other methods leave them and the connections alone.
LEMMA MethodsFrame ==
    ASSUME Methods
    PROVE  \/ held' = held /\ conn' = conn
           \/ \E h \in Holders : (\E c \in Conns : GetConnection(h, c)) \/ Release(h)
  <1> USE DEF listVars
  <1>1. StartUnix \/ StartTcp \/ DestroyBegin \/ DestroyEnd => held' = held /\ conn' = conn
    BY DEF StartUnix, StartTcp, Start, DestroyBegin, DestroyEnd
  <1>2. /\ \A which \in AllHandlers : SetHandler(which) => held' = held /\ conn' = conn
        /\ \A n \in Limits : SetMaxConnections(n) => held' = held /\ conn' = conn
    BY DEF SetHandler, SetMaxConnections
  <1>3. \A t \in Callers :
           /\ \A call \in {"stop", "stop_wait"} : StopCall(t, call) => held' = held /\ conn' = conn
           /\ WaitCall(t) \/ CallStep(t) => held' = held /\ conn' = conn
    BY DEF StopCall, WaitCall, CallStep, StopWrite, WaitCheck, WaitReturn
  <1> QED
    BY <1>1, <1>2, <1>3 DEF Methods

\* So nothing but GetConnection and ~SafeConnection changes a reference.
LEMMA HeldFrame ==
    ASSUME [Next]_vars
    PROVE  \/ held' = held
           \/ \E h \in Holders : (\E c \in Conns : GetConnection(h, c)) \/ Release(h)
  <1>1. Clients => held' = held
    BY DEF Clients, ClientConnects, ConnTeardown, ConnStopped
  <1>2. UNCHANGED vars => held' = held
    BY DEF vars
  <1> QED
    BY <1>1, <1>2, ThreadHoldsNothing, MethodsFrame DEF Next, Halted

\* The references stay finite.
LEMMA HeldFiniteStep == ASSUME TypeOK, HeldFinite, [Next]_vars PROVE HeldFinite'
  <1>1. CASE held' = held
    BY <1>1 DEF HeldFinite, Holding
  <1> QED
    BY <1>1, HeldFrame, AcquireCounts, ReleaseCounts

\* No step of the thread takes a connection that is in use away: the sweep and
\* the shutdown delete stopped connections only.
LEMMA ThreadKeepsPhase ==
    ASSUME TypeOK, ReportHolds, ThreadStep, NEW c \in Conns
    PROVE  Phase(c)' = Phase(c) \/ (Phase(c) = "off" /\ Phase(c)' = "open")
  <1>0. conn \in [Conns -> ConnStates] /\ connections \in Seq(Conns)
    BY DEF TypeOK
  <1>1. CASE conn' = conn
    BY <1>1 DEF Phase
  <1>2. CASE SweepDelete
    <2>1. PICK i \in DOMAIN connections :
               i \in Unswept /\ conn' = [conn EXCEPT ![connections[i]] = "freed"]
      BY <1>2 DEF SweepDelete, First
    <2>2. conn[connections[i]] = "stopped"
      BY <1>2, <2>1 DEF SweepDelete, Unswept, ReportHolds, Sweeping
    <2> QED
      BY <1>0, <2>1, <2>2 DEF Phase
  <1>3. ASSUME NEW d \in Conns, AcceptOne(d)
        PROVE  Phase(c)' = Phase(c) \/ (Phase(c) = "off" /\ Phase(c)' = "open")
    <2>1. conn[d] = "waiting" /\ conn' = [conn EXCEPT ![d] = "open"]
      BY <1>3 DEF AcceptOne, Waiting
    <2> QED
      BY <1>0, <2>1 DEF Phase
  <1>4. CASE DrainDisconnect
    <2>1. PICK i \in DOMAIN connections :
               conn' = [conn EXCEPT ![connections[i]] = Forced(connections[i])]
      BY <1>4 DEF DrainDisconnect
    <2> QED
      BY <1>0, <2>1 DEF Phase, Forced
  <1>5. CASE DrainDelete
    <2>1. PICK i \in DOMAIN connections :
               conn[connections[i]] = "stopped" /\ conn' = [conn EXCEPT ![connections[i]] = "freed"]
      BY <1>5 DEF DrainDelete
    <2> QED
      BY <1>0, <2>1 DEF Phase
  <1>6. CASE DrainEnd
    BY <1>0, <1>6 DEF DrainEnd, Waiting, Phase
  <1>7. CASE ThreadPrepare \/ ThreadPoll \/ ThreadStop \/ ThreadLock
    BY <1>1, <1>7 DEF ThreadPrepare, ThreadPoll, ThreadStop, ThreadLock, listVars
  <1>8. CASE SweepHandler \/ SweepRemove \/ SweepEnd \/ AcceptFails \/ Register
    BY <1>1, <1>8 DEF SweepHandler, SweepRemove, SweepEnd, AcceptFails, Register, listVars
  <1>9. CASE ThreadExit \/ ThreadSignal \/ ThreadReset
    BY <1>1, <1>9 DEF ThreadExit, ThreadSignal, ThreadReset, listVars
  <1> QED
    BY <1>2, <1>3, <1>4, <1>5, <1>6, <1>7, <1>8, <1>9 DEF ThreadStep

\* Every step is, for every connection, a step of Lifecycle or invisible to it.
LEMMA LifeStep ==
    ASSUME TypeOK, ReportHolds, HeldFinite, [Next]_vars, NEW c \in Conns
    PROVE  [Life(c)!Next]_(Life(c)!vars)
  <1> USE DEF Life!Next, Life!vars
  <1>0. conn \in [Conns -> ConnStates]
    BY DEF TypeOK
  <1>1. ASSUME NEW h \in Holders, NEW d \in Conns, GetConnection(h, d)
        PROVE  [Life(c)!Next]_(Life(c)!vars)
    <2>1. Phase(c)' = Phase(c)
      BY <1>1 DEF GetConnection, listVars, Phase
    <2>2. Refs(c)' = IF c = d THEN Refs(c) + 1 ELSE Refs(c)
      BY <1>1, AcquireCounts
    <2> QED
      BY <2>1, <2>2 DEF Life!Acquire
  <1>2. ASSUME NEW h \in Holders, Release(h) PROVE [Life(c)!Next]_(Life(c)!vars)
    <2>1. /\ held[h] \in Conns /\ Refs(held[h]) # 0
          /\ Refs(c)' = IF c = held[h] THEN Refs(c) - 1 ELSE Refs(c)
      BY <1>2, ReleaseCounts
    <2>2. conn' = [conn EXCEPT ![held[h]] = IF @ = "await" THEN "stopping" ELSE @]
      BY <1>2 DEF Release
    <2>3. CASE c = held[h]
      <3>1. Phase(c)' = IF Phase(c) = "await" THEN "stopping" ELSE Phase(c)
        BY <1>0, <2>1, <2>2, <2>3 DEF Phase, ConnStates
      <3> QED
        BY <2>1, <2>3, <3>1 DEF Life!Release
    <2>4. CASE c # held[h]
      <3>1. Phase(c)' = Phase(c)
        BY <1>0, <2>1, <2>2, <2>4 DEF Phase
      <3> QED
        BY <2>1, <2>4, <3>1
    <2> QED
      BY <2>3, <2>4
  <1>3. CASE ThreadStep
    BY <1>3, ThreadHoldsNothing, ThreadKeepsPhase DEF Refs, Life!Open
  <1>4. CASE held' = held /\ conn' = conn
    <2>1. Phase(c)' = Phase(c) /\ Refs(c)' = Refs(c)
      BY <1>4 DEF Phase, Refs
    <2> QED
      BY <2>1
  <1>5. CASE UNCHANGED vars
    BY <1>4, <1>5 DEF vars, listVars
  <1>6. CASE Methods
    BY <1>1, <1>2, <1>4, <1>6, MethodsFrame
  <1>7. CASE Clients
    <2>1. Refs(c)' = Refs(c)
      BY <1>7 DEF Clients, ClientConnects, ConnTeardown, ConnStopped, Refs
    <2>2. PICK d \in Conns : ClientConnects(d) \/ ConnTeardown(d) \/ ConnStopped(d)
      BY <1>7 DEF Clients
    <2>3. CASE ClientConnects(d)
      <3>1. Phase(c)' = Phase(c)
        BY <1>0, <2>3 DEF ClientConnects, Phase
      <3> QED
        BY <2>1, <3>1
    <2>4. CASE ConnTeardown(d)
      <3>1. conn[d] \in {"open", "told"}
        BY <2>4 DEF ConnTeardown
      <3>2. conn' = [conn EXCEPT ![d] = IF Refs(d) # 0 THEN "await" ELSE "stopping"]
        BY <2>4 DEF ConnTeardown
      <3>3. CASE c = d
        <4>1. Phase(c) = "open" /\ Phase(c)' = IF Refs(c) # 0 THEN "await" ELSE "stopping"
          BY <1>0, <3>1, <3>2, <3>3 DEF Phase
        <4> QED
          BY <2>1, <4>1 DEF Life!Teardown
      <3>4. CASE c # d
        <4>1. Phase(c)' = Phase(c)
          BY <1>0, <3>2, <3>4 DEF Phase
        <4> QED
          BY <2>1, <4>1
      <3> QED
        BY <3>3, <3>4
    <2>5. CASE ConnStopped(d)
      <3>1. Phase(c)' = Phase(c) \/ (Phase(c) = "stopping" /\ Phase(c)' = "stopped")
        BY <1>0, <2>5 DEF ConnStopped, Phase
      <3> QED
        BY <2>1, <3>1 DEF Life!Finish
    <2> QED
      BY <2>2, <2>3, <2>4, <2>5
  <1> QED
    BY <1>3, <1>5, <1>6, <1>7 DEF Next, Halted

\* Seen from the server every connection keeps to module Lifecycle, which
\* module Connection implements: the sweep and the shutdown delete stopped
\* connections only, and a connection whose teardown met SafeConnections stops
\* only after a release.
THEOREM ServerKeepsLifecycle == Spec => ConnectionsKeepLifecycle
  <1>1. Init => HeldFinite
    <2>1. Init => \A c \in Conns : Holding(c) = {}
      BY NobodyAssumption DEF Init, Holding
    <2> QED
      BY <2>1, FS_EmptySet DEF HeldFinite
  <1>2. Spec => []HeldFinite
    BY <1>1, HeldFiniteStep, ServerTypes, PTL DEF Spec
  <1>3. TypeOK /\ ServerInv /\ HeldFinite /\ [Next]_vars
          => [\A c \in Conns : [Life(c)!Next]_(Life(c)!vars)]_vars
    BY LifeStep DEF ServerInv
  <1> QED
    BY <1>2, <1>3, InvariantHolds, PTL DEF Spec, ConnectionsKeepLifecycle

-----------------------------------------------------------------------------
(* WaitForStop in the first run of a server *)

\* The stopped event is set by the thread that has closed its connections, and
\* no other run begins.
FirstRun ==
    /\ st # "none" => starts # 0
    /\ stopped_event = "set" => st \in {"reset", "done"}

LEMMA FirstRunStep ==
    ASSUME MaxStarts = 1, TypeOK, FirstRun, [Next]_vars PROVE FirstRun'
  <1> USE DEF FirstRun, runVars
  <1>1. CASE ThreadPrepare \/ ThreadPoll \/ ThreadStop \/ ThreadLock
    BY <1>1 DEF ThreadPrepare, ThreadPoll, ThreadStop, ThreadLock
  <1>2. CASE SweepHandler \/ SweepDelete \/ SweepRemove \/ SweepEnd
    BY <1>2 DEF SweepHandler, SweepDelete, SweepRemove, SweepEnd, Unlock
  <1>3. ASSUME NEW c \in Conns, AcceptOne(c) PROVE FirstRun'
    BY <1>3 DEF AcceptOne
  <1>4. CASE AcceptFails \/ Register
    BY <1>4 DEF AcceptFails, Register, Unlock
  <1>5. CASE ThreadExit \/ DrainDisconnect \/ DrainDelete \/ DrainEnd
    BY <1>5 DEF ThreadExit, DrainDisconnect, DrainDelete, DrainEnd
  <1>6. CASE ThreadSignal \/ ThreadReset
    BY <1>6 DEF ThreadSignal, ThreadReset, Unlock
  <1>7. CASE StartUnix \/ StartTcp
    <2>1. starts < 1 /\ starts' = starts + 1 /\ starts \in Nat /\ stopped_event' = stopped_event
      BY <1>7 DEF StartUnix, StartTcp, Start, TypeOK
    <2>2. st = "none" /\ stopped_event # "set" /\ starts' # 0
      BY <2>1
    <2> QED
      BY <2>1, <2>2
  <1>8. ASSUME NEW which \in AllHandlers, SetHandler(which) PROVE FirstRun'
    BY <1>8 DEF SetHandler
  <1>9. ASSUME NEW n \in Limits, SetMaxConnections(n) PROVE FirstRun'
    BY <1>9 DEF SetMaxConnections
  <1>10. ASSUME NEW h \in Holders, (\E c \in Conns : GetConnection(h, c)) \/ Release(h)
         PROVE  FirstRun'
    BY <1>10 DEF GetConnection, Release
  <1>11. ASSUME NEW t \in Callers, NEW call \in {"stop", "stop_wait"}, StopCall(t, call)
         PROVE  FirstRun'
    BY <1>11 DEF StopCall
  <1>12. ASSUME NEW t \in Callers, WaitCall(t) \/ CallStep(t) PROVE FirstRun'
    BY <1>12 DEF WaitCall, CallStep, StopWrite, WaitCheck, WaitReturn
  <1>13. CASE DestroyBegin \/ DestroyEnd
    BY <1>13 DEF DestroyBegin, DestroyEnd
  <1>14. CASE Clients
    BY <1>14 DEF Clients, ClientConnects, ConnTeardown, ConnStopped
  <1>15. CASE UNCHANGED vars
    BY <1>15 DEF vars
  <1> QED
    BY <1>1, <1>2, <1>3, <1>4, <1>5, <1>6, <1>7, <1>8, <1>9, <1>10, <1>11, <1>12, <1>13, <1>14,
       <1>15 DEF Next, ThreadStep, Methods, Halted

\* A caller leaves WaitForStop through the stopped event and no other way.
LEMMA WaitEnds ==
    ASSUME TypeOK, [Next]_vars, NEW t \in Callers, pc[t] = "wait", pc'[t] = "idle"
    PROVE  stopped_event = "set"
  <1> USE DEF callVars
  <1>0. pc \in [Callers -> {"idle", "stop", "stop_wait", "check", "wait"}] /\ pc' # pc
    BY DEF TypeOK
  <1>1. ThreadStep => pc' = pc
    BY DEF ThreadStep, ThreadPrepare, ThreadPoll, ThreadStop, ThreadLock, SweepHandler, SweepDelete,
       SweepRemove, SweepEnd, AcceptOne, AcceptFails, Register, ThreadExit, DrainDisconnect,
       DrainDelete, DrainEnd, ThreadSignal, ThreadReset
  <1>2. Clients \/ UNCHANGED vars => pc' = pc
    BY DEF Clients, ClientConnects, ConnTeardown, ConnStopped, vars
  <1>3. CASE Methods
    <2>1. StartUnix \/ StartTcp \/ DestroyEnd => pc' = pc
      BY DEF StartUnix, StartTcp, Start, DestroyEnd
    <2>2. /\ \A which \in AllHandlers : SetHandler(which) => pc' = pc
          /\ \A n \in Limits : SetMaxConnections(n) => pc' = pc
          /\ \A h \in Holders :
               (\E c \in Conns : GetConnection(h, c)) \/ Release(h) => pc' = pc
      BY DEF SetHandler, SetMaxConnections, GetConnection, Release
    <2>3. ~DestroyBegin
      BY DEF DestroyBegin
    <2>4. ASSUME NEW u \in Callers,
                 (\E call \in {"stop", "stop_wait"} : StopCall(u, call)) \/ WaitCall(u)
                   \/ StopWrite(u) \/ WaitCheck(u)
          PROVE  FALSE
      BY <1>0, <2>4 DEF StopCall, WaitCall, StopWrite, WaitCheck
    <2>5. ASSUME NEW u \in Callers, WaitReturn(u) PROVE stopped_event = "set"
      BY <2>5 DEF WaitReturn
    <2> QED
      BY <1>0, <1>3, <2>1, <2>2, <2>3, <2>4, <2>5 DEF Methods, CallStep
  <1> QED
    BY <1>0, <1>1, <1>2, <1>3 DEF Next, Halted

\* WaitForStop(-1) of a server that is started once returns only when the
\* thread has closed every connection.  The stopped event is never reset, so
\* nothing of the kind holds for the second run.
THEOREM WaitIsHonest == MaxStarts = 1 => (Spec => WaitMeansStopped)
  <1> SUFFICES ASSUME MaxStarts = 1 PROVE Spec => WaitMeansStopped
    OBVIOUS
  <1>1. Init => FirstRun
    BY DEF Init, FirstRun
  <1>2. TypeOK /\ FirstRun /\ [Next]_vars => FirstRun'
    BY FirstRunStep
  <1>3. Spec => []FirstRun
    BY <1>1, <1>2, ServerTypes, PTL DEF Spec
  <1>4. TypeOK /\ FirstRun /\ [Next]_vars
          => [\A t \in Callers : pc[t] = "wait" /\ pc'[t] = "idle" => st \in {"reset", "done"}]_vars
    BY WaitEnds DEF FirstRun
  <1> QED
    BY <1>3, <1>4, ServerTypes, PTL DEF Spec, WaitMeansStopped
=============================================================================
