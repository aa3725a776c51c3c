---------------------------- MODULE ClientProofs ----------------------------
(***************************************************************************)
(* Proofs, for any number of Connect calls, of the safety properties of    *)
(* module Client.  They rest on AttemptInv: only the thread of the latest  *)
(* call works, and only while that call waits; a thread that has written   *)
(* the event still holds mutex_tsfd until it is gone.                      *)
(***************************************************************************)
EXTENDS Client, TLAPS

Connecting == {"start", "connect", "unset"}
Working == Connecting \cup {"notify"}
Locked == {"connect", "unset", "notify", "unlock"}

AttemptInv ==
    /\ \A i \in Threads : th[i] = "none" <=> i > calls
    /\ \A i \in Threads : th[i] \in Working => i = calls /\ pc = "read" /\ connect_event = "clear"
    /\ \A i \in Threads : th[i] \in Connecting => temp_socket_fd = i
    /\ temp_socket_fd # NoSocket => th[temp_socket_fd] \in Connecting
    /\ \A i \in Threads : socket[i] = "open" => th[i] \in {"start", "connect"}
    /\ \A i \in Threads : th[i] \in Locked => mutex_tsfd = i
    /\ pc = "destroyed" => \A i \in Threads : th[i] \in {"none", "done"}

\* Every step keeps the types of all variables.
LEMMA TypeStep == ASSUME TypeOK, [Next]_vars PROVE TypeOK'
<1> USE MaxConnectsAssumption DEF TypeOK, Threads, NoSocket
<1>1. ASSUME NEW f \in {"tcp", "unix"}, Connect(f) PROVE TypeOK'
  <2>1. connected' \in BOOLEAN
    BY <1>1 DEF Connect
  <2>2. calls + 1 \in Threads
    BY <1>1 DEF Connect
  <2>3. /\ mutex_tsfd' \in Threads \cup {0} /\ temp_socket_fd' \in Threads
        /\ socket' \in [Threads -> {"none", "open", "given", "closed"}]
        /\ func' \in [Threads -> {"none", "tcp", "unix"}]
        /\ th' \in [Threads -> {"none", "start", "connect", "unset", "notify", "unlock", "done"}]
    BY <1>1, <2>2 DEF Connect
  <2>4. calls' \in 0..MaxConnects /\ pc' = "read" /\ connect_event' = "clear"
    BY <1>1 DEF Connect
  <2>5. QED
    BY <2>1, <2>3, <2>4
<1>2. CASE ConnectReturn
  BY <1>2 DEF ConnectReturn, EventRead
<1>3. CASE Destroy
  BY <1>3 DEF Destroy
<1>4. ASSUME NEW i \in Threads, ThreadStep(i) PROVE TypeOK'
  BY <1>4 DEF ThreadStep, ThreadLock, ThreadUnset, ThreadNotify, ThreadUnlock, ConnectNotice
<1>5. ASSUME NEW i \in Threads, Answer(i) PROVE TypeOK'
  BY <1>5 DEF Answer, BadAddress, ConnectFails, ConnectSucceeds, GiveUp
<1>6. CASE ConnectionEnds
  BY <1>6 DEF ConnectionEnds
<1>7. CASE UNCHANGED vars
  BY <1>7 DEF vars
<1>8. QED
  BY <1>1, <1>2, <1>3, <1>4, <1>5, <1>6, <1>7 DEF Next, ConnectTcp, ConnectUnix, Gone

\* Every step keeps AttemptInv.
LEMMA AttemptStep == ASSUME TypeOK, AttemptInv, [Next]_vars PROVE AttemptInv'
<1> USE MaxConnectsAssumption DEF TypeOK, AttemptInv, Threads, NoSocket, Connecting, Working, Locked
<1>1. ASSUME NEW f \in {"tcp", "unix"}, Connect(f) PROVE AttemptInv'
  BY <1>1 DEF Connect, IsConnecting
<1>2. CASE ConnectReturn
  BY <1>2 DEF ConnectReturn, EventRead
<1>3. CASE Destroy
  BY <1>3 DEF Destroy, DestroyMayGoOn
<1>4. ASSUME NEW i \in Threads, ThreadLock(i) PROVE AttemptInv'
  BY <1>4 DEF ThreadLock
<1>5. ASSUME NEW i \in Threads, ThreadUnset(i) PROVE AttemptInv'
  BY <1>5 DEF ThreadUnset
<1>6. ASSUME NEW i \in Threads, ThreadNotify(i) PROVE AttemptInv'
  BY <1>6 DEF ThreadNotify, ConnectNotice
<1>7. ASSUME NEW i \in Threads, ThreadUnlock(i) PROVE AttemptInv'
  BY <1>7 DEF ThreadUnlock
<1>8. ASSUME NEW i \in Threads, BadAddress(i) \/ ConnectFails(i) PROVE AttemptInv'
  <2>1. /\ th[i] = "connect" /\ temp_socket_fd = i /\ i = calls
        /\ \A j \in Threads : j # i => th[j] \notin Connecting
    BY <1>8 DEF BadAddress, ConnectFails
  <2>2. /\ socket' = [socket EXCEPT ![i] = "closed"] /\ temp_socket_fd' = NoSocket
        /\ th' = [th EXCEPT ![i] = "notify"]
        /\ UNCHANGED <<mutex_tsfd, connect_event, pc, calls>>
    BY <1>8, <2>1 DEF BadAddress, ConnectFails, GiveUp
  <2>3. QED
    BY <2>1, <2>2
<1>9. ASSUME NEW i \in Threads, ConnectSucceeds(i) PROVE AttemptInv'
  BY <1>9 DEF ConnectSucceeds
<1>10. CASE ConnectionEnds
  BY <1>10 DEF ConnectionEnds
<1>11. CASE UNCHANGED vars
  BY <1>11 DEF vars
<1>12. QED
  BY <1>1, <1>2, <1>3, <1>4, <1>5, <1>6, <1>7, <1>8, <1>9, <1>10, <1>11
  DEF Next, ConnectTcp, ConnectUnix, ThreadStep, Answer, Gone

\* Both invariants hold in every reachable state.
THEOREM AttemptInvariant == Spec => [](TypeOK /\ AttemptInv)
<1>1. Init => TypeOK /\ AttemptInv
  <2> SUFFICES ASSUME Init PROVE TypeOK /\ AttemptInv
    OBVIOUS
  <2>1. connected \in BOOLEAN
    BY DEF Init
  <2>2. TypeOK
    BY <2>1, MaxConnectsAssumption DEF Init, TypeOK, Threads, NoSocket
  <2>3. AttemptInv
    BY MaxConnectsAssumption
    DEF Init, AttemptInv, Threads, NoSocket, Connecting, Working, Locked
  <2>4. QED
    BY <2>2, <2>3
<1>2. TypeOK /\ AttemptInv /\ [Next]_vars => TypeOK' /\ AttemptInv'
  BY TypeStep, AttemptStep
<1>3. QED
  BY <1>1, <1>2, PTL DEF Spec

\* ~Client never returns while a connecting thread still uses the object, for
\* any number of calls of Connect before it.
THEOREM DestructionIsSafe == Spec => []DestroyedIsUnused
<1>1. AttemptInv => DestroyedIsUnused
  BY DEF AttemptInv, DestroyedIsUnused
<1>2. QED
  BY <1>1, AttemptInvariant, PTL

\* A Connect call that has returned, with success or without, leaves neither an
\* attempt nor a socket behind.
THEOREM ReturnIsClean == Spec => []ReturnedIsOver
<1>1. TypeOK /\ AttemptInv => ReturnedIsOver
  BY DEF TypeOK, AttemptInv, ReturnedIsOver, IsConnecting, NoSocket, Connecting, Working
<1>2. QED
  BY <1>1, AttemptInvariant, PTL

\* A connecting thread that is late never touches the socket or the event of a
\* call made after its own.
THEOREM AttemptsStayApart == Spec => []OwnAttempt
<1>1. TypeOK /\ AttemptInv => OwnAttempt
  BY DEF TypeOK, AttemptInv, OwnAttempt, Connecting, Working
<1>2. QED
  BY <1>1, AttemptInvariant, PTL
=============================================================================
