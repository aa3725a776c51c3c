-------------------------- MODULE ConnectionProofs --------------------------
(***************************************************************************)
(* Proofs about one Connection object, for any number of user threads and  *)
(* any value of the bounds.                                                *)
(***************************************************************************)
EXTENDS Connection, FiniteSetTheorems, TLAPS

USE DEF connVars, sendVars, idVars, recvVars, transferVars, refVars, eventVars, timerVars,
        stateVars, fdVars, objectVars, pollVars, bgVars, netVars, threadVars, outsideVars

\* A sequence that is not empty has a head and a tail of its own type.
LEMMA HeadTail == ASSUME NEW S, NEW s \in Seq(S), s # <<>>
                  PROVE  Head(s) \in S /\ Tail(s) \in Seq(S)
  OBVIOUS

\* What Send() works on is well typed.
LEMMA SendingType == TypeOK => /\ SendingRest \in Seq(Nat) /\ SendingId \in Nat
                               /\ SendingLeft \in 0..Blocks
  BY HeadTail, BlocksAssumption DEF TypeOK, SendingRest, SendingId, SendingLeft, Popped

\* Arming a timer, advancing to the next part of a pass, and pushing a request
\* keep the types.
LEMMA TimerType == ASSUME NEW timer \in Timers, NEW interval
                   PROVE  SetTimerFdTimeout(timer, interval) \in Timers
  BY DEF Timers, SetTimerFdTimeout

\* Where a pass of the loop goes on is a place of the polling thread.
LEMMA AfterType == AfterSend \in BgStates /\ AfterReceive \in BgStates /\ AfterLock \in BgStates
  BY DEF AfterSend, AfterReceive, AfterLock, BgStates, InPass

\* What Receive does after a complete request keeps the types.
LEMMA ReceivedType == TypeOK /\ Received => /\ our_sa_timer' \in Timers /\ bg' \in BgStates
                                           /\ their_na_timer' \in Timers
                                           /\ our_sa_interval' \in Nat \ {0}
                                           /\ their_na_interval' \in Nat \ {0}
  BY TimerType, AfterType DEF TypeOK, Received

\* The critical part of Push keeps the types of the queue and of the id counter.
LEMMA PushType == ASSUME TypeOK, NEW numbered, PushRequest(numbered)
                  PROVE  /\ send_queue' \in Seq(Nat) /\ free_request_id' \in Nat
                         /\ push_event' \in {"closed", "clear", "set"}
  BY DEF TypeOK, PushRequest, NextId, Unnumbered, NotifyThread, WriteEventFd

\* Leaving a pass of the loop keeps the types of mutex_cd and of the place.
LEMMA LeaveType == ASSUME NEW to \in BgStates, LeavePass(to)
                   PROVE  /\ mutex_cd' \in {"free", "bg", "owner"} /\ bg' \in BgStates
                          /\ pollfds' \in [in : BOOLEAN, out : BOOLEAN]
                          /\ revents' \in [stop : BOOLEAN, in : BOOLEAN, out : BOOLEAN,
                                           sa : BOOLEAN, na : BOOLEAN, push : BOOLEAN]
  BY DEF LeavePass, NothingAsked, NoEvents

\* Breaking out of the loop does too.
LEMMA BreakType == Break => /\ mutex_cd' \in {"free", "bg", "owner"} /\ bg' \in BgStates
                            /\ pollfds' \in [in : BOOLEAN, out : BOOLEAN]
                            /\ revents' \in [stop : BOOLEAN, in : BOOLEAN, out : BOOLEAN,
                                             sa : BOOLEAN, na : BOOLEAN, push : BOOLEAN]
  BY LeaveType DEF Break, BgStates

\* The initial state is well typed.
LEMMA TypeInit == Init => TypeOK
  <1> SUFFICES ASSUME Init PROVE TypeOK
    OBVIOUS
  <1>1. /\ our_sa_interval \in Nat \ {0} /\ their_na_interval \in Nat \ {0}
        /\ send_left \in 0..Blocks /\ send_buffer \in Nat /\ sent_id \in Nat
        /\ free_request_id \in Nat /\ recv_queue \in Nat /\ refs_amount \in Int
        /\ session \in Nat
    BY BlocksAssumption DEF Init, Unnumbered
  <1>2. /\ pollfds \in [in : BOOLEAN, out : BOOLEAN]
        /\ revents \in [stop : BOOLEAN, in : BOOLEAN, out : BOOLEAN,
                        sa : BOOLEAN, na : BOOLEAN, push : BOOLEAN]
    BY DEF Init, NothingAsked, NoEvents
  <1>3. pc \in [Users -> PcStates] /\ send_queue \in Seq(Nat) /\ net_in \in Seq(AllKinds)
    BY DEF Init, PcStates
  <1>4. /\ connected \in BOOLEAN /\ is_disconnecting \in BOOLEAN /\ peer_open \in BOOLEAN
        /\ is_even_request_parts \in BOOLEAN /\ is_recv_length \in BOOLEAN
    BY DEF Init
  <1>5. /\ bg \in BgStates /\ owner \in OwnerStates /\ receive_event \in EventFds
        /\ our_sa_timer \in Timers /\ their_na_timer \in Timers
        /\ mutex_cd = "free" /\ holding = {} /\ not_needed_event = "none"
        /\ push_event = "closed" /\ to_stop_event = "closed" /\ stopped_event = "clear"
    BY DEF Init, BgStates, OwnerStates, OwnerUses, EventFds, Timers
  <1> QED
    BY <1>1, <1>2, <1>3, <1>4, <1>5 DEF TypeOK

\* One pass of the polling loop keeps the types.
LEMMA TypeBgPass == TypeOK /\ BgPass => TypeOK'
  <1> SUFFICES ASSUME TypeOK, BgPass PROVE TypeOK'
    OBVIOUS
  <1> USE DEF TypeOK
  <1>1. CASE BgPrepare
    BY <1>1 DEF BgPrepare, SocketEvents, HasSomethingToSend, BgStates
  <1>2. CASE BgStop
    BY <1>2, BreakType DEF BgStop
  <1>3. CASE BgLock
    BY <1>3, AfterType DEF BgLock
  <1>4. CASE ReceiveBroken
    BY <1>4, BreakType DEF ReceiveBroken
  <1>5. CASE ReceiveLength
    <2>1. is_recv_length' \in BOOLEAN
      BY <1>5 DEF ReceiveLength
    <2>2. Received /\ UNCHANGED <<mutex_cd, connVars, sendVars, idVars, recv_queue, refVars,
                                 eventVars, pollVars, outsideVars>>
      BY <1>5 DEF ReceiveLength
    <2> QED
      BY <2>1, <2>2, ReceivedType
  <1>6. CASE ReceiveKeepAlive
    <2>1. net_in' \in Seq(AllKinds)
      BY <1>6, HeadTail DEF ReceiveKeepAlive, Incoming
    <2>2. is_recv_length' \in BOOLEAN
      BY <1>6 DEF ReceiveKeepAlive
    <2>3. Received /\ UNCHANGED <<mutex_cd, connVars, sendVars, idVars, recv_queue, refVars,
                                 eventVars, pollVars, threadVars, peer_open>>
      BY <1>6 DEF ReceiveKeepAlive
    <2> QED
      BY <2>1, <2>2, <2>3, ReceivedType
  <1>7. CASE ReceiveRequest
    <2>1. net_in' \in Seq(AllKinds)
      BY <1>7, HeadTail DEF ReceiveRequest, Incoming
    <2>2. bg' \in BgStates /\ recv_queue' \in Nat
      BY <1>7 DEF ReceiveRequest, BgStates, InPass
    <2> QED
      BY <1>7, <2>1, <2>2 DEF ReceiveRequest
  <1>8. CASE ReceiveNotify
    <2>1. receive_event' \in EventFds
      BY <1>8 DEF ReceiveNotify, WriteEventFd, EventFds
    <2> QED
      BY <1>8, <2>1, ReceivedType DEF ReceiveNotify
  <1>9. CASE HandlerReturn
    BY <1>9, ReceivedType DEF HandlerReturn
  <1>10. CASE SendBroken
    <2>1. send_queue' \in Seq(Nat) /\ send_buffer' \in Nat /\ send_left' \in 0..Blocks
      BY <1>10, SendingType DEF SendBroken
    <2> QED
      BY <1>10, <2>1, BreakType DEF SendBroken
  <1>11. CASE SendBlock
    <2>1. /\ send_queue' \in Seq(Nat) /\ send_buffer' \in Nat /\ send_left' \in 0..Blocks
          /\ sent_id' \in Nat
      BY <1>11, SendingType, BlocksAssumption DEF SendBlock, Unnumbered
    <2>2. our_sa_timer' \in Timers
      BY <1>11, TimerType DEF SendBlock
    <2> QED
      BY <1>11, <2>1, <2>2, BreakType, AfterType DEF SendBlock
  <1>12. CASE BgKeepAlive
    <2>1. /\ send_queue' \in Seq(Nat) /\ free_request_id' \in Nat
          /\ push_event' \in {"closed", "clear", "set"}
      BY <1>12, PushType DEF BgKeepAlive, PushUnderLock
    <2> QED
      BY <1>12, <2>1 DEF BgKeepAlive, BgStates, InPass
  <1>13. CASE BgReadTimer
    <2>1. our_sa_timer' \in Timers
      BY <1>13, TimerType DEF BgReadTimer
    <2> QED
      BY <1>13, <2>1 DEF BgReadTimer, BgStates, InPass
  <1>14. CASE BgTheyTimedOut
    BY <1>14, BreakType DEF BgTheyTimedOut
  <1>15. CASE BgPassEnd
    <2>1. "prepare" \in BgStates
      BY DEF BgStates
    <2> QED
      BY <1>15, <2>1, LeaveType DEF BgPassEnd
  <1> QED
    BY <1>1, <1>2, <1>3, <1>4, <1>5, <1>6, <1>7, <1>8, <1>9, <1>10, <1>11, <1>12, <1>13,
       <1>14, <1>15 DEF BgPass

\* poll() and the teardown keep the types.
LEMMA TypePoll == ASSUME TypeOK, NEW writable \in BOOLEAN, BgPoll(writable) PROVE TypeOK'
  BY DEF TypeOK, BgPoll, BgStates

\* The teardown after the loop keeps the types.
LEMMA TypeTeardown == TypeOK /\ BgTeardown => TypeOK'
  <1> SUFFICES ASSUME TypeOK, BgTeardown PROVE TypeOK'
    OBVIOUS
  <1>1. CASE BgExit
    <2>1. is_disconnecting' \in BOOLEAN
      BY <1>1 DEF BgExit
    <2>2. /\ mutex_cd' = "bg" /\ bg' = "notify_pull"
          /\ UNCHANGED <<connected, transferVars, refVars, fdVars, pollVars, outsideVars>>
      BY <1>1 DEF BgExit
    <2> QED
      BY <2>1, <2>2 DEF TypeOK, BgStates, Teardown
  <1>2. CASE BgNotifyPull
    BY <1>2 DEF TypeOK, BgNotifyPull, ClosedReceiveEvent, EventFds, BgStates, Teardown
  <1>3. CASE BgCheckRefs
    BY <1>3 DEF TypeOK, BgCheckRefs, BgStates, Teardown
  <1>4. CASE BgNotNeeded
    BY <1>4 DEF TypeOK, BgNotNeeded, BgStates, Teardown
  <1>5. CASE BgClose
    <2>1. is_recv_length' \in BOOLEAN /\ peer_open' \in BOOLEAN
      BY <1>5 DEF BgClose
    <2>2. send_buffer' \in Nat /\ send_left' \in 0..Blocks /\ net_in' \in Seq(AllKinds)
      BY <1>5, BlocksAssumption DEF BgClose, Unnumbered
    <2>3. our_sa_timer' \in Timers /\ their_na_timer' \in Timers /\ bg' \in BgStates
      BY <1>5 DEF BgClose, Timers, BgStates, Teardown
    <2>4. /\ push_event' = "closed" /\ to_stop_event' = "closed"
          /\ UNCHANGED <<mutex_cd, connVars, send_queue, sent_id, idVars, recv_queue, refVars,
                         stopped_event, receive_event, our_sa_interval, their_na_interval,
                         pollVars, threadVars>>
      BY <1>5 DEF BgClose
    <2> QED
      BY <2>1, <2>2, <2>3, <2>4 DEF TypeOK
  <1>6. CASE BgClearQueue
    BY <1>6 DEF TypeOK, BgClearQueue, BgStates, Teardown
  <1>7. CASE BgMarkUndefined
    <2>1. connected' \in BOOLEAN
      BY <1>7 DEF BgMarkUndefined
    <2>2. /\ bg' = "signal"
          /\ UNCHANGED <<mutex_cd, is_disconnecting, transferVars, refVars, fdVars, pollVars,
                         outsideVars>>
      BY <1>7 DEF BgMarkUndefined
    <2> QED
      BY <2>1, <2>2 DEF TypeOK, BgStates, Teardown
  <1>8. CASE BgSignalStopped
    BY <1>8 DEF TypeOK, BgSignalStopped, StoppedNotice, WriteEventFd, BgStates
  <1> QED
    BY <1>1, <1>2, <1>3, <1>4, <1>5, <1>6, <1>7, <1>8 DEF BgTeardown

\* The part of Disconnect that a handler and a user thread share.
LEMMA DisconnectType == ASSUME TypeOK, NEW forced, DisconnectLocked(forced)
                        PROVE  /\ to_stop_event' \in {"closed", "clear", "set"}
                               /\ is_disconnecting' \in BOOLEAN
                               /\ send_queue' \in Seq(Nat) /\ free_request_id' \in Nat
                               /\ push_event' \in {"closed", "clear", "set"}
  <1>1. to_stop_event' \in {"closed", "clear", "set"}
    BY DEF TypeOK, DisconnectLocked, WriteEventFd
  <1>2. is_disconnecting' \in BOOLEAN
    BY DEF DisconnectLocked
  <1>3. \/ PushRequest(FALSE)
        \/ UNCHANGED <<send_queue, free_request_id, push_event>>
    BY DEF DisconnectLocked, PushUnderLock
  <1>4. /\ send_queue' \in Seq(Nat) /\ free_request_id' \in Nat
        /\ push_event' \in {"closed", "clear", "set"}
    BY <1>3, PushType DEF TypeOK
  <1> QED
    BY <1>1, <1>2, <1>4

\* What a request handler calls keeps the types.
LEMMA TypeHandler == TypeOK /\ Handler => TypeOK'
  <1> SUFFICES ASSUME TypeOK, Handler PROVE TypeOK'
    OBVIOUS
  <1>1. ASSUME NEW numbered \in BOOLEAN, HandlerPush(numbered) PROVE TypeOK'
    BY <1>1, PushType DEF TypeOK, HandlerPush
  <1>2. ASSUME NEW forced \in BOOLEAN, HandlerDisconnect(forced) PROVE TypeOK'
    <2>1. /\ DisconnectLocked(forced)
          /\ UNCHANGED <<mutex_cd, connected, send_buffer, send_left, sent_id,
                         is_even_request_parts, recvVars, refVars, stopped_event,
                         receive_event, timerVars, bgVars, outsideVars>>
      BY <1>2 DEF HandlerDisconnect
    <2> QED
      BY <2>1, DisconnectType DEF TypeOK
  <1> QED
    BY <1>1, <1>2 DEF Handler

\* The calls of the user threads keep the types.
LEMMA TypeCalls == TypeOK /\ Calls => TypeOK'
  <1> SUFFICES ASSUME TypeOK, Calls PROVE TypeOK'
    OBVIOUS
  <1>1. ASSUME NEW t \in Users, NEW state \in PcStates, pc' = [pc EXCEPT ![t] = state]
        PROVE  pc' \in [Users -> PcStates]
    BY <1>1 DEF TypeOK
  <1>2. /\ {"idle", "push", "enqueue", "wait", "tuned"} \subseteq PcStates
        /\ CloseCalls \subseteq PcStates /\ Pulling \subseteq PcStates
    BY CloseCallsAssumption DEF PcStates
  <1>3. ASSUME NEW t \in Pushers, PushCall(t) \/ PushCheck(t) PROVE TypeOK'
    <2>1. pc' \in [Users -> PcStates]
      BY <1>1, <1>2, <1>3 DEF PushCall, PushCheck, Users
    <2>2. UNCHANGED <<objectVars, bgVars, netVars, owner, session>>
      BY <1>3 DEF PushCall, PushCheck
    <2> QED
      BY <2>1, <2>2 DEF TypeOK
  <1>4. ASSUME NEW t \in Pushers, NEW numbered \in BOOLEAN, PushEnqueue(t, numbered)
        PROVE  TypeOK'
    <2>1. pc' \in [Users -> PcStates]
      BY <1>1, <1>2, <1>4 DEF PushEnqueue, Users
    <2> QED
      BY <1>4, <2>1, PushType DEF TypeOK, PushEnqueue
  <1>5. ASSUME NEW t \in Closers,
               WaitForStop(t) \/ \E call \in CloseCalls : DisconnectCall(t, call)
        PROVE  TypeOK'
    <2>1. pc' \in [Users -> PcStates]
      BY <1>1, <1>2, <1>5 DEF WaitForStop, DisconnectCall, Users
    <2>2. UNCHANGED <<objectVars, bgVars, netVars, owner, session>>
      BY <1>5 DEF WaitForStop, DisconnectCall
    <2> QED
      BY <2>1, <2>2 DEF TypeOK
  <1>6. ASSUME NEW t \in Closers, Disconnect(t) PROVE TypeOK'
    <2>1. pc' \in [Users -> PcStates]
      BY <1>1, <1>2, <1>6 DEF Disconnect, Users
    <2>2. \/ DisconnectLocked(pc[t] \in Forced)
          \/ UNCHANGED <<to_stop_event, is_disconnecting, send_queue, free_request_id,
                         push_event>>
      BY <1>6 DEF Disconnect
    <2>3. /\ to_stop_event' \in {"closed", "clear", "set"}
          /\ is_disconnecting' \in BOOLEAN
          /\ send_queue' \in Seq(Nat) /\ free_request_id' \in Nat
          /\ push_event' \in {"closed", "clear", "set"}
      BY <2>2, DisconnectType DEF TypeOK
    <2>4. UNCHANGED <<mutex_cd, connected, send_buffer, send_left, sent_id,
                      is_even_request_parts, recvVars, refVars, stopped_event, receive_event,
                      timerVars, bgVars, netVars, owner, session>>
      BY <1>6 DEF Disconnect
    <2> QED
      BY <2>1, <2>3, <2>4 DEF TypeOK
  <1>7. ASSUME NEW t \in Pullers, PullPop(t) PROVE TypeOK'
    BY <1>7 DEF TypeOK, PullPop
  <1>8. ASSUME NEW t \in Pullers, NEW call \in Pulling, PullWait(t, call) PROVE TypeOK'
    <2>1. pc' \in [Users -> PcStates]
      BY <1>1, <1>2, <1>8 DEF PullWait, Users
    <2> QED
      BY <1>8, <2>1 DEF TypeOK, PullWait, EventFds
  <1>9. ASSUME NEW t \in Pullers, PullReturn(t) PROVE TypeOK'
    <2>1. pc' \in [Users -> PcStates]
      BY <1>1, <1>2, <1>9 DEF PullReturn, Users
    <2> QED
      BY <1>9, <2>1 DEF TypeOK, PullReturn, EventFds
  <1>10. ASSUME NEW interval \in IntervalArgs PROVE Clamp(interval) \in Nat \ {0}
    BY IntervalAssumption DEF Clamp
  <1>11. ASSUME NEW t \in Tuners, NEW interval \in IntervalArgs, SetOurSaInterval(t, interval)
         PROVE  TypeOK'
    <2>1. pc' \in [Users -> PcStates]
      BY <1>1, <1>2, <1>11 DEF SetOurSaInterval, Users
    <2>2. our_sa_timer' \in Timers
      BY <1>11, TimerType DEF TypeOK, SetOurSaInterval
    <2> QED
      BY <1>10, <1>11, <2>1, <2>2 DEF TypeOK, SetOurSaInterval
  <1>12. ASSUME NEW t \in Tuners, NEW interval \in IntervalArgs,
                SetTheirNaIntervalLimit(t, interval)
         PROVE  TypeOK'
    <2>1. pc' \in [Users -> PcStates]
      BY <1>1, <1>2, <1>12 DEF SetTheirNaIntervalLimit, Users
    <2>2. their_na_timer' \in Timers
      BY <1>12, TimerType DEF TypeOK, SetTheirNaIntervalLimit
    <2> QED
      BY <1>10, <1>12, <2>1, <2>2 DEF TypeOK, SetTheirNaIntervalLimit
  <1>13. ASSUME NEW h \in Holders, IncreaseRefs(h) PROVE TypeOK'
    BY <1>13 DEF TypeOK, IncreaseRefs
  <1>14. ASSUME NEW h \in Holders, DecreaseRefs(h) PROVE TypeOK'
    BY <1>14 DEF TypeOK, DecreaseRefs, ReleaseNotice, WriteEventFd
  <1> QED
    BY <1>3, <1>4, <1>5, <1>6, <1>7, <1>8, <1>9, <1>11, <1>12, <1>13, <1>14
       DEF Calls, PushStep, CloseStep

\* The owner and the environment keep the types.
LEMMA TypeOwner == TypeOK /\ (InitializeBegin \/ DestroyBegin \/ OwnerStep) => TypeOK'
  <1> SUFFICES ASSUME TypeOK, InitializeBegin \/ DestroyBegin \/ OwnerStep PROVE TypeOK'
    OBVIOUS
  <1>1. CASE InitializeBegin
    <2>1. connected' \in BOOLEAN
      BY <1>1 DEF InitializeBegin
    <2>2. /\ mutex_cd' = "owner" /\ owner' = "init"
          /\ UNCHANGED <<is_disconnecting, transferVars, refVars, fdVars, bgVars, pc, netVars,
                         session>>
      BY <1>1 DEF InitializeBegin
    <2> QED
      BY <2>1, <2>2 DEF TypeOK, OwnerStates, OwnerUses
  <1>2. CASE InitializeEnd
    <2>1. is_disconnecting' \in BOOLEAN /\ peer_open' \in BOOLEAN
      BY <1>2 DEF InitializeEnd
    <2>2. /\ free_request_id' \in Nat /\ recv_queue' \in Nat /\ sent_id' \in Nat
          /\ session' \in Nat /\ net_in' \in Seq(AllKinds)
      BY <1>2 DEF TypeOK, InitializeEnd
    <2>3. our_sa_timer' \in Timers /\ their_na_timer' \in Timers
      BY <1>2 DEF InitializeEnd, SetTimerFdTimeout, Timers
    <2>4. /\ stopped_event' \in {"closed", "clear", "set"}
          /\ push_event' = "clear" /\ to_stop_event' = "clear"
      BY <1>2 DEF TypeOK, InitializeEnd, ReadEventFd
    <2>5. /\ pollfds' \in [in : BOOLEAN, out : BOOLEAN]
          /\ revents' \in [stop : BOOLEAN, in : BOOLEAN, out : BOOLEAN,
                           sa : BOOLEAN, na : BOOLEAN, push : BOOLEAN]
      BY <1>2 DEF InitializeEnd, NothingAsked, NoEvents
    <2>6. bg' \in BgStates /\ owner' \in OwnerStates /\ mutex_cd' = "free"
      BY <1>2 DEF InitializeEnd, BgStates, OwnerStates, OwnerUses
    <2>7. UNCHANGED <<connected, send_queue, send_buffer, send_left, is_even_request_parts,
                      is_recv_length, refVars, receive_event, our_sa_interval,
                      their_na_interval, pc>>
      BY <1>2 DEF InitializeEnd
    <2> QED
      BY <2>1, <2>2, <2>3, <2>4, <2>5, <2>6, <2>7 DEF TypeOK
  <1>3. CASE SetEvenRequestIdsPart
    <2>1. is_even_request_parts' \in BOOLEAN
      BY <1>3 DEF SetEvenRequestIdsPart
    <2>2. free_request_id' \in Nat /\ owner' = "idle"
      BY <1>3 DEF TypeOK, SetEvenRequestIdsPart
    <2>3. UNCHANGED <<mutex_cd, connVars, sendVars, recvVars, refVars, fdVars, bgVars, pc,
                      netVars, session>>
      BY <1>3 DEF SetEvenRequestIdsPart
    <2> QED
      BY <2>1, <2>2, <2>3 DEF TypeOK, OwnerStates, OwnerUses
  <1>4. CASE DestroyBegin
    BY <1>4 DEF TypeOK, DestroyBegin, OwnerStates
  <1>5. CASE DestroyDisconnect
    BY <1>5 DEF TypeOK, DestroyDisconnect, WriteEventFd, OwnerStates
  <1>6. CASE DestroyWait
    BY <1>6 DEF TypeOK, DestroyWait, OwnerStates
  <1>7. CASE DestroyJoin
    BY <1>7 DEF TypeOK, DestroyJoin, OwnerStates
  <1> QED
    BY <1>1, <1>2, <1>3, <1>4, <1>5, <1>6, <1>7 DEF OwnerStep

\* The peer and the timers keep the types.
LEMMA TypeEnvironment == TypeOK /\ Environment => TypeOK'
  <1> SUFFICES ASSUME TypeOK, Environment PROVE TypeOK'
    OBVIOUS
  <1>1. ASSUME NEW kind \in Kinds, PeerSend(kind) PROVE TypeOK'
    <2>1. net_in' \in Seq(AllKinds)
      BY <1>1, KindsAssumption DEF TypeOK, PeerSend
    <2> QED
      BY <1>1, <2>1 DEF TypeOK, PeerSend
  <1>2. ASSUME NEW reset \in BOOLEAN, PeerClose(reset) PROVE TypeOK'
    <2>1. peer_open' \in BOOLEAN
      BY <1>2 DEF PeerClose
    <2>2. net_in' \in Seq(AllKinds)
      BY <1>2 DEF TypeOK, PeerClose
    <2>3. UNCHANGED <<objectVars, bgVars, threadVars>>
      BY <1>2 DEF PeerClose
    <2> QED
      BY <2>1, <2>2, <2>3 DEF TypeOK
  <1>3. CASE OurSaExpires
    BY <1>3 DEF TypeOK, OurSaExpires, Timers
  <1>4. CASE TheirNaExpires
    BY <1>4 DEF TypeOK, TheirNaExpires, Timers
  <1> QED
    BY <1>1, <1>2, <1>3, <1>4 DEF Environment

\* Every step keeps the types.
LEMMA TypeStep == TypeOK /\ [Next]_vars => TypeOK'
  <1> SUFFICES ASSUME TypeOK, [Next]_vars PROVE TypeOK'
    OBVIOUS
  <1>1. CASE UNCHANGED vars
    BY <1>1 DEF TypeOK, vars
  <1> QED
    BY <1>1, TypeBgPass, TypePoll, TypeTeardown, TypeHandler, TypeCalls, TypeOwner,
       TypeEnvironment DEF Next, Destroyed

\* The variables of a Connection keep their types in every run of the program,
\* whatever the threads, the peer and the clock do.
THEOREM TypeCorrect == Spec => []TypeOK
  BY TypeInit, TypeStep, PTL DEF Spec

-----------------------------------------------------------------------------
(* The life cycle of the polling thread *)

NotRunning == {"none", "done"}

\* mutex_cd is held by the polling thread during a pass and during its teardown,
\* and by the owner during InitializeByFD.
LockHeld ==
    /\ mutex_cd = "bg" <=> bg \in InPass \cup Teardown
    /\ mutex_cd = "owner" <=> owner = "init"

\* The connection is up exactly while the thread runs, up to its last two steps,
\* and while InitializeByFD has set socket_type but not started the thread.
UpWhileRunning == connected <=> (owner = "init" \/ bg \notin {"none", "done", "signal"})

\* The inductive invariant.
LifeCycle ==
    /\ LockHeld
    /\ UpWhileRunning
    /\ OnePollingThread
    /\ stopped_event = "set" => bg = "done"

\* A new object is in the first stage of its life cycle.
LEMMA LifeCycleInit == Init => LifeCycle
  BY DEF Init, LifeCycle, LockHeld, UpWhileRunning, OnePollingThread, InPass, Teardown

\* Calls of user threads, handlers and the environment leave the life cycle alone.
LifeCycleVars == <<mutex_cd, connected, bg, owner, stopped_event>>

\* The calls of user threads leave the life cycle alone.
LEMMA CallsFrame == Calls => UNCHANGED LifeCycleVars
  BY DEF Calls, PushCall, PushStep, PushCheck, PushEnqueue, CloseStep, Disconnect, WaitForStop,
     DisconnectCall, PullPop, PullWait, PullReturn, SetOurSaInterval, SetTheirNaIntervalLimit,
     IncreaseRefs, DecreaseRefs, LifeCycleVars

\* So do the calls of a handler, which runs inside a pass,
LEMMA HandlerFrame == Handler => UNCHANGED LifeCycleVars
  BY DEF Handler, HandlerPush, HandlerDisconnect, LifeCycleVars

\* and so do the peer and the timers.
LEMMA EnvironmentFrame == Environment => UNCHANGED LifeCycleVars
  BY DEF Environment, PeerSend, PeerClose, OurSaExpires, TheirNaExpires, LifeCycleVars

\* A step of a pass stays in it with mutex_cd held, or enters or leaves it.
LEMMA PassMoves == BgPass =>
    /\ UNCHANGED <<connected, owner, stopped_event>>
    /\ \/ bg = "prepare" /\ bg' = "poll" /\ UNCHANGED mutex_cd
       \/ bg = "lock" /\ bg' = "exit" /\ mutex_cd = "free" /\ mutex_cd' = "free"
       \/ bg = "lock" /\ bg' \in InPass /\ mutex_cd = "free" /\ mutex_cd' = "bg"
       \/ bg \in InPass /\ bg' \in InPass /\ UNCHANGED mutex_cd
       \/ bg \in InPass /\ bg' \in {"prepare", "exit"} /\ mutex_cd' = "free"
  <1> USE DEF InPass, LeavePass, Break, AfterSend, AfterReceive, AfterLock, Received
  <1>1. CASE BgPrepare
    BY <1>1 DEF BgPrepare
  <1>2. CASE BgStop \/ BgLock
    BY <1>2 DEF BgStop, BgLock
  <1>3. CASE ReceiveBroken \/ ReceiveLength \/ ReceiveKeepAlive
    BY <1>3 DEF ReceiveBroken, ReceiveLength, ReceiveKeepAlive
  <1>4. CASE ReceiveRequest \/ ReceiveNotify \/ HandlerReturn
    BY <1>4 DEF ReceiveRequest, ReceiveNotify, HandlerReturn
  <1>5. CASE SendBroken \/ SendBlock
    BY <1>5 DEF SendBroken, SendBlock
  <1>6. CASE BgKeepAlive \/ BgReadTimer
    BY <1>6 DEF BgKeepAlive, BgReadTimer
  <1>7. CASE BgTheyTimedOut \/ BgPassEnd
    BY <1>7 DEF BgTheyTimedOut, BgPassEnd
  <1> QED
    BY <1>1, <1>2, <1>3, <1>4, <1>5, <1>6, <1>7 DEF BgPass

\* Every step keeps LifeCycle.
LEMMA LifeCycleStep == TypeOK /\ LifeCycle /\ [Next]_vars => LifeCycle'
  <1> SUFFICES ASSUME TypeOK, LifeCycle, [Next]_vars PROVE LifeCycle'
    OBVIOUS
  <1> USE DEF LifeCycle, LockHeld, UpWhileRunning, OnePollingThread, LifeCycleVars, InPass,
              Teardown
  <1>1. CASE UNCHANGED LifeCycleVars
    BY <1>1
  <1>2. CASE BgPass
    BY <1>2, PassMoves
  <1>3. ASSUME NEW writable \in BOOLEAN, BgPoll(writable) PROVE LifeCycle'
    BY <1>3 DEF BgPoll
  <1>4. CASE BgTeardown
    <2>1. CASE BgExit
      BY <2>1 DEF BgExit
    <2>2. CASE BgNotifyPull \/ BgCheckRefs \/ BgNotNeeded
      BY <2>2 DEF BgNotifyPull, BgCheckRefs, BgNotNeeded
    <2>3. CASE BgClose \/ BgClearQueue
      BY <2>3 DEF BgClose, BgClearQueue
    <2>4. CASE BgMarkUndefined
      BY <2>4 DEF BgMarkUndefined
    <2>5. CASE BgSignalStopped
      BY <2>5 DEF BgSignalStopped
    <2> QED
      BY <1>4, <2>1, <2>2, <2>3, <2>4, <2>5 DEF BgTeardown
  <1>5. CASE InitializeBegin
    BY <1>5 DEF InitializeBegin
  <1>6. CASE InitializeEnd
    BY <1>6 DEF InitializeEnd, ReadEventFd
  <1>7. CASE SetEvenRequestIdsPart \/ DestroyBegin
    BY <1>7 DEF SetEvenRequestIdsPart, DestroyBegin
  <1>8. CASE DestroyDisconnect \/ DestroyWait \/ DestroyJoin
    BY <1>8 DEF DestroyDisconnect, DestroyWait, DestroyJoin
  <1>9. CASE UNCHANGED vars
    BY <1>1, <1>9 DEF vars
  <1> QED
    BY <1>1, <1>2, <1>3, <1>4, <1>5, <1>6, <1>7, <1>8, <1>9, CallsFrame, HandlerFrame,
       EnvironmentFrame DEF Next, OwnerStep, Destroyed

\* Types and life cycle hold in every reachable state.
LEMMA LifeCycleInvariant == Spec => [](TypeOK /\ LifeCycle)
  <1>1. Init => LifeCycle
    BY LifeCycleInit
  <1>2. TypeOK /\ LifeCycle /\ [Next]_vars => LifeCycle'
    BY LifeCycleStep
  <1> QED
    BY <1>1, <1>2, TypeCorrect, PTL DEF Spec

\* Whoever sees the stopped event (WaitForStop, Server's poll) may rely on the
\* polling thread having finished with the object.
THEOREM StopIsFinal == Spec => []StoppedMeansFinished
  <1>1. LifeCycle => StoppedMeansFinished
    BY DEF LifeCycle, UpWhileRunning, StoppedMeansFinished
  <1> QED
    BY <1>1, LifeCycleInvariant, PTL

\* InitializeByFD never runs beside a live polling thread: it is kept out by
\* mutex_cd until the thread has finished, and by socket_type before that.
THEOREM ReinitializationIsSafe == Spec => []OnePollingThread
  <1>1. LifeCycle => OnePollingThread
    BY DEF LifeCycle
  <1> QED
    BY <1>1, LifeCycleInvariant, PTL

-----------------------------------------------------------------------------
(* The push event *)

Looping == {"prepare", "poll", "lock"} \cup InPass

\* The inductive invariant: the event exists as long as the thread polls it.
PushEventLive ==
    /\ bg \in Looping => push_event # "closed"
    /\ NoLostPush

\* A step of another thread that queues something also writes the event.
QueuesLoudly ==
    /\ UNCHANGED <<bg, pollfds, send_left>>
    /\ UNCHANGED <<send_queue, push_event>> \/ push_event' = WriteEventFd(push_event)

\* Whatever Push queues for a thread or a handler, it announces.
LEMMA CallsQueueLoudly == Calls \/ Handler => QueuesLoudly
  <1> USE DEF QueuesLoudly, PushRequest, NotifyThread, PushUnderLock, DisconnectLocked
  <1>1. CASE Handler
    BY <1>1 DEF Handler, HandlerPush, HandlerDisconnect
  <1>2. CASE Calls
    BY <1>2 DEF Calls, PushCall, PushStep, PushCheck, PushEnqueue, CloseStep, Disconnect,
       WaitForStop, DisconnectCall, PullPop, PullWait, PullReturn, SetOurSaInterval,
       SetTheirNaIntervalLimit, IncreaseRefs, DecreaseRefs
  <1> QED
    BY <1>1, <1>2

\* Only the end of a pass reads the event, and only BgPrepare leads to poll().
LEMMA PassAndPushEvent == TypeOK /\ push_event # "closed" /\ BgPass =>
    /\ bg \in Looping /\ push_event' # "closed"
    /\ bg' = "poll" => BgPrepare
  <1> USE DEF Looping, InPass, LeavePass, Break, AfterSend, AfterReceive, AfterLock, Received
  <1>1. CASE BgPrepare \/ BgStop \/ BgLock
    BY <1>1 DEF BgPrepare, BgStop, BgLock
  <1>2. CASE ReceiveBroken \/ ReceiveLength \/ ReceiveKeepAlive
    BY <1>2 DEF ReceiveBroken, ReceiveLength, ReceiveKeepAlive
  <1>3. CASE ReceiveRequest \/ ReceiveNotify \/ HandlerReturn
    BY <1>3 DEF ReceiveRequest, ReceiveNotify, HandlerReturn
  <1>4. CASE SendBroken \/ SendBlock
    BY <1>4 DEF SendBroken, SendBlock
  <1>5. CASE BgKeepAlive \/ BgReadTimer
    BY <1>5 DEF BgKeepAlive, BgReadTimer, PushUnderLock, PushRequest, NotifyThread,
       WriteEventFd
  <1>6. CASE BgTheyTimedOut \/ BgPassEnd
    BY <1>6 DEF BgTheyTimedOut, BgPassEnd
  <1> QED
    BY <1>1, <1>2, <1>3, <1>4, <1>5, <1>6 DEF BgPass

\* Every step keeps PushEventLive.
LEMMA PushEventStep == TypeOK /\ PushEventLive /\ [Next]_vars => PushEventLive'
  <1> SUFFICES ASSUME TypeOK, PushEventLive, [Next]_vars PROVE PushEventLive'
    OBVIOUS
  <1> USE DEF PushEventLive, Looping, InPass, NoLostPush, HasSomethingToSend
  <1>1. CASE UNCHANGED <<bg, pollfds, send_left, send_queue, push_event>>
    BY <1>1
  <1>2. CASE QueuesLoudly
    BY <1>2 DEF QueuesLoudly, WriteEventFd, TypeOK
  <1>3. CASE BgPass
    <2>1. CASE BgPrepare
      BY <2>1 DEF BgPrepare, SocketEvents
    <2>2. CASE ~BgPrepare
      <3>1. push_event # "closed"
        BY <1>3, PassMoves
      <3> QED
        BY <1>3, <2>2, <3>1, PassAndPushEvent
    <2> QED
      BY <2>1, <2>2
  <1>4. ASSUME NEW writable \in BOOLEAN, BgPoll(writable) PROVE PushEventLive'
    BY <1>4 DEF BgPoll
  <1>5. CASE BgTeardown
    BY <1>5 DEF BgTeardown, BgExit, BgNotifyPull, BgCheckRefs, BgNotNeeded, BgClose,
       BgClearQueue, BgMarkUndefined, BgSignalStopped
  <1>6. CASE InitializeBegin \/ DestroyBegin \/ OwnerStep
    BY <1>6 DEF InitializeBegin, DestroyBegin, OwnerStep, InitializeEnd,
       SetEvenRequestIdsPart, DestroyDisconnect, DestroyWait, DestroyJoin
  <1>7. CASE Environment
    BY <1>1, <1>7 DEF Environment, PeerSend, PeerClose, OurSaExpires, TheirNaExpires
  <1>8. CASE UNCHANGED vars
    BY <1>1, <1>8 DEF vars
  <1> QED
    BY <1>2, <1>3, <1>4, <1>5, <1>6, <1>7, <1>8, CallsQueueLoudly DEF Next, Destroyed

\* No Push is lost: a polling thread that does not ask for output although
\* something is queued has been notified and will not sleep.
THEOREM PushIsNotLost == Spec => []NoLostPush
  <1>1. Init => PushEventLive
    BY DEF Init, PushEventLive, Looping, InPass, NoLostPush, HasSomethingToSend
  <1>2. TypeOK /\ PushEventLive /\ [Next]_vars => PushEventLive'
    BY PushEventStep
  <1>3. PushEventLive => NoLostPush
    BY DEF PushEventLive
  <1> QED
    BY <1>1, <1>2, <1>3, TypeCorrect, PTL DEF Spec

-----------------------------------------------------------------------------
(* The reference counter *)

\* The inductive invariant: the counter counts the SafeConnections, and the
\* event exists exactly while the teardown waits for it.
RefsCounted ==
    /\ IsFiniteSet(holding) /\ refs_amount = Cardinality(holding)
    /\ bg = "await" <=> not_needed_event # "none"
    /\ NoLostRelease

\* Nobody holds a new object.
LEMMA RefsInit == Init => RefsCounted
  BY FS_EmptySet DEF Init, RefsCounted, NoLostRelease

\* No other action than these three touches the counter or waits for it.
LEMMA RefsFrame == Calls =>
    \/ UNCHANGED <<bg, refVars>>
    \/ \E h \in Holders : IncreaseRefs(h) \/ DecreaseRefs(h)
  BY DEF Calls, PushCall, PushStep, PushCheck, PushEnqueue, CloseStep, Disconnect, WaitForStop,
     DisconnectCall, PullPop, PullWait, PullReturn, SetOurSaInterval, SetTheirNaIntervalLimit

\* A pass of the loop neither waits for a release nor touches the references.
LEMMA PassFrame == BgPass => bg # "await" /\ bg' # "await" /\ UNCHANGED refVars
  <1>1. BgPass => UNCHANGED refVars
    BY DEF BgPass, BgPrepare, BgStop, BgLock, ReceiveBroken, ReceiveLength, ReceiveKeepAlive,
       ReceiveRequest, ReceiveNotify, HandlerReturn, SendBroken, SendBlock, BgKeepAlive,
       BgReadTimer, BgTheyTimedOut, BgPassEnd
  <1> QED
    BY <1>1, PassMoves DEF InPass

\* Every step keeps RefsCounted.
LEMMA RefsStep == TypeOK /\ OnePollingThread /\ RefsCounted /\ [Next]_vars => RefsCounted'
  <1> SUFFICES ASSUME TypeOK, OnePollingThread, RefsCounted, [Next]_vars PROVE RefsCounted'
    OBVIOUS
  <1> USE DEF RefsCounted, NoLostRelease
  <1>1. CASE UNCHANGED <<bg, refVars>>
    BY <1>1
  <1>2. ASSUME NEW h \in Holders, IncreaseRefs(h) PROVE RefsCounted'
    <2>1. IsFiniteSet(holding') /\ refs_amount' = Cardinality(holding')
      BY <1>2, FS_AddElement DEF IncreaseRefs
    <2>2. refs_amount' # 0
      BY <1>2, FS_CardinalityType DEF IncreaseRefs
    <2> QED
      BY <1>2, <2>1, <2>2 DEF IncreaseRefs
  <1>3. ASSUME NEW h \in Holders, DecreaseRefs(h) PROVE RefsCounted'
    <2>1. IsFiniteSet(holding') /\ refs_amount' = Cardinality(holding')
      BY <1>3, FS_RemoveElement DEF DecreaseRefs
    <2>2. bg = "await" => not_needed_event' = "set"
      BY <1>3 DEF DecreaseRefs, ReleaseNotice, WriteEventFd, TypeOK
    <2>3. bg # "await" => not_needed_event' = "none"
      BY <1>3 DEF DecreaseRefs, ReleaseNotice, WriteEventFd
    <2>4. UNCHANGED bg
      BY <1>3 DEF DecreaseRefs
    <2> QED
      BY <2>1, <2>2, <2>3, <2>4
  <1>4. CASE BgPass
    BY <1>4, PassFrame
  <1>5. ASSUME NEW writable \in BOOLEAN, BgPoll(writable) PROVE RefsCounted'
    BY <1>5 DEF BgPoll
  <1>6. CASE BgTeardown
    <2>1. CASE BgCheckRefs \/ BgNotNeeded
      BY <2>1 DEF BgCheckRefs, BgNotNeeded
    <2>2. CASE BgExit \/ BgNotifyPull \/ BgClose
      BY <2>2 DEF BgExit, BgNotifyPull, BgClose
    <2>3. CASE BgClearQueue \/ BgMarkUndefined \/ BgSignalStopped
      BY <2>3 DEF BgClearQueue, BgMarkUndefined, BgSignalStopped
    <2> QED
      BY <1>6, <2>1, <2>2, <2>3 DEF BgTeardown
  <1>7. CASE Handler \/ Environment
    BY <1>1, <1>7 DEF Handler, HandlerPush, HandlerDisconnect, Environment, PeerSend, PeerClose,
       OurSaExpires, TheirNaExpires
  <1>8. CASE InitializeBegin \/ DestroyBegin \/ SetEvenRequestIdsPart
    BY <1>1, <1>8 DEF InitializeBegin, DestroyBegin, SetEvenRequestIdsPart
  <1>9. CASE DestroyDisconnect \/ DestroyWait \/ DestroyJoin
    BY <1>1, <1>9 DEF DestroyDisconnect, DestroyWait, DestroyJoin
  <1>10. CASE InitializeEnd
    <2>1. bg # "await"
      BY <1>10 DEF InitializeEnd, OnePollingThread
    <2> QED
      BY <1>10, <2>1 DEF InitializeEnd
  <1>11. CASE UNCHANGED vars
    BY <1>1, <1>11 DEF vars
  <1> QED
    BY <1>1, <1>2, <1>3, <1>4, <1>5, <1>6, <1>7, <1>8, <1>9, <1>10, <1>11, RefsFrame
       DEF Next, OwnerStep, Destroyed

\* The release of the last SafeConnection is never lost on a waiting teardown.
THEOREM ReleaseIsNotLost == Spec => []NoLostRelease
  <1>1. RefsCounted => NoLostRelease
    BY DEF RefsCounted
  <1> QED
    BY <1>1, RefsInit, RefsStep, TypeCorrect, ReinitializationIsSafe, PTL DEF Spec

-----------------------------------------------------------------------------
(* The interface that Server builds on *)

\* Between two states that agree on where the thread is and on the references
\* nothing happens at the interface.
LEMMA LifeStutter == UNCHANGED <<bg, refVars>> => UNCHANGED Life!vars
  BY DEF Phase, Life!vars

\* Every step of the object is a step of Lifecycle or invisible to it.
LEMMA LifeStep ==
    TypeOK /\ OnePollingThread /\ RefsCounted /\ [Next]_vars => [Life!Next]_(Life!vars)
  <1> SUFFICES ASSUME TypeOK, OnePollingThread, RefsCounted, [Next]_vars
               PROVE  [Life!Next]_(Life!vars)
    OBVIOUS
  <1> USE DEF Life!Next, Life!vars
  <1>1. CASE UNCHANGED <<bg, refVars>>
    BY <1>1, LifeStutter
  <1>2. ASSUME NEW h \in Holders, IncreaseRefs(h) PROVE Life!Acquire
    BY <1>2 DEF IncreaseRefs, Life!Acquire, Phase
  <1>3. ASSUME NEW h \in Holders, DecreaseRefs(h) PROVE Life!Release
    <2>1. refs_amount # 0
      BY <1>3, FS_EmptySet DEF DecreaseRefs, RefsCounted
    <2>2. bg = "await" => Phase \in {"await", "stopping"} /\ Phase' = "stopping"
      BY <1>3 DEF DecreaseRefs, ReleaseNotice, WriteEventFd, RefsCounted, TypeOK, Phase
    <2>3. bg # "await" => Phase' = Phase /\ Phase # "await"
      BY <1>3 DEF DecreaseRefs, Phase
    <2> QED
      BY <1>3, <2>1, <2>2, <2>3 DEF DecreaseRefs, Life!Release
  <1>4. CASE BgPass
    <2>1. Phase = "open" /\ Phase' = "open"
      BY <1>4, PassMoves DEF Phase, InPass
    <2> QED
      BY <1>4, <2>1, PassFrame
  <1>5. ASSUME NEW writable \in BOOLEAN, BgPoll(writable) PROVE UNCHANGED Life!vars
    BY <1>5 DEF BgPoll, Phase
  <1>6. CASE BgTeardown
    <2>1. CASE BgExit \/ BgNotifyPull
      BY <2>1 DEF BgExit, BgNotifyPull, Phase
    <2>2. CASE BgCheckRefs
      BY <2>2 DEF BgCheckRefs, Phase, Life!Teardown
    <2>3. CASE BgNotNeeded \/ BgClose
      BY <2>3 DEF BgNotNeeded, BgClose, Phase
    <2>4. CASE BgClearQueue \/ BgMarkUndefined
      BY <2>4 DEF BgClearQueue, BgMarkUndefined, Phase
    <2>5. CASE BgSignalStopped
      BY <2>5 DEF BgSignalStopped, Phase, Life!Finish
    <2> QED
      BY <1>6, <2>1, <2>2, <2>3, <2>4, <2>5 DEF BgTeardown
  <1>7. CASE Handler \/ Environment
    BY <1>1, <1>7 DEF Handler, HandlerPush, HandlerDisconnect, Environment, PeerSend, PeerClose,
       OurSaExpires, TheirNaExpires
  <1>8. CASE InitializeBegin \/ DestroyBegin \/ SetEvenRequestIdsPart
    BY <1>1, <1>8 DEF InitializeBegin, DestroyBegin, SetEvenRequestIdsPart
  <1>9. CASE DestroyDisconnect \/ DestroyWait \/ DestroyJoin
    BY <1>1, <1>9 DEF DestroyDisconnect, DestroyWait, DestroyJoin
  <1>10. CASE InitializeEnd
    BY <1>10 DEF InitializeEnd, OnePollingThread, Phase, Life!Open
  <1>11. CASE UNCHANGED vars
    BY <1>1, <1>11 DEF vars
  <1> QED
    BY <1>1, <1>2, <1>3, <1>4, <1>5, <1>6, <1>7, <1>8, <1>9, <1>10, <1>11, RefsFrame
       DEF Next, OwnerStep, Destroyed

\* The Connection object implements the interface, for any number of threads,
\* holders and sessions.
THEOREM ConnectionImplementsLifecycle == Spec => KeepsLifecycle
  <1>1. Init => Life!Init
    BY DEF Init, Life!Init, Phase
  <1> QED
    BY <1>1, LifeStep, RefsInit, RefsStep, TypeCorrect, ReinitializationIsSafe, PTL
       DEF Spec, KeepsLifecycle, Life!Spec

-----------------------------------------------------------------------------
(* The receive event *)

\* The inductive invariant: at most one Pull waits, and its event exists.
OnePullWaits ==
    /\ \A t \in Pullers : pc[t] \in Pulling => receive_event # "none"
    /\ \A t, u \in Pullers : pc[t] \in Pulling /\ pc[u] \in Pulling => t = u
    /\ NoLostWakeup

\* The calls that are not Pull leave the waiting Pull and its event alone.
LEMMA OtherCalls == TypeOK /\ Calls =>
    \/ \E t \in Pullers : PullPop(t) \/ PullReturn(t) \/ \E call \in Pulling : PullWait(t, call)
    \/ /\ UNCHANGED <<bg, recv_queue, receive_event>>
       /\ \A t \in Users : pc'[t] \in Pulling => pc[t] \in Pulling
  <1> SUFFICES ASSUME TypeOK, Calls
               PROVE  \/ \E t \in Pullers : \/ PullPop(t) \/ PullReturn(t)
                                            \/ \E call \in Pulling : PullWait(t, call)
                      \/ /\ UNCHANGED <<bg, recv_queue, receive_event>>
                         /\ \A t \in Users : pc'[t] \in Pulling => pc[t] \in Pulling
    OBVIOUS
  <1> USE DEF TypeOK, Users, Pulling
  <1>1. ASSUME NEW t \in Pushers, PushCall(t) \/ PushStep(t)
        PROVE  /\ UNCHANGED <<bg, recv_queue, receive_event>>
               /\ \A u \in Users : pc'[u] \in Pulling => pc[u] \in Pulling
    BY <1>1 DEF PushCall, PushStep, PushCheck, PushEnqueue
  <1>2. ASSUME NEW t \in Closers,
               CloseStep(t) \/ \E call \in CloseCalls : DisconnectCall(t, call)
        PROVE  /\ UNCHANGED <<bg, recv_queue, receive_event>>
               /\ \A u \in Users : pc'[u] \in Pulling => pc[u] \in Pulling
    BY <1>2, CloseCallsAssumption DEF CloseStep, Disconnect, WaitForStop, DisconnectCall,
       DisconnectCalls
  <1>3. ASSUME NEW t \in Tuners, NEW interval \in IntervalArgs,
               SetOurSaInterval(t, interval) \/ SetTheirNaIntervalLimit(t, interval)
        PROVE  /\ UNCHANGED <<bg, recv_queue, receive_event>>
               /\ \A u \in Users : pc'[u] \in Pulling => pc[u] \in Pulling
    BY <1>3 DEF SetOurSaInterval, SetTheirNaIntervalLimit
  <1>4. ASSUME NEW h \in Holders, IncreaseRefs(h) \/ DecreaseRefs(h)
        PROVE  /\ UNCHANGED <<bg, recv_queue, receive_event>>
               /\ \A u \in Users : pc'[u] \in Pulling => pc[u] \in Pulling
    BY <1>4 DEF IncreaseRefs, DecreaseRefs
  <1> QED
    BY <1>1, <1>2, <1>3, <1>4 DEF Calls

\* Every step keeps OnePullWaits.
LEMMA PullStep == TypeOK /\ OnePullWaits /\ [Next]_vars => OnePullWaits'
  <1> SUFFICES ASSUME TypeOK, OnePullWaits, [Next]_vars PROVE OnePullWaits'
    OBVIOUS
  <1> USE DEF OnePullWaits, NoLostWakeup, TypeOK, Users
  <1>1. ASSUME UNCHANGED <<recv_queue, receive_event>>, bg = "notify" => bg' = "notify",
               \A t \in Users : pc'[t] \in Pulling => pc[t] \in Pulling
        PROVE  OnePullWaits'
    BY <1>1
  <1>2. CASE BgPass
    <2>1. CASE ReceiveRequest
      BY <2>1 DEF ReceiveRequest
    <2>2. CASE ReceiveNotify
      BY <2>2 DEF ReceiveNotify, WriteEventFd, EventFds
    <2>3. CASE ~ReceiveRequest /\ ~ReceiveNotify
      <3>1. bg # "notify" /\ UNCHANGED <<recv_queue, receive_event, pc>>
        BY <1>2, <2>3 DEF BgPass, BgPrepare, BgStop, BgLock, ReceiveBroken, ReceiveLength,
           ReceiveKeepAlive, HandlerReturn, SendBroken, SendBlock, BgKeepAlive, BgReadTimer,
           BgTheyTimedOut, BgPassEnd
      <3> QED
        BY <1>1, <3>1
    <2> QED
      BY <2>1, <2>2, <2>3
  <1>3. ASSUME NEW writable \in BOOLEAN, BgPoll(writable) PROVE OnePullWaits'
    BY <1>1, <1>3 DEF BgPoll
  <1>4. CASE BgTeardown
    <2>1. CASE BgNotifyPull
      BY <2>1 DEF BgNotifyPull, ClosedReceiveEvent
    <2>2. CASE ~BgNotifyPull
      <3>1. bg # "notify" /\ UNCHANGED <<recv_queue, receive_event, pc>>
        BY <1>4, <2>2 DEF BgTeardown, BgExit, BgCheckRefs, BgNotNeeded, BgClose, BgClearQueue,
           BgMarkUndefined, BgSignalStopped
      <3> QED
        BY <1>1, <3>1
    <2> QED
      BY <2>1, <2>2
  <1>5. CASE Handler \/ Environment
    BY <1>1, <1>5 DEF Handler, HandlerPush, HandlerDisconnect, Environment, PeerSend, PeerClose,
       OurSaExpires, TheirNaExpires
  <1>6. CASE Calls
    <2>1. ASSUME NEW t \in Pullers, PullPop(t) PROVE OnePullWaits'
      BY <2>1 DEF PullPop
    <2>2. ASSUME NEW t \in Pullers, PullReturn(t) PROVE OnePullWaits'
      BY <2>2 DEF PullReturn, Pulling
    <2>3. ASSUME NEW t \in Pullers, NEW call \in Pulling, PullWait(t, call)
          PROVE  OnePullWaits'
      BY <2>3 DEF PullWait, PullMustWait
    <2> QED
      BY <1>1, <1>6, <2>1, <2>2, <2>3, OtherCalls
  <1>7. CASE InitializeEnd
    BY <1>7 DEF InitializeEnd
  <1>8. CASE InitializeBegin \/ DestroyBegin \/ SetEvenRequestIdsPart
    BY <1>1, <1>8 DEF InitializeBegin, DestroyBegin, SetEvenRequestIdsPart
  <1>9. CASE DestroyDisconnect \/ DestroyWait \/ DestroyJoin
    BY <1>1, <1>9 DEF DestroyDisconnect, DestroyWait, DestroyJoin
  <1>10. CASE UNCHANGED vars
    BY <1>1, <1>10 DEF vars
  <1> QED
    BY <1>2, <1>3, <1>4, <1>5, <1>6, <1>7, <1>8, <1>9, <1>10 DEF Next, OwnerStep, Destroyed

\* No wake-up is lost between Receive and a waiting Pull.
THEOREM WakeupIsNotLost == Spec => []NoLostWakeup
  <1>1. Init => OnePullWaits
    BY DEF Init, OnePullWaits, NoLostWakeup, Pulling, Users
  <1>2. OnePullWaits => NoLostWakeup
    BY DEF OnePullWaits
  <1> QED
    BY <1>1, <1>2, PullStep, TypeCorrect, PTL DEF Spec

-----------------------------------------------------------------------------
(* Request ids.  They are fresh in the first session of the object: a later *)
(* one may start with requests that were queued too late in the one before.  *)

\* The inductive invariant: nothing is queued, and no Push is past its check,
\* before the first InitializeByFD resets the counter.
FirstSession ==
    /\ IdsStayFresh
    /\ send_left = 0 => send_buffer = Unnumbered
    /\ session <= 1
    /\ owner = "init" => session = 0
    /\ session = 0 => /\ send_queue = <<>> /\ send_left = 0 /\ sent_id = 0
                      /\ bg = "none"
                      /\ \A t \in Users : pc[t] # "enqueue"

\* A push keeps the numbers in order.
LEMMA PushKeepsOrder ==
    ASSUME TypeOK, IdsStayFresh, NEW numbered, PushRequest(numbered),
           UNCHANGED <<send_buffer, sent_id>>
    PROVE  IdsStayFresh'
  <1>1. CASE numbered
    BY <1>1 DEF TypeOK, IdsStayFresh, PushRequest, NextId, Unnumbered
  <1>2. CASE ~numbered
    BY <1>2 DEF TypeOK, IdsStayFresh, PushRequest, NextId, Unnumbered
  <1> QED
    BY <1>1, <1>2

\* Taking the head of the queue keeps them in order.
LEMMA PopKeepsOrder ==
    ASSUME TypeOK, IdsStayFresh, send_left = 0 => send_buffer = Unnumbered,
           UNCHANGED free_request_id, send_queue' = SendingRest,
           \/ send_buffer' = SendingId /\ sent_id' = sent_id
           \/ /\ send_buffer' = Unnumbered
              /\ sent_id' = IF SendingId # Unnumbered THEN SendingId ELSE sent_id
    PROVE  IdsStayFresh'
  <1>1. CASE Popped
    <2>1. /\ send_queue # <<>> /\ SendingId = send_queue[1] /\ send_queue' = Tail(send_queue)
          /\ send_buffer = Unnumbered
      BY <1>1 DEF SendingRest, SendingId, Popped
    <2>2. /\ send_queue \in Seq(Nat) /\ 1 \in DOMAIN send_queue
          /\ Len(send_queue') = Len(send_queue) - 1
      BY <2>1 DEF TypeOK
    <2>3. \A i \in DOMAIN send_queue' : /\ i + 1 \in DOMAIN send_queue
                                         /\ send_queue'[i] = send_queue[i + 1]
      BY <2>1, <2>2
    <2>4. /\ \A i \in DOMAIN send_queue' : send_queue'[i] # Unnumbered =>
               sent_id < send_queue'[i] /\ send_queue'[i] < free_request_id
          /\ \A i, j \in DOMAIN send_queue' :
               send_queue'[i] # Unnumbered /\ send_queue'[j] # Unnumbered /\ i < j =>
               send_queue'[i] < send_queue'[j]
      BY <2>1, <2>2, <2>3 DEF IdsStayFresh
    <2>5. SendingId # Unnumbered =>
          /\ sent_id < SendingId /\ SendingId < free_request_id
          /\ \A i \in DOMAIN send_queue' : send_queue'[i] # Unnumbered => SendingId < send_queue'[i]
      BY <2>1, <2>2, <2>3 DEF IdsStayFresh
    <2>6. sent_id \in Nat /\ sent_id < free_request_id
      BY <2>1 DEF TypeOK, IdsStayFresh
    <2>7. SendingId \in Nat /\ free_request_id \in Nat
      BY <2>1, <2>2 DEF TypeOK
    <2>8. CASE SendingId = Unnumbered
      BY <2>4, <2>6, <2>7, <2>8 DEF IdsStayFresh, Unnumbered
    <2>9. CASE SendingId # Unnumbered
      BY <2>4, <2>5, <2>6, <2>7, <2>9 DEF IdsStayFresh, Unnumbered
    <2> QED
      BY <2>8, <2>9
  <1>2. CASE ~Popped
    BY <1>2 DEF TypeOK, IdsStayFresh, SendingRest, SendingId, Unnumbered
  <1> QED
    BY <1>1, <1>2

\* Once the thread has been started the first session has begun, and it stays begun.
LEMMA FirstSessionStep ==
    ASSUME MaxSessions = 1, TypeOK, LifeCycle, FirstSession, [Next]_vars
    PROVE  FirstSession'
  <1> USE DEF FirstSession
  <1>1. connected /\ mutex_cd = "free" => session # 0
    BY DEF LifeCycle, LockHeld, UpWhileRunning
  <1>2. ASSUME UNCHANGED <<sendVars, free_request_id, session>>, session # 0,
               owner' = "init" => owner = "init"
        PROVE  FirstSession'
    BY <1>2 DEF IdsStayFresh
  <1>3. ASSUME session # 0, UNCHANGED <<send_buffer, send_left, sent_id, session, owner>>,
               PushRequest(FALSE) \/ PushRequest(TRUE)
        PROVE  FirstSession'
    BY <1>3, PushKeepsOrder
  <1>4. CASE BgPass
    <2>1. session # 0
      BY <1>4, PassMoves DEF InPass
    <2>2. CASE SendBroken
      <3>1. IdsStayFresh'
        BY <2>2, PopKeepsOrder DEF SendBroken
      <3>2. send_left' # 0
        BY <2>2 DEF SendBroken
      <3> QED
        BY <2>1, <2>2, <3>1, <3>2 DEF SendBroken
    <2>3. CASE SendBlock
      <3>1. IdsStayFresh'
        <4>1. CASE SendingLeft = 1
          BY <2>3, <4>1, PopKeepsOrder DEF SendBlock
        <4>2. CASE SendingLeft # 1
          BY <2>3, <4>2, PopKeepsOrder DEF SendBlock
        <4> QED
          BY <4>1, <4>2
      <3>2. send_left' = 0 => send_buffer' = Unnumbered
        BY <2>3, SendingType DEF SendBlock
      <3>3. UNCHANGED <<session, owner>>
        BY <2>3 DEF SendBlock
      <3> QED
        BY <2>1, <3>1, <3>2, <3>3
    <2>4. CASE BgKeepAlive
      BY <1>2, <1>3, <2>1, <2>4 DEF BgKeepAlive, PushUnderLock
    <2>5. CASE ~SendBroken /\ ~SendBlock /\ ~BgKeepAlive
      <3>1. UNCHANGED <<sendVars, free_request_id, session, owner>>
        BY <1>4, <2>5 DEF BgPass, BgPrepare, BgStop, BgLock, ReceiveBroken, ReceiveLength,
           ReceiveKeepAlive, ReceiveRequest, ReceiveNotify, HandlerReturn, BgReadTimer,
           BgTheyTimedOut, BgPassEnd
      <3> QED
        BY <1>2, <2>1, <3>1
    <2> QED
      BY <2>2, <2>3, <2>4, <2>5
  <1>5. ASSUME NEW writable \in BOOLEAN, BgPoll(writable) PROVE FirstSession'
    BY <1>2, <1>5 DEF BgPoll
  <1>6. CASE BgTeardown
    <2>1. session # 0
      BY <1>6 DEF BgTeardown, BgExit, BgNotifyPull, BgCheckRefs, BgNotNeeded, BgClose,
         BgClearQueue, BgMarkUndefined, BgSignalStopped
    <2>2. CASE BgClose
      BY <2>1, <2>2 DEF BgClose, IdsStayFresh, Unnumbered, TypeOK
    <2>3. CASE BgClearQueue
      BY <2>1, <2>3 DEF BgClearQueue, IdsStayFresh, TypeOK
    <2>4. CASE ~BgClose /\ ~BgClearQueue
      <3>1. UNCHANGED <<sendVars, free_request_id, session, owner>>
        BY <1>6, <2>4 DEF BgTeardown, BgExit, BgNotifyPull, BgCheckRefs, BgNotNeeded,
           BgMarkUndefined, BgSignalStopped
      <3> QED
        BY <1>2, <2>1, <3>1
    <2> QED
      BY <2>2, <2>3, <2>4
  <1>7. CASE Handler
    <2>1. session # 0
      BY <1>7 DEF Handler, HandlerPush, HandlerDisconnect
    <2>2. ASSUME NEW numbered \in BOOLEAN, HandlerPush(numbered) PROVE FirstSession'
      BY <1>3, <2>1, <2>2 DEF HandlerPush
    <2>3. ASSUME NEW forced \in BOOLEAN, HandlerDisconnect(forced) PROVE FirstSession'
      BY <1>2, <1>3, <2>1, <2>3 DEF HandlerDisconnect, DisconnectLocked, PushUnderLock
    <2> QED
      BY <1>7, <2>2, <2>3 DEF Handler
  <1>8. CASE Environment
    BY <1>8 DEF Environment, PeerSend, PeerClose, OurSaExpires, TheirNaExpires, IdsStayFresh
  <1>9. CASE InitializeBegin
    BY <1>9, BoundsAssumption DEF InitializeBegin, IdsStayFresh, TypeOK
  <1>10. CASE InitializeEnd
    BY <1>10 DEF InitializeEnd, IdsStayFresh, Unnumbered
  <1>11. CASE SetEvenRequestIdsPart
    <2>1. free_request_id' \in Nat /\ free_request_id' >= free_request_id
      BY <1>11 DEF SetEvenRequestIdsPart, TypeOK
    <2>2. owner' = "idle" /\ UNCHANGED <<sendVars, session, bg, pc>>
      BY <1>11 DEF SetEvenRequestIdsPart
    <2>3. IdsStayFresh'
      BY <2>1, <2>2 DEF IdsStayFresh, TypeOK
    <2> QED
      BY <2>2, <2>3
  <1>12. CASE DestroyBegin \/ DestroyDisconnect \/ DestroyWait \/ DestroyJoin
    BY <1>12 DEF DestroyBegin, DestroyDisconnect, DestroyWait, DestroyJoin, IdsStayFresh
  <1>13. CASE UNCHANGED vars
    BY <1>13 DEF vars, IdsStayFresh
  <1>14. CASE Calls
    <2> USE DEF Users, TypeOK
    <2>1. ASSUME UNCHANGED <<sendVars, free_request_id, session, owner, bg>>,
                 \/ session # 0
                 \/ \A u \in Users : pc'[u] = "enqueue" => pc[u] = "enqueue"
          PROVE  FirstSession'
      BY <2>1 DEF IdsStayFresh
    <2>2. ASSUME NEW t \in Pushers, PushCall(t) PROVE FirstSession'
      BY <2>1, <2>2 DEF PushCall
    <2>3. ASSUME NEW t \in Pushers, PushCheck(t) PROVE FirstSession'
      <3>1. CASE connected
        BY <1>1, <2>1, <2>3, <3>1 DEF PushCheck
      <3>2. CASE ~connected
        BY <2>1, <2>3, <3>2 DEF PushCheck, MayPush
      <3> QED
        BY <3>1, <3>2
    <2>4. ASSUME NEW t \in Pushers, NEW numbered \in BOOLEAN, PushEnqueue(t, numbered)
          PROVE  FirstSession'
      BY <1>3, <2>4 DEF PushEnqueue
    <2>5. ASSUME NEW t \in Closers, Disconnect(t) PROVE FirstSession'
      <3>1. CASE connected
        <4>1. session # 0
          BY <1>1, <2>5, <3>1 DEF Disconnect
        <4> QED
          BY <1>2, <1>3, <2>5, <3>1, <4>1 DEF Disconnect, DisconnectLocked, PushUnderLock
      <3>2. CASE ~connected
        BY <2>1, <2>5, <3>2 DEF Disconnect
      <3> QED
        BY <3>1, <3>2
    <2>6. ASSUME NEW t \in Closers,
                 WaitForStop(t) \/ \E call \in CloseCalls : DisconnectCall(t, call)
          PROVE  FirstSession'
      BY <2>1, <2>6, CloseCallsAssumption DEF WaitForStop, DisconnectCall, DisconnectCalls
    <2>7. ASSUME NEW t \in Pullers,
                 PullPop(t) \/ PullReturn(t) \/ \E call \in Pulling : PullWait(t, call)
          PROVE  FirstSession'
      BY <2>1, <2>7 DEF PullPop, PullReturn, PullWait, Pulling
    <2>8. ASSUME NEW t \in Tuners, NEW interval \in IntervalArgs,
                 SetOurSaInterval(t, interval) \/ SetTheirNaIntervalLimit(t, interval)
          PROVE  FirstSession'
      BY <2>1, <2>8 DEF SetOurSaInterval, SetTheirNaIntervalLimit
    <2>9. ASSUME NEW h \in Holders, IncreaseRefs(h) \/ DecreaseRefs(h) PROVE FirstSession'
      BY <2>1, <2>9 DEF IncreaseRefs, DecreaseRefs
    <2> QED
      BY <1>14, <2>2, <2>3, <2>4, <2>5, <2>6, <2>7, <2>8, <2>9 DEF Calls, PushStep, CloseStep
  <1> QED
    BY <1>4, <1>5, <1>6, <1>7, <1>8, <1>9, <1>10, <1>11, <1>12, <1>13, <1>14
       DEF Next, OwnerStep, Destroyed

\* An object that is connected once never sends a number twice, whoever pushes:
\* user threads, handlers or the keep-alive timer.
THEOREM IdsAreFresh == MaxSessions = 1 => (Spec => []IdsStayFresh)
  <1> SUFFICES ASSUME MaxSessions = 1 PROVE Spec => []IdsStayFresh
    OBVIOUS
  <1>1. Init => FirstSession
    <2> SUFFICES ASSUME Init PROVE FirstSession
      OBVIOUS
    <2>1. /\ send_queue = <<>> /\ send_buffer = 0 /\ send_left = 0 /\ sent_id = 0
          /\ free_request_id = 1 /\ bg = "none" /\ owner = "idle" /\ session = 0
          /\ \A t \in Users : pc[t] # "enqueue"
      BY DEF Init, Unnumbered
    <2> QED
      BY <2>1 DEF FirstSession, IdsStayFresh, Unnumbered
  <1>2. TypeOK /\ LifeCycle /\ FirstSession /\ [Next]_vars => FirstSession'
    BY FirstSessionStep
  <1>3. FirstSession => IdsStayFresh
    BY DEF FirstSession
  <1> QED
    BY <1>1, <1>2, <1>3, LifeCycleInvariant, PTL DEF Spec

-----------------------------------------------------------------------------
(* The end of a graceful disconnection *)

\* Only Send() leads from "send" to the teardown: nobody but the polling thread
\* moves it while it is in its loop.
LEMMA OnlySendEnds ==
    ASSUME [Next]_vars, bg = "send", bg' = "exit" PROVE SendBroken \/ SendBlock
  <1>1. CASE BgPass
    BY <1>1 DEF BgPass, BgPrepare, BgStop, BgLock, ReceiveBroken, ReceiveLength, ReceiveKeepAlive,
       ReceiveRequest, ReceiveNotify, HandlerReturn, BgKeepAlive, BgReadTimer, BgTheyTimedOut,
       BgPassEnd
  <1>2. \A writable \in BOOLEAN : ~BgPoll(writable)
    BY DEF BgPoll
  <1>3. ~BgTeardown
    BY DEF BgTeardown, BgExit, BgNotifyPull, BgCheckRefs, BgNotNeeded, BgClose, BgClearQueue,
       BgMarkUndefined, BgSignalStopped
  <1>4. ~(Calls \/ Handler \/ Environment)
    BY CallsFrame, HandlerFrame, EnvironmentFrame DEF LifeCycleVars
  <1>5. ~(InitializeBegin \/ DestroyBegin \/ OwnerStep)
    BY DEF InitializeBegin, DestroyBegin, OwnerStep, InitializeEnd, SetEvenRequestIdsPart,
       DestroyDisconnect, DestroyWait, DestroyJoin, bgVars
  <1>6. ~UNCHANGED vars
    BY DEF vars, bgVars
  <1> QED
    BY <1>1, <1>2, <1>3, <1>4, <1>5, <1>6 DEF Next, Destroyed

\* As long as the peer is there, Send() ends the polling thread only with the
\* last block of the last request: the queue and the buffer are empty then.
THEOREM GracefulEndIsDrained == Spec => DrainedFirst
  <1>1. ASSUME [Next]_vars, bg = "send", bg' = "exit", peer_open
        PROVE  ~HasSomethingToSend'
    <2>1. SendBlock
      BY <1>1, OnlySendEnds DEF SendBroken
    <2>2. AfterSend # "exit"
      BY DEF AfterSend
    <2>3. Drained /\ send_queue' = SendingRest /\ send_left' = SendingLeft - 1
      BY <1>1, <2>1, <2>2 DEF SendBlock
    <2> QED
      BY <2>3 DEF Drained, HasSomethingToSend
  <1>2. [Next]_vars => [bg = "send" /\ bg' = "exit" /\ peer_open => ~HasSomethingToSend']_vars
    BY <1>1
  <1> QED
    BY <1>2, PTL DEF Spec, DrainedFirst
=============================================================================
