--------------------------- MODULE TcpClientProofs ---------------------------
(***************************************************************************)
(* What TcpClient.tla states of one call after the other through a client, *)
(* proved for every number of calls: the types, the timer that bounds      *)
(* every wait, and the registration that can end it.                       *)
(***************************************************************************)
EXTENDS TcpClient, TLAPS

Open == {"connected", "closed", "reset", "gone"}

(* A connected socket belongs to a connection in state Connected, and      *)
(* nobody waits for a connection that there is.                            *)
SocketInv ==
  /\ m_state # "Connected" => sock \notin Open
  /\ pc \in {"connect_wait", "connect_check"} => m_state # "Connected"

(* The call's timer is still to come, or whoever goes on from a wait       *)
(* finds the flag that it left.                                            *)
DeadlineInv ==
  /\ pc \in {"connect", "retry", "connect_wait", "write_wait"} => HasDeadline
  /\ pc \in {"read", "read_wait"} => HasDeadline \/ (again /\ m_is_over_time)
  /\ pc \in {"write", "write_again", "read_again"} => HasDeadline \/ m_is_over_time
  /\ pc = "connect_check" => HasDeadline \/ (m_is_over_time /\ is_timeout)

IInv == TypeOK /\ SocketInv /\ DeadlineInv /\ WaitListens
-----------------------------------------------------------------------------
(* What connect may return, of a socket that is not connected yet. *)
LEMMA Outcomes ==
  ASSUME sock \in Socket \ Open, NEW o \in ConnectOutcomes
  PROVE  /\ o[1] \in {"ok", "inprogress", "refused", "error"}
         /\ o[2] \in Socket
         /\ o[1] = "ok" <=> o[2] = "connected"
         /\ o[2] \notin Open \ {"connected"}
  BY DEF ConnectOutcomes, Socket, Open

(* A resumed coroutine has left its wait, and goes on from there. *)
LEMMA Resumed ==
  ASSUME Suspended, Resume
  PROVE  \/ pc = "connect_wait" /\ pc' = "connect_check"
         \/ pc = "write_wait"   /\ pc' = "write_again"
         \/ pc = "read_wait"    /\ pc' = "read_again"
         \/ pc = "end"          /\ pc' = "lost"
  BY DEF Suspended, Resume, Waits

(* The requests of the earlier calls, and of this one. *)
LEMMA UpToCall == call \in Calls => 1 .. call \subseteq Calls
  BY CallsAssumption DEF Calls

(* The types. *)
LEMMA TypeStep == TypeOK /\ SocketInv /\ [Next]_vars => TypeOK'
<1> SUFFICES ASSUME TypeOK, SocketInv, [Next]_vars PROVE TypeOK'
  OBVIOUS
<1> USE DEF TypeOK, Pc, Waits, Result, State
<1>1. CASE StartCall
  <2>1. call + 1 \in Calls /\ call + 1 \in Nat
    BY <1>1, CallsAssumption DEF StartCall, Calls
  <2>2. timers' \subseteq Timer
    BY <1>1, <2>1 DEF StartCall, Timer
  <2> QED
    BY <1>1, <2>1, <2>2 DEF StartCall, connVars, fdVars, sockVars, loopVars
<1>2. CASE End
  BY <1>2 DEF End, connVars, fdVars, sockVars, timerVars, loopVars
<1>3. CASE AlreadyConnected
  BY <1>3 DEF AlreadyConnected, AtConnect, connVars, fdVars, sockVars, timerVars, loopVars
<1>4. ASSUME NEW o \in ConnectOutcomes, NEW out \in {"ok", "inprogress", "refused", "error"},
             NEW gone, NEW watched \in BOOLEAN,
             sock \in Socket \ Open, pc # "between",
             pc \notin {"end", "lost"},
             ConnectReturns(out, o[2], gone, watched)
      PROVE  /\ pc' \in {"write", "retry", "between"}
             /\ result' \in [Calls -> Result]
             /\ m_state' \in State /\ m_is_over_time' \in BOOLEAN
             /\ registered' \in BOOLEAN
             /\ sock' \in Socket /\ served' \subseteq Calls /\ inbox' \subseteq Calls \cup {0}
             /\ timers' \subseteq Timer /\ passed' \subseteq Timer
  <2>1. o[2] \in Socket
    BY <1>4, Outcomes
  <2> QED
    BY <1>4, <2>1 DEF ConnectReturns, TimedOut, PeerClosed, Return, NewSocket, Delete, Socket
<1>5. CASE Connect
  <2>1. sock \in Socket \ Open
    BY <1>5 DEF Connect, SocketInv
  <2>2. PICK o \in ConnectOutcomes : ConnectReturns(o[1], o[2], {}, registered)
    BY <1>5 DEF Connect
  <2>3. o[1] \in {"ok", "inprogress", "refused", "error"}
    BY <2>1, Outcomes
  <2>4. pc \in {"connect", "retry"}
    BY <1>5 DEF Connect, AtConnect
  <2>5. registered \in BOOLEAN
    OBVIOUS
  <2>6. pc # "between" /\ pc \notin {"end", "lost"}
    BY <2>4
  <2> HIDE DEF TypeOK
  <2>7. /\ pc' \in {"write", "retry", "between"}
        /\ result' \in [Calls -> Result]
        /\ m_state' \in State /\ m_is_over_time' \in BOOLEAN
        /\ registered' \in BOOLEAN
        /\ sock' \in Socket /\ served' \subseteq Calls /\ inbox' \subseteq Calls \cup {0}
        /\ timers' \subseteq Timer /\ passed' \subseteq Timer
    BY <1>4, <2>1, <2>2, <2>3, <2>5, <2>6, Zenon
  <2> USE DEF TypeOK
  <2> QED
    BY <1>5, <2>4, <2>7 DEF Connect, loopVars
<1>6. CASE ConnectYields
  <2>1. pc \in {"connect", "retry"} /\ call \in Calls
    BY <1>6 DEF ConnectYields, AtConnect
  <2>2. timers' \subseteq Timer
    BY <1>6, <2>1 DEF ConnectYields, ConnTimer, Timer
  <2> QED
    BY <1>6, <2>1, <2>2 DEF ConnectYields, Socket, connVars, loopVars
<1>7. CASE ConnectCheck
  <2>1. sock \in Socket \ Open
    BY <1>7 DEF ConnectCheck, SocketInv
  <2>2. PICK o \in ConnectOutcomes :
          ConnectReturns(IF conn_timeout /\ o[1] # "ok" THEN "error" ELSE o[1],
                         o[2], {ConnTimer}, TRUE)
    BY <1>7 DEF ConnectCheck
  <2>3. o[1] \in {"ok", "inprogress", "refused", "error"}
    BY <2>1, Outcomes
  <2>4. (IF conn_timeout /\ o[1] # "ok" THEN "error" ELSE o[1])
          \in {"ok", "inprogress", "refused", "error"}
    BY <2>3
  <2>5. pc # "between" /\ pc \notin {"end", "lost"}
    BY <1>7 DEF ConnectCheck
  <2> HIDE DEF TypeOK
  <2>6. /\ pc' \in {"write", "retry", "between"}
        /\ result' \in [Calls -> Result]
        /\ m_state' \in State /\ m_is_over_time' \in BOOLEAN
        /\ registered' \in BOOLEAN
        /\ sock' \in Socket /\ served' \subseteq Calls /\ inbox' \subseteq Calls \cup {0}
        /\ timers' \subseteq Timer /\ passed' \subseteq Timer
    <3>1. TRUE \in BOOLEAN
      OBVIOUS
    <3> QED
      BY <1>4, <2>1, <2>2, <2>4, <2>5, <3>1, Zenon
  <2> USE DEF TypeOK
  <2> QED
    BY <1>7, <2>6 DEF ConnectCheck, loopVars
<1>8. CASE SkipWrite
  BY <1>8 DEF SkipWrite, TimedOut, Return, NewSocket, Socket, timerVars, loopVars
<1>9. CASE Write
  <2>1. served' \subseteq Calls
    BY <1>9, UpToCall DEF Write, Sent
  <2> QED
    BY <1>9, <2>1 DEF Write, connVars, fdVars, timerVars, loopVars
<1>10. CASE WriteKills
  BY <1>10 DEF WriteKills, connVars, fdVars, sockVars, timerVars, loopVars
<1>11. CASE WriteYields
  BY <1>11 DEF WriteYields, Reported, Socket, connVars, timerVars, loopVars
<1>12. CASE WriteAgain
  <2>1. served' \subseteq Calls
    BY <1>12, UpToCall DEF WriteAgain, Sent, TimedOut, NewSocket
  <2> QED
    BY <1>12, <2>1 DEF WriteAgain, Reported, TimedOut, Return, NewSocket, Socket,
                       timerVars, loopVars
<1>13. CASE GetReply
  BY <1>13 DEF GetReply, Return, Delete, fdVars, sockVars, loopVars
<1>14. ASSUME NEW state \in State, NEW watched \in BOOLEAN,
              pc \in {"read", "read_again"}, OnReadReturns(Replies, state, watched)
       PROVE  /\ pc' \in {"read", "between"}
              /\ result' \in [Calls -> Result]
              /\ m_state' \in State /\ m_is_over_time' \in BOOLEAN /\ again' \in BOOLEAN
              /\ m_in_buffer' \subseteq Calls /\ m_reply_msg' \subseteq Calls
              /\ registered' \in BOOLEAN
              /\ sock' \in Socket /\ served' \subseteq Calls /\ inbox' \subseteq Calls \cup {0}
  BY <1>14 DEF OnReadReturns, Replies, TimedOut, PeerClosed, Return, NewSocket, Socket
<1>15. ASSUME FillsBuffer \/ ReadFails
       PROVE  /\ pc' = "read"
              /\ result' = result
              /\ m_state' \in State /\ m_is_over_time' \in BOOLEAN /\ again' \in BOOLEAN
              /\ m_in_buffer' \subseteq Calls /\ m_reply_msg' \subseteq Calls
              /\ sock' \in Socket /\ served' \subseteq Calls /\ inbox' \subseteq Calls \cup {0}
  BY <1>15 DEF FillsBuffer, ReadFails, OnReadLoops, Reported, Socket
<1>16. CASE Read
  <2>1. pc = "read" /\ m_state \in State /\ registered \in BOOLEAN
    BY <1>16 DEF Read, AtRead
  <2>2. CASE OnReadReturns(Replies, m_state, registered)
    BY <1>14, <1>16, <2>1, <2>2 DEF Read, timerVars, loopVars
  <2>3. CASE FillsBuffer /\ UNCHANGED registered
    BY <1>15, <1>16, <2>1, <2>3 DEF Read, timerVars, loopVars
  <2> QED
    BY <1>16, <2>2, <2>3 DEF Read
<1>27. CASE ReadYields
  BY <1>27 DEF ReadYields, AtRead, Reported, Socket, connVars, timerVars, loopVars
<1>28. CASE ReadAgain
  <2>1. /\ pc = "read_again" /\ interest' \subseteq {"IN", "OUT"}
        /\ UNCHANGED <<call, is_timeout, conn_timeout, timerVars, loopVars>>
    BY <1>28 DEF ReadAgain
  <2>2. CASE OnReadReturns(Replies, IF AtEnd THEN "Closed" ELSE m_state, TRUE)
    BY <1>14, <2>1, <2>2 DEF timerVars, loopVars
  <2>3. CASE /\ FillsBuffer \/ ReadFails
             /\ registered' = TRUE
    BY <1>15, <2>1, <2>3 DEF timerVars, loopVars
  <2> QED
    BY <1>28, <2>2, <2>3 DEF ReadAgain
<1>17. CASE EpollWait
  BY <1>17 DEF EpollWait, coVars, connVars, sockVars, timerVars
<1>18. CASE RunHandler
  BY <1>18, Resumed DEF RunHandler, connVars, fdVars, sockVars, timerVars
<1>19. CASE OnTimer
  BY <1>19 DEF OnTimer, coVars, connVars, fdVars, sockVars
<1>20. ASSUME NEW c \in Calls, CallTimerCalled(c) PROVE TypeOK'
  BY <1>20, Resumed DEF CallTimerCalled, fdVars, sockVars, timerVars
<1>21. ASSUME NEW c \in Calls, ConnTimerCalled(c) PROVE TypeOK'
  BY <1>21, Resumed DEF ConnTimerCalled, connVars, fdVars, sockVars, timerVars
<1>22. CASE ConnectEnds
  BY <1>22 DEF ConnectEnds, Socket, coVars, connVars, fdVars, timerVars, loopVars
<1>23. CASE Reply
  BY <1>23 DEF Reply, coVars, connVars, fdVars, timerVars, loopVars
<1>24. CASE PeerCloses
  BY <1>24 DEF PeerCloses, Socket, coVars, connVars, fdVars, timerVars, loopVars
<1>25. ASSUME NEW e \in timers, Expire(e) PROVE TypeOK'
  BY <1>25 DEF Expire, coVars, connVars, fdVars, sockVars, loopVars
<1>26. CASE UNCHANGED vars
  BY <1>26 DEF vars, coVars, connVars, fdVars, sockVars, timerVars, loopVars
<1> QED
  BY <1>1, <1>2, <1>3, <1>5, <1>6, <1>7, <1>8, <1>9, <1>10, <1>11, <1>12, <1>13, <1>16,
     <1>17, <1>18, <1>19, <1>20, <1>21, <1>22, <1>23, <1>24, <1>25, <1>26, <1>27, <1>28
     DEF Next, CoroutineStep, LoopStep
-----------------------------------------------------------------------------
(* The socket, its state, and where the coroutine is. *)
LEMMA SocketStep == SocketInv /\ TypeOK /\ [Next]_vars => SocketInv'
<1> SUFFICES ASSUME SocketInv, sock \in Socket, [Next]_vars PROVE SocketInv'
  BY DEF TypeOK
<1> USE DEF SocketInv, Open
<1>1. CASE StartCall \/ End \/ AlreadyConnected
  BY <1>1 DEF StartCall, End, AlreadyConnected, AtConnect, connVars, sockVars
<1>2. CASE Connect
  <2>1. sock \in Socket \ Open
    BY <1>2 DEF Connect
  <2> QED
    BY <1>2, <2>1, Outcomes
       DEF Connect, ConnectReturns, TimedOut, PeerClosed, Return, NewSocket
<1>3. CASE ConnectYields
  BY <1>3 DEF ConnectYields, connVars
<1>4. CASE ConnectCheck
  <2>1. sock \in Socket \ Open
    BY <1>4 DEF ConnectCheck
  <2>2. PICK o \in ConnectOutcomes :
          ConnectReturns(IF conn_timeout /\ o[1] # "ok" THEN "error" ELSE o[1],
                         o[2], {ConnTimer}, TRUE)
    BY <1>4 DEF ConnectCheck
  <2> QED
    BY <2>1, <2>2, Outcomes
       DEF ConnectReturns, TimedOut, PeerClosed, Return, NewSocket
<1>5. CASE SkipWrite \/ Write \/ WriteKills \/ WriteYields \/ WriteAgain
  BY <1>5 DEF SkipWrite, Write, WriteKills, WriteYields, WriteAgain, Reported, TimedOut,
              Return, NewSocket, connVars, sockVars
<1>6. CASE GetReply \/ ReadYields
  BY <1>6 DEF GetReply, ReadYields, Reported, Return, connVars, sockVars
<1>7. CASE Read \/ ReadAgain
  BY <1>7 DEF Read, ReadAgain, AtRead, OnReadReturns, FillsBuffer, ReadFails, OnReadLoops, Reported,
              TimedOut, PeerClosed, Return, NewSocket
<1>8. CASE EpollWait \/ OnTimer
  BY <1>8 DEF EpollWait, OnTimer, coVars, connVars, sockVars
<1>9. CASE RunHandler
  BY <1>9, Resumed DEF RunHandler, connVars, sockVars
<1>10. ASSUME NEW c \in Calls, CallTimerCalled(c) \/ ConnTimerCalled(c) PROVE SocketInv'
  BY <1>10, Resumed DEF CallTimerCalled, ConnTimerCalled, connVars, sockVars
<1>11. CASE ConnectEnds \/ Reply \/ PeerCloses
  BY <1>11 DEF ConnectEnds, Reply, PeerCloses, coVars, connVars
<1>12. ASSUME NEW e \in timers, Expire(e) PROVE SocketInv'
  BY <1>12 DEF Expire, coVars, connVars, sockVars
<1>13. CASE UNCHANGED vars
  BY <1>13 DEF vars, coVars, connVars, sockVars
<1> QED
  BY <1>1, <1>2, <1>3, <1>4, <1>5, <1>6, <1>7, <1>8, <1>9, <1>10, <1>11, <1>12, <1>13
     DEF Next, CoroutineStep, LoopStep

(* The timer of the call. *)
LEMMA DeadlineStep == DeadlineInv /\ TypeOK /\ [Next]_vars => DeadlineInv'
<1> SUFFICES ASSUME DeadlineInv, [Next]_vars PROVE DeadlineInv'
  OBVIOUS
<1> USE DEF DeadlineInv, HasDeadline, CallTimer, Waits
<1>1. CASE StartCall \/ End \/ AlreadyConnected
  BY <1>1 DEF StartCall, End, AlreadyConnected, AtConnect, timerVars, loopVars
<1>2. ASSUME NEW out, NEW socket, NEW gone, NEW watched, gone \subseteq {ConnTimer},
             ConnectReturns(out, socket, gone, watched), due' = due, call' = call,
             HasDeadline \/ (m_is_over_time /\ is_timeout)
      PROVE  DeadlineInv'
  BY <1>2 DEF ConnectReturns, TimedOut, PeerClosed, Return, Delete, ConnTimer
<1>3. CASE Connect
  <2>1. PICK o \in ConnectOutcomes : ConnectReturns(o[1], o[2], {}, registered)
    BY <1>3 DEF Connect
  <2>2. HasDeadline /\ due' = due /\ call' = call
    BY <1>3 DEF Connect, AtConnect, loopVars
  <2> QED
    BY <1>2, <2>1, <2>2
<1>4. CASE ConnectYields
  BY <1>4 DEF ConnectYields, AtConnect, loopVars
<1>5. CASE ConnectCheck
  <2>1. PICK o \in ConnectOutcomes :
          ConnectReturns(IF conn_timeout /\ o[1] # "ok" THEN "error" ELSE o[1],
                         o[2], {ConnTimer}, TRUE)
    BY <1>5 DEF ConnectCheck
  <2>2. (HasDeadline \/ (m_is_over_time /\ is_timeout)) /\ due' = due /\ call' = call
    BY <1>5 DEF ConnectCheck, loopVars
  <2> QED
    BY <1>2, <2>1, <2>2
<1>6. CASE SkipWrite \/ Write \/ WriteKills \/ WriteYields \/ WriteAgain
  BY <1>6 DEF SkipWrite, Write, WriteKills, WriteYields, WriteAgain, TimedOut, Return,
              connVars, timerVars, loopVars
<1>7. CASE GetReply \/ ReadYields
  BY <1>7 DEF GetReply, ReadYields, AtRead, Return, connVars, timerVars, loopVars
<1>8. CASE Read \/ ReadAgain
  BY <1>8 DEF Read, ReadAgain, AtRead, OnReadReturns, FillsBuffer, ReadFails, OnReadLoops, TimedOut,
              PeerClosed, Return, timerVars, loopVars
<1>9. CASE EpollWait \/ OnTimer
  BY <1>9 DEF EpollWait, OnTimer, coVars, connVars, timerVars
<1>10. CASE RunHandler
  BY <1>10, Resumed DEF RunHandler, connVars, timerVars
<1>11. ASSUME NEW c \in Calls, CallTimerCalled(c) PROVE DeadlineInv'
  <2>1. /\ call' = call /\ m_is_over_time' /\ again' = again
        /\ c # call /\ HasDeadline => HasDeadline'
        /\ c = call => is_timeout'
    BY <1>11 DEF CallTimerCalled, timerVars
  <2> QED
    BY <1>11, <2>1, Resumed DEF CallTimerCalled
<1>12. ASSUME NEW c \in Calls, ConnTimerCalled(c) PROVE DeadlineInv'
  <2>1. HasDeadline => HasDeadline'
    BY <1>12 DEF ConnTimerCalled, timerVars
  <2> QED
    BY <1>12, <2>1, Resumed DEF ConnTimerCalled, connVars
<1>13. CASE ConnectEnds \/ Reply \/ PeerCloses
  BY <1>13 DEF ConnectEnds, Reply, PeerCloses, coVars, connVars, timerVars, loopVars
<1>14. ASSUME NEW e \in timers, Expire(e) PROVE DeadlineInv'
  BY <1>14 DEF Expire, coVars, connVars, loopVars
<1>15. CASE UNCHANGED vars
  BY <1>15 DEF vars, coVars, connVars, timerVars, loopVars
<1> QED
  BY <1>1, <1>3, <1>4, <1>5, <1>6, <1>7, <1>8, <1>9, <1>10, <1>11, <1>12, <1>13, <1>14,
     <1>15 DEF Next, CoroutineStep, LoopStep

(* What a suspended coroutine waits for is listened for. *)
LEMMA ListenStep == WaitListens /\ TypeOK /\ [Next]_vars => WaitListens'
<1> SUFFICES ASSUME WaitListens, TypeOK, [Next]_vars PROVE WaitListens'
  OBVIOUS
<1> USE DEF WaitListens, Waits
<1>1. CASE StartCall \/ End \/ AlreadyConnected
  BY <1>1 DEF StartCall, End, AlreadyConnected
<1>2. ASSUME NEW out, NEW socket, NEW gone, NEW watched,
             ConnectReturns(out, socket, gone, watched)
      PROVE  WaitListens'
  BY <1>2 DEF ConnectReturns, TimedOut, PeerClosed, Return
<1>3. CASE Connect \/ ConnectCheck
  BY <1>2, <1>3 DEF Connect, ConnectCheck
<1>4. CASE ConnectYields \/ WriteYields \/ ReadYields
  BY <1>4 DEF ConnectYields, WriteYields, ReadYields
<1>5. CASE SkipWrite \/ Write \/ WriteKills \/ WriteAgain \/ GetReply
  BY <1>5 DEF SkipWrite, Write, WriteKills, WriteAgain, GetReply, TimedOut, Return
<1>6. CASE Read \/ ReadAgain
  BY <1>6 DEF Read, ReadAgain, OnReadReturns, FillsBuffer, ReadFails, OnReadLoops, TimedOut,
              PeerClosed, Return
<1>7. CASE EpollWait
  <2>1. CASE sock \in {"refused", "reset"}
    BY <1>7, <2>1 DEF EpollWait, FdReady, Readable, Writable, coVars
  <2>2. CASE sock \notin {"refused", "reset"}
    BY <1>7, <2>2 DEF EpollWait, coVars
  <2> QED
    BY <2>1, <2>2
<1>8. CASE RunHandler
  BY <1>8, Resumed DEF RunHandler
<1>9. CASE OnTimer
  BY <1>9 DEF OnTimer, coVars, fdVars
<1>10. ASSUME NEW c \in Calls, CallTimerCalled(c) \/ ConnTimerCalled(c) PROVE WaitListens'
  BY <1>10, Resumed DEF CallTimerCalled, ConnTimerCalled
<1>11. CASE ConnectEnds \/ Reply \/ PeerCloses
  BY <1>11 DEF ConnectEnds, Reply, PeerCloses, coVars, fdVars, loopVars
<1>12. ASSUME NEW e \in timers, Expire(e) PROVE WaitListens'
  BY <1>12 DEF Expire, coVars, fdVars, loopVars
<1>13. CASE UNCHANGED vars
  BY <1>13 DEF vars, coVars, fdVars, loopVars
<1> QED
  BY <1>1, <1>3, <1>4, <1>5, <1>6, <1>7, <1>8, <1>9, <1>10, <1>11, <1>12, <1>13
     DEF Next, CoroutineStep, LoopStep
-----------------------------------------------------------------------------
(* Why a timeout has a cause.  The timer of a call that has returned is    *)
(* still there only if a call up to that one found its peer closed         *)
(* (Stale); a call whose timer is still to come is flagged only by such a  *)
(* timer (Flagged).                                                        *)
CallT(c) == <<"call", c>>
ConnT(c) == <<"conn", c>>
Pending     == timers \cup passed
InCall      == pc \notin {"between", "end", "lost"}
Running     == InCall /\ pc \notin Waits
Returned(c) == c < call \/ (c = call /\ ~InCall)
Closed(c)   == \E d \in 1 .. c : result[d] = "closed"

(* The timer of a call is in one place, and not before the call. *)
Once ==
  /\ call \in 0 .. MaxCalls
  /\ \A c \in Calls :
       /\ CallT(c) \in Pending \cup due => c <= call
       /\ CallT(c) \in due => CallT(c) \notin Pending
       /\ CallT(c) \notin timers \cap passed

Results == \A c \in Calls : result[c] # "none" => Returned(c)

Stale == \A c \in Calls : CallT(c) \in Pending \cup due /\ Returned(c) => Closed(c)

(* connect_hook's timer is in the queue while it waits, and due after the  *)
(* timers of its own call and of those before.                             *)
Connecting ==
  \A d \in Calls :
    /\ ConnT(d) \in Pending => d = call /\ pc \in {"connect_wait", "connect_check"}
    /\ \A c \in Calls : ConnT(d) \in due /\ CallT(c) \in due => c <= d

Flagged ==
  /\ Running /\ CallTimer \in due => Closed(call - 1)
  /\ InCall /\ (m_is_over_time \/ is_timeout) /\ CallTimer \in Pending => Closed(call - 1)
  /\ pc = "read" /\ ~again => ~m_is_over_time
  /\ pc = "between" /\ m_is_over_time => Closed(call)

CauseInv == Once /\ Results /\ Stale /\ Connecting /\ Flagged
-----------------------------------------------------------------------------
(* The kinds of steps, as far as CauseInv can tell them apart.             *)
Stays ==
  UNCHANGED <<pc, call, is_timeout, m_is_over_time, again, result, timers, passed, due>>

(* The coroutine goes on in its call. *)
Goes ==
  /\ Running /\ InCall'
  /\ pc' # "connect_check" /\ (pc' = "read" /\ ~again' => ~m_is_over_time)
  /\ UNCHANGED <<call, is_timeout, m_is_over_time, result, due>>
  /\ \/ pc' = "connect_wait" /\ timers' = timers \cup {ConnTimer} /\ passed' = passed
     \/ pc = "connect_check" /\ Delete({ConnTimer})
     \/ pc # "connect_check" /\ pc' # "connect_wait" /\ UNCHANGED timerVars

(* The call returns; what has led to this outcome. *)
Ends ==
  /\ Running
  /\ \E gone \in SUBSET {CallTimer, ConnTimer}, res \in Result \ {"none"} :
       /\ Return(res) /\ Delete(gone)
       /\ pc = "connect_check" => ConnTimer \in gone
       /\ res = "timeout" => (m_is_over_time \/ is_timeout) /\ ~m_is_over_time'
       /\ res = "closed" => UNCHANGED m_is_over_time
       /\ res = "ok" => /\ CallTimer \in gone /\ pc = "read" /\ ~again
                         /\ UNCHANGED m_is_over_time
  /\ UNCHANGED <<call, is_timeout, due>>

(* The loop resumes the coroutine; what it had of due is gone. *)
Resumes ==
  /\ Suspended /\ Resume
  /\ UNCHANGED <<call, result, timers, passed>>
  /\ \/ due = {} /\ UNCHANGED <<due, is_timeout, m_is_over_time>>
     \/ \E c \in Calls :
          /\ First(due, CallT(c)) /\ due' = due \ {CallT(c)}
     \/ \E c \in Calls :
          /\ First(due, ConnT(c)) /\ due' = due \ {ConnT(c)}
          /\ UNCHANGED <<is_timeout, m_is_over_time>>

LEMMA ConnectKind ==
  ASSUME TypeOK, pc \in {"connect", "retry", "connect_check"},
         NEW out, NEW socket, NEW gone, NEW watched,
         gone \subseteq {ConnTimer}, pc = "connect_check" <=> gone = {ConnTimer},
         ConnectReturns(out, socket, gone, watched),
         UNCHANGED <<call, is_timeout, due>>
  PROVE  Goes \/ Ends
<1> USE DEF Result, Running, InCall, Waits
<1>1. ASSUME is_timeout, TimedOut, Delete(gone) PROVE Ends
  BY <1>1 DEF Ends, TimedOut
<1>2. ASSUME PeerClosed, Delete(gone \cup {CallTimer}) PROVE Ends
  BY <1>2 DEF Ends, PeerClosed
<1>3. ASSUME pc' \in {"write", "retry"}, Delete(gone), UNCHANGED <<result, m_is_over_time>>
      PROVE  Goes
  <2>1. CASE pc = "connect_check"
    BY <1>3, <2>1 DEF Goes
  <2>2. CASE pc # "connect_check"
    <3>1. gone = {}
      BY <2>2
    <3>2. UNCHANGED timerVars
      BY <1>3, <3>1 DEF Delete, timerVars
    <3> QED
      BY <1>3, <2>2, <3>2 DEF Goes
  <2> QED
    BY <2>1, <2>2
<1> QED
  BY <1>1, <1>2, <1>3 DEF ConnectReturns

LEMMA Kinds ==
  ASSUME TypeOK, [Next]_vars
  PROVE  \/ Stays \/ StartCall \/ End \/ Goes \/ Ends
         \/ Resumes \/ OnTimer \/ \E e \in timers : Expire(e)
<1> USE DEF Running, InCall, Waits
<1>1. CASE AlreadyConnected
  BY <1>1 DEF AlreadyConnected, AtConnect, Goes, connVars, timerVars, loopVars
<1>2. CASE Connect
  BY <1>2, ConnectKind DEF Connect, AtConnect, loopVars
<1>3. CASE ConnectYields
  BY <1>3 DEF ConnectYields, AtConnect, Goes, connVars, loopVars
<1>4. CASE ConnectCheck
  BY <1>4, ConnectKind DEF ConnectCheck, loopVars
<1>5. ASSUME pc \in {"write", "write_again", "read", "read_again"},
             m_is_over_time, TimedOut, UNCHANGED <<call, is_timeout, timerVars, due>>
      PROVE  Ends
  <2>1. Delete({})
    BY <1>5 DEF Delete, timerVars
  <2>2. Running /\ Return("timeout") /\ ~m_is_over_time' /\ pc # "connect_check"
    BY <1>5 DEF TimedOut
  <2>3. /\ {} \in SUBSET {CallTimer, ConnTimer} /\ "timeout" \in Result \ {"none"}
        /\ "timeout" # "closed" /\ "timeout" # "ok"
    BY DEF Result
  <2>4. \E gone \in SUBSET {CallTimer, ConnTimer}, res \in Result \ {"none"} :
          /\ Return(res) /\ Delete(gone)
          /\ pc = "connect_check" => ConnTimer \in gone
          /\ res = "timeout" => (m_is_over_time \/ is_timeout) /\ ~m_is_over_time'
          /\ res = "closed" => UNCHANGED m_is_over_time
          /\ res = "ok" => /\ CallTimer \in gone /\ pc = "read" /\ ~again
                            /\ UNCHANGED m_is_over_time
    BY <1>5, <2>1, <2>2, <2>3, Zenon
  <2> QED
    BY <1>5, <2>2, <2>4 DEF Ends
<1>6. ASSUME pc \in {"read", "read_again"}, PeerClosed,
             UNCHANGED <<call, is_timeout, timerVars, due>>
      PROVE  Ends
  <2>1. Delete({})
    BY <1>6 DEF Delete, timerVars
  <2> QED
    BY <1>6, <2>1 DEF Ends, PeerClosed, Result
<1>7. CASE SkipWrite
  BY <1>5, <1>7 DEF SkipWrite, loopVars
<1>8. CASE Write \/ WriteKills \/ WriteYields
  BY <1>8 DEF Write, WriteKills, WriteYields, Goes, connVars, timerVars, loopVars
<1>9. CASE WriteAgain
  BY <1>5, <1>9 DEF WriteAgain, Reported, Goes, timerVars, loopVars
<1>10. CASE GetReply
  BY <1>10 DEF GetReply, Ends, Result, loopVars
<1>11. CASE ReadYields
  BY <1>11 DEF ReadYields, AtRead, Goes, connVars, timerVars, loopVars
<1>12. CASE Read \/ ReadAgain
  BY <1>5, <1>6, <1>12 DEF Read, ReadAgain, ReadFails, AtRead, OnReadReturns, FillsBuffer,
                           OnReadLoops, Goes, timerVars, loopVars
<1>13. CASE EpollWait
  BY <1>13 DEF EpollWait, Stays, coVars, connVars, timerVars
<1>14. CASE RunHandler
  BY <1>14 DEF RunHandler, Resumes, connVars, timerVars
<1>15. ASSUME NEW c \in Calls, CallTimerCalled(c) \/ ConnTimerCalled(c) PROVE Resumes
  BY <1>15 DEF CallTimerCalled, ConnTimerCalled, Resumes, CallT, ConnT, connVars, timerVars
<1>16. CASE ConnectEnds \/ Reply \/ PeerCloses
  BY <1>16 DEF ConnectEnds, Reply, PeerCloses, Stays, coVars, connVars, timerVars, loopVars
<1>17. CASE UNCHANGED vars
  BY <1>17 DEF vars, Stays, coVars, connVars, timerVars, loopVars
<1> QED
  BY <1>1, <1>2, <1>3, <1>4, <1>7, <1>8, <1>9, <1>10, <1>11, <1>12, <1>13, <1>14, <1>15,
     <1>16, <1>17 DEF Next, CoroutineStep, LoopStep
-----------------------------------------------------------------------------
(* CauseInv, one kind of step after the other. *)
LEMMA TimersDiffer ==
  \A c, d : /\ CallT(c) # ConnT(d)
            /\ CallT(c) = CallT(d) => c = d
            /\ ConnT(c) = ConnT(d) => c = d
  BY DEF CallT, ConnT

LEMMA OwnTimers == CallTimer = CallT(call) /\ ConnTimer = ConnT(call)
  BY DEF CallTimer, ConnTimer, CallT, ConnT

LEMMA StartCause ==
  ASSUME TypeOK, CauseInv, StartCall
  PROVE  CauseInv'
<1> USE DEF CauseInv
<1>1. /\ call \in Nat /\ MaxCalls \in Nat /\ call < MaxCalls /\ call' = call + 1
      /\ pc = "between" /\ pc' = "connect" /\ ~is_timeout'
      /\ UNCHANGED <<result, m_is_over_time, passed, due>>
      /\ timers' = timers \cup {CallT(call + 1)}
  BY CallsAssumption DEF StartCall, TypeOK, connVars, loopVars, CallT
<1>2. CallT(call + 1) \notin Pending \cup due /\ call + 1 \in Calls
  BY <1>1 DEF Once, Calls
<1>3. Once'
  BY <1>1, <1>2, TimersDiffer DEF Once, Pending, Calls, CallT
<1>4. Results'
  BY <1>1 DEF Results, Returned, InCall, Calls
<1>5. Stale'
  <2> SUFFICES ASSUME NEW c \in Calls, CallT(c) \in (Pending \cup due)', Returned(c)'
               PROVE  Closed(c)'
    BY DEF Stale, CallT
  <2>1. c < call + 1
    BY <1>1 DEF Returned, InCall
  <2>2. Returned(c) /\ c # call + 1
    BY <1>1, <2>1 DEF Returned, InCall, Calls
  <2>3. CallT(c) \in Pending \cup due
    BY <1>1, <2>2, TimersDiffer DEF Pending
  <2> QED
    BY <1>1, <2>2, <2>3 DEF Stale, Closed
<1>6. Connecting'
  <2>1. \A d \in Calls : ConnT(d) \notin Pending'
    BY <1>1, TimersDiffer DEF Connecting, Pending
  <2> QED
    BY <1>1, <2>1, TimersDiffer DEF Connecting, ConnT, CallT
<1>7. Flagged'
  <2>1. CallTimer' = CallT(call + 1)
    BY <1>1 DEF CallTimer, CallT
  <2>2. m_is_over_time => Closed(call)
    BY <1>1 DEF Flagged
  <2>3. Closed(call) => Closed(call - 1)'
    BY <1>1 DEF Closed
  <2> QED
    BY <1>1, <1>2, <2>1, <2>2, <2>3 DEF Flagged, InCall, Running
<1> QED
  BY <1>3, <1>4, <1>5, <1>6, <1>7

(* A step that changes neither timers nor results. *)
LEMMA GoesCause ==
  ASSUME TypeOK, CauseInv, Goes
  PROVE  CauseInv'
<1> USE DEF CauseInv
<1>1. /\ Running /\ InCall /\ InCall' /\ call' = call
      /\ pc' # "between" /\ (pc' = "read" /\ ~again' => ~m_is_over_time)
      /\ UNCHANGED <<call, is_timeout, m_is_over_time, result, due>>
  BY DEF Goes, Running, InCall
<1>2. \A c \in Calls : /\ CallT(c) \in timers' <=> CallT(c) \in timers
                       /\ CallT(c) \in passed' <=> CallT(c) \in passed
  BY TimersDiffer, OwnTimers DEF Goes, Delete, timerVars
<1>3. \A c : Closed(c)' <=> Closed(c)
  BY <1>1 DEF Closed
<1>4. call \in Calls
  BY <1>1 DEF TypeOK, InCall
<1>5. Once'
  BY <1>1, <1>2 DEF Once, Pending, CallT
<1>6. Results' /\ Stale'
  BY <1>1, <1>2, <1>3 DEF Results, Stale, Returned, Pending, CallT
<1>7. Connecting'
  <2>1. ASSUME NEW d \in Calls, ConnT(d) \in Pending'
        PROVE  d = call /\ pc' = "connect_wait"
    BY <1>1, <2>1, TimersDiffer, OwnTimers
       DEF Goes, Delete, timerVars, Pending, Connecting, Waits, Running
  <2> QED
    BY <1>1, <2>1 DEF Connecting, CallT, ConnT
<1>8. Flagged'
  <2>1. CallTimer' = CallTimer /\ CallTimer = CallT(call)
    BY <1>1, OwnTimers DEF CallTimer
  <2>2. CallTimer \in Pending' <=> CallTimer \in Pending
    BY <1>2, <1>4, <2>1 DEF Pending
  <2>3. Closed(call - 1)' <=> Closed(call - 1)
    BY <1>1 DEF Closed
  <2> QED
    BY <1>1, <2>1, <2>2, <2>3 DEF Flagged
<1> QED
  BY <1>5, <1>6, <1>7, <1>8

LEMMA EndsCause ==
  ASSUME TypeOK, CauseInv, Ends
  PROVE  CauseInv'
<1> USE DEF CauseInv
<1>1. /\ Running /\ InCall /\ ~InCall' /\ call' = call /\ pc' = "between"
      /\ UNCHANGED <<call, is_timeout, due>>
  BY DEF Ends, Return, Running, InCall
<1>2. PICK gone \in SUBSET {CallTimer, ConnTimer}, res \in Result \ {"none"} :
        /\ Return(res) /\ Delete(gone)
        /\ pc = "connect_check" => ConnTimer \in gone
        /\ res = "timeout" => (m_is_over_time \/ is_timeout) /\ ~m_is_over_time'
        /\ res = "closed" => UNCHANGED m_is_over_time
        /\ res = "ok" => /\ CallTimer \in gone /\ pc = "read" /\ ~again
                          /\ UNCHANGED m_is_over_time
  BY DEF Ends
<1>3. call \in Calls /\ call \in 1 .. MaxCalls
  BY <1>1 DEF TypeOK, InCall, Calls
<1>4. /\ timers' \subseteq timers /\ passed' \subseteq passed /\ Pending' \subseteq Pending
      /\ CallTimer \in gone => CallTimer \notin Pending'
      /\ pc = "connect_check" => ConnTimer \notin Pending'
  BY <1>2 DEF Delete, Pending
<1>5. result[call] = "none"
  BY <1>1, <1>3 DEF Results, Returned
<1>6. result' = [result EXCEPT ![call] = res] /\ result \in [Calls -> Result]
  BY <1>2 DEF Return, TypeOK
<1>7. ASSUME NEW c \in 0 .. MaxCalls, Closed(c) PROVE Closed(c)'
  <2>1. PICK d \in 1 .. c : result[d] = "closed"
    BY <1>7 DEF Closed
  <2>2. d # call /\ d \in Calls
    BY <1>5, <2>1, CallsAssumption DEF Calls
  <2> QED
    BY <1>6, <2>1, <2>2 DEF Closed
<1>8. res = "closed" => Closed(call)'
  <2>1. res = "closed" => result'[call] = "closed"
    BY <1>3, <1>6
  <2> QED
    BY <1>1, <1>3, <2>1 DEF Closed
<1>9. CallTimer \in Pending' \cup due => Closed(call)'
  <2>1. CASE res = "closed"
    BY <1>8, <2>1
  <2>2. CASE res # "closed"
    <3>1. Closed(call - 1) => Closed(call)'
      <4>1. Closed(call - 1) => Closed(call)
        BY <1>3 DEF Closed
      <4>2. call \in 0 .. MaxCalls
        BY <1>3, CallsAssumption
      <4>3. Closed(call) => Closed(call)'
        BY <1>1, <1>7, <4>2 DEF Closed
      <4> QED
        BY <4>1, <4>3
    <3>2. CallTimer \in due => Closed(call - 1)
      BY <1>1 DEF Flagged
    <3>3. CallTimer \in Pending' => Closed(call - 1)
      <4>1. CallTimer \in Pending' => res = "timeout" /\ CallTimer \in Pending
        BY <1>2, <1>4, <2>2 DEF Result
      <4> QED
        BY <1>1, <1>2, <4>1 DEF Flagged
    <3> QED
      BY <3>1, <3>2, <3>3
  <2> QED
    BY <2>1, <2>2
<1>10. Once'
  BY <1>1, <1>4 DEF Once, CallT, Pending
<1>11. Results'
  BY <1>1, <1>3, <1>6 DEF Results, Returned, Calls
<1>12. Stale'
  <2> SUFFICES ASSUME NEW c \in Calls, CallT(c) \in (Pending \cup due)', Returned(c)'
               PROVE  Closed(c)'
    BY DEF Stale, CallT
  <2>1. CASE c = call
    BY <1>1, <1>9, <2>1, OwnTimers
  <2>2. CASE c # call
    <3>1. Returned(c) /\ CallT(c) \in Pending \cup due
      BY <1>1, <1>4, <2>2 DEF Returned
    <3>2. c \in 0 .. MaxCalls
      BY CallsAssumption DEF Calls
    <3> QED
      BY <1>7, <3>1, <3>2 DEF Stale
  <2> QED
    BY <2>1, <2>2
<1>13. Connecting'
  <2>1. ASSUME NEW d \in Calls PROVE ConnT(d) \notin Pending'
    BY <1>1, <1>4, OwnTimers DEF Connecting, Running, Waits
  <2> QED
    BY <1>1, <2>1 DEF Connecting, ConnT, CallT
<1>14. Flagged'
  <2>1. m_is_over_time' => Closed(call)'
    <3>1. CASE res = "timeout"
      BY <1>2, <3>1
    <3>2. CASE res = "closed"
      BY <1>8, <3>2
    <3>3. CASE res = "ok"
      BY <1>2, <3>3 DEF Flagged
    <3> QED
      BY <3>1, <3>2, <3>3 DEF Result
  <2>2. Flagged' <=> (m_is_over_time' => Closed(call)')
    BY <1>1 DEF Flagged, Running
  <2> QED
    BY <2>1, <2>2
<1> QED
  BY <1>10, <1>11, <1>12, <1>13, <1>14

LEMMA ResumesCause ==
  ASSUME TypeOK, CauseInv, Resumes
  PROVE  CauseInv'
<1> USE DEF CauseInv
<1>1. /\ \/ pc \in Waits /\ pc' \in {"connect_check", "write_again", "read_again"}
         \/ pc = "end" /\ pc' = "lost"
      /\ pc' = "connect_check" <=> pc = "connect_wait"
      /\ UNCHANGED <<call, result, timers, passed>>
      /\ due' \subseteq due
  BY Resumed DEF Resumes, Waits
<1>2. /\ InCall' <=> InCall
      /\ InCall' <=> Running'
      /\ InCall' => call \in Calls
      /\ pc' \notin {"read", "between"} /\ pc # "connect_check"
  BY <1>1 DEF InCall, Running, Waits, TypeOK
<1>3. \A c : /\ Closed(c)' <=> Closed(c)
             /\ Returned(c)' <=> Returned(c)
  BY <1>1, <1>2 DEF Closed, Returned
<1>4. Pending' = Pending /\ CallTimer' = CallTimer
  BY <1>1 DEF Pending, CallTimer
<1>5. Once' /\ Results' /\ Stale'
  BY <1>1, <1>3, <1>4 DEF Once, Results, Stale, CallT
<1>6. Connecting'
  BY <1>1, <1>2, <1>4 DEF Connecting, CallT, ConnT
<1>7. Closed(call - 1)' <=> Closed(call - 1)
  BY <1>1 DEF Closed
<1>8. ASSUME due = {}, UNCHANGED <<due, is_timeout, m_is_over_time>> PROVE Flagged'
  BY <1>2, <1>4, <1>7, <1>8 DEF Flagged
<1>9. ASSUME NEW c \in Calls, CallT(c) \in due, CallTimer \in Pending' \cup due', InCall',
             due' = due \ {CallT(c)}
      PROVE  Closed(call - 1)
  <2>1. c < call
    <3>1. c <= call /\ (CallT(c) \notin Pending) /\ call \in Calls
      BY <1>2, <1>9 DEF Once
    <3>2. c # call
      BY <1>4, <1>9, <3>1, OwnTimers
    <3> QED
      BY <3>1, <3>2 DEF Calls
  <2>2. Closed(c)
    BY <1>9, <2>1 DEF Stale, Returned
  <2> QED
    BY <1>2, <1>9, <2>1, <2>2 DEF Closed, Calls
<1>10. ASSUME NEW c \in Calls, First(due, CallT(c)), due' = due \ {CallT(c)}
       PROVE  Flagged'
  <2>1. CallT(c) \in due
    BY <1>10 DEF First
  <2>2. CallTimer \in Pending' \cup due' /\ InCall' => Closed(call - 1)
    BY <1>9, <1>10, <2>1
  <2> QED
    BY <1>2, <1>4, <1>7, <2>2 DEF Flagged
<1>11. ASSUME NEW d \in Calls, First(due, ConnT(d)), due' = due \ {ConnT(d)},
              UNCHANGED <<is_timeout, m_is_over_time>>
       PROVE  Flagged'
  <2>1. InCall' => CallTimer \notin due
    <3> SUFFICES ASSUME InCall', CallT(call) \in due PROVE FALSE
      BY OwnTimers
    <3>1. call \in Calls /\ call <= d
      BY <1>2, <1>11 DEF Connecting, First
    <3>2. Earlier(CallT(call), ConnT(d))
      BY <3>1 DEF Earlier, CallT, ConnT, Calls
    <3> QED
      BY <1>11, <3>2 DEF First
  <2> QED
    BY <1>1, <1>2, <1>4, <1>7, <1>11, <2>1 DEF Flagged
<1>12. Flagged'
  BY <1>8, <1>10, <1>11 DEF Resumes
<1> QED
  BY <1>5, <1>6, <1>12

LEMMA OnTimerCause ==
  ASSUME TypeOK, CauseInv, OnTimer
  PROVE  CauseInv'
<1> USE DEF CauseInv
<1>1. /\ pc \in Waits \cup {"end"} /\ due = {} /\ due' = passed /\ passed' = {}
      /\ UNCHANGED <<pc, call, is_timeout, m_is_over_time, again, result, timers>>
  BY DEF OnTimer, Suspended, coVars, connVars
<1>2. \A c : /\ Closed(c)' <=> Closed(c)
             /\ Returned(c)' <=> Returned(c)
  BY <1>1 DEF Closed, Returned, InCall
<1>3. Pending' = timers /\ Pending = timers \cup passed /\ CallTimer' = CallTimer
  BY <1>1 DEF Pending, CallTimer
<1>4. Once' /\ Results' /\ Stale'
  BY <1>1, <1>2, <1>3 DEF Once, Results, Stale, CallT
<1>5. Connecting'
  BY <1>1, <1>3 DEF Connecting, Once, CallT, ConnT
<1>6. Flagged'
  <2>1. ~Running' /\ (InCall' <=> InCall) /\ pc' \notin {"read", "between"}
    BY <1>1 DEF Running, InCall, Waits
  <2>2. Closed(call - 1)' <=> Closed(call - 1)
    BY <1>1 DEF Closed
  <2> QED
    BY <1>1, <1>3, <2>1, <2>2 DEF Flagged
<1> QED
  BY <1>4, <1>5, <1>6

(* Time passes, the client ends, or nothing happens that matters. *)
LEMMA OtherCause ==
  ASSUME TypeOK, CauseInv, Stays \/ End \/ \E e \in timers : Expire(e)
  PROVE  CauseInv'
<1> USE DEF CauseInv
<1>1. /\ pc' = pc \/ (pc = "between" /\ pc' = "end")
      /\ UNCHANGED <<call, is_timeout, m_is_over_time, again, result, due>>
      /\ Pending' = Pending
      /\ \A e : e \in timers' \cap passed' => e \in timers \cap passed
  <2>1. CASE Stays
    BY <2>1 DEF Stays, Pending
  <2>2. CASE End
    BY <2>2 DEF End, connVars, timerVars, loopVars, Pending
  <2>3. ASSUME NEW e \in timers, Expire(e)
        PROVE  /\ UNCHANGED <<pc, call, is_timeout, m_is_over_time, again, result, due>>
               /\ Pending' = Pending
               /\ timers' \cap passed' \subseteq timers \cap passed
    BY <2>3 DEF Expire, coVars, connVars, loopVars, Pending
  <2> QED
    BY <2>1, <2>2, <2>3
<1>2. /\ InCall' <=> InCall
      /\ Running' <=> Running
      /\ pc' \in {"read", "between", "connect_wait", "connect_check"} => pc' = pc
      /\ pc \in {"connect_wait", "connect_check"} => pc' = pc
  BY <1>1 DEF InCall, Running, Waits
<1>3. \A c : /\ Closed(c)' <=> Closed(c)
             /\ Returned(c)' <=> Returned(c)
  BY <1>1, <1>2 DEF Closed, Returned
<1>4. Once' /\ Results' /\ Stale'
  BY <1>1, <1>3 DEF Once, Results, Stale, CallT
<1>5. Connecting'
  BY <1>1, <1>2 DEF Connecting, CallT, ConnT
<1>6. Flagged'
  <2>1. /\ CallTimer' = CallTimer
        /\ Closed(call - 1)' <=> Closed(call - 1)
        /\ Closed(call)' <=> Closed(call)
    BY <1>1 DEF CallTimer, Closed
  <2> QED
    BY <1>1, <1>2, <2>1 DEF Flagged
<1> QED
  BY <1>4, <1>5, <1>6

LEMMA CauseStep == TypeOK /\ CauseInv /\ [Next]_vars => CauseInv'
  BY Kinds, StartCause, GoesCause, EndsCause, ResumesCause, OnTimerCause, OtherCause
-----------------------------------------------------------------------------
(* The client's invariants hold in every state. *)
THEOREM Invariant == Spec => []IInv
<1>1. Init => IInv
  <2> SUFFICES ASSUME Init PROVE IInv
    OBVIOUS
  <2>1. result \in [Calls -> Result]
    BY DEF Init, Result
  <2>2. TypeOK
    BY <2>1 DEF Init, TypeOK, Pc, State, Socket
  <2>3. SocketInv /\ DeadlineInv /\ WaitListens
    BY DEF Init, SocketInv, Open, DeadlineInv, WaitListens, Waits
  <2> QED
    BY <2>2, <2>3 DEF IInv
<1>2. IInv /\ [Next]_vars => IInv'
  BY TypeStep, SocketStep, DeadlineStep, ListenStep DEF IInv
<1> QED
  BY <1>1, <1>2, PTL DEF Spec

(* Every variable keeps its type, for every number of calls. *)
THEOREM TypeCorrect == Spec => []TypeOK
<1>1. IInv => TypeOK
  BY DEF IInv
<1> QED
  BY <1>1, Invariant, PTL

(* No call waits for connect, write or read beyond its own timer of 10 s,  *)
(* whatever timers and handlers of earlier calls resume its coroutine, but *)
(* for a read that goes round again with the flag of that timer set.       *)
THEOREM BoundedWait == Spec => []WaitHasDeadline
<1>1. IInv => WaitHasDeadline
  BY DEF IInv, DeadlineInv, WaitHasDeadline, Waits
<1> QED
  BY <1>1, Invariant, PTL

(* No coroutine waits for an event that epoll does not watch for.          *)
THEOREM ListenedWait == Spec => []WaitListens
<1>1. IInv => WaitListens
  BY DEF IInv
<1> QED
  BY <1>1, Invariant, PTL

(* A call times out before its own 10 s have passed only after a call      *)
(* whose peer had closed: the one path that leaves its timer in the queue. *)
THEOREM TimeoutCaused == Spec => []TimeoutHasCause
<1>1. Init => CauseInv
  <2> SUFFICES ASSUME Init PROVE CauseInv
    OBVIOUS
  <2>1. /\ pc = "between" /\ call = 0 /\ ~m_is_over_time /\ ~InCall /\ ~Running
        /\ Pending = {} /\ due = {} /\ \A c \in Calls : result[c] = "none"
    BY DEF Init, InCall, Running, Pending
  <2>2. Once /\ Results
    BY <2>1, CallsAssumption DEF Init, Once, Results, Pending
  <2>3. Stale /\ Connecting /\ Flagged
    BY <2>1 DEF Stale, Connecting, Flagged
  <2> QED
    BY <2>2, <2>3 DEF CauseInv
<1>2. IInv => TypeOK
  BY DEF IInv
<1>3. TypeOK /\ CauseInv => TimeoutHasCause
  <2> SUFFICES ASSUME CauseInv, NEW c \in Calls, result[c] = "timeout", CallT(c) \in Pending
               PROVE  \E d \in 1 .. c - 1 : result[d] = "closed"
    BY DEF TimeoutHasCause, CallT, Pending
  <2>1. PICK d \in 1 .. c : result[d] = "closed"
    BY DEF CauseInv, Results, Stale, Closed
  <2> QED
    BY <2>1 DEF Calls
<1> QED
  BY <1>1, <1>2, <1>3, CauseStep, Invariant, PTL DEF Spec
=============================================================================
