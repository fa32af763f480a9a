------------------------------ MODULE TcpClient ------------------------------
(***************************************************************************)
(* rocket::TcpClient::sendAndRecvTinyPb (rocket/net/tcp/tcp_client.cpp)    *)
(* with the client's side of TcpConnection and the hooks of connect, read  *)
(* and write (rocket/coroutine/coroutine_hook.cpp): a coroutine makes one  *)
(* call after the other through one client, suspends itself in the hooks,  *)
(* and is resumed by the event loop of its thread, for an event of the     *)
(* socket or for a timer.                                                  *)
(*                                                                         *)
(* Every timer has the same interval of 10 s: timers are due in the order  *)
(* in which they were created.  A request or a reply is the number of its  *)
(* call; a write takes all of the buffer or nothing.  How many bytes fill  *)
(* the buffer is TcpConnection's subject: here any read may.  The new      *)
(* socket has the number of the old one, which the kernel gives out again. *)
(***************************************************************************)
EXTENDS Naturals

CONSTANT MaxCalls   \* bound: the coroutine makes that many calls

ASSUME CallsAssumption == MaxCalls \in Nat

VARIABLES
  pc,             \* where the coroutine is; suspended in a ..._wait and at its end
  call,           \* the call it is in or made last
  is_timeout,     \* the local of sendAndRecvTinyPb
  conn_timeout,   \* the local of connect_hook
  result,         \* what each call returned
  m_state,        \* of the TcpConnection
  m_is_over_time,
  again,          \* onRead's loop has gone round: it is not in its first read
  m_in_buffer,    \* replies that were read
  m_reply_msg,    \* replies that were decoded
  interest,       \* the events that the FdEvent listens to
  registered,     \* the descriptor is registered with epoll
  sock,           \* the kernel's socket
  served,         \* requests the peer may still answer on this connection
  inbox,          \* its answers that were not read; 0 is what a read has left of one
  timers,         \* timer events in the queue that are not due yet
  passed,         \* those that are
  due,            \* onTimer's callbacks that were not called yet
  batch           \* the loop's tasks

coVars     == <<pc, call, is_timeout, conn_timeout, result>>
connVars   == <<m_state, m_is_over_time, again, m_in_buffer, m_reply_msg>>
fdVars     == <<interest, registered>>
sockVars   == <<sock, served, inbox>>
timerVars  == <<timers, passed>>
loopVars   == <<due, batch>>
vars == <<coVars, connVars, fdVars, sockVars, timerVars, loopVars>>

Calls  == 1 .. MaxCalls
Timer  == {"call", "conn"} \X Calls   \* of sendAndRecvTinyPb, of connect_hook
Waits  == {"connect_wait", "write_wait", "read_wait"}
Pc     == Waits \cup {"between", "connect", "retry", "connect_check", "write",
                      "write_again", "read", "read_again", "end", "lost", "killed"}
Result == {"none", "ok", "timeout", "closed"}
State  == {"NotConnected", "Connected", "Closed"}
Socket == {"new", "connecting", "established", "refused", "connected", "closed",
           "reset", "gone"}   \* an error to be reported, and one that was

CallTimer == <<"call", call>>
ConnTimer == <<"conn", call>>

Init ==
  /\ pc = "between" /\ call = 0
  /\ is_timeout = FALSE /\ conn_timeout = FALSE
  /\ result = [c \in Calls |-> "none"]
  /\ m_state = "NotConnected" /\ m_is_over_time = FALSE /\ again = FALSE
  /\ m_in_buffer = {} /\ m_reply_msg = {}
  /\ interest = {} /\ registered = FALSE
  /\ sock = "new" /\ served = {} /\ inbox = {}
  /\ timers = {} /\ passed = {}
  /\ due = {} /\ batch = {}

(* Timer::deleteTimerEvent: what onTimer has taken already stays with it. *)
Delete(events) ==
  /\ timers' = timers \ events
  /\ passed' = passed \ events

(* deleteEpollEvent, close, and a new socket. *)
NewSocket ==
  /\ registered' = FALSE
  /\ sock' = "new" /\ served' = {} /\ inbox' = {}

Return(res) ==
  /\ pc' = "between"
  /\ result' = [result EXCEPT ![call] = res]

(* err_deal, for a timeout and for a peer that closed. *)
TimedOut ==
  /\ Return("timeout")
  /\ NewSocket
  /\ m_is_over_time' = FALSE

PeerClosed ==
  /\ Return("closed")
  /\ NewSocket
  /\ UNCHANGED m_is_over_time
-----------------------------------------------------------------------------
(* The coroutine calls again, with a request that CallMethod has encoded   *)
(* behind those of the earlier calls, or it ends, and with it the client.  *)
StartCall ==
  /\ pc = "between" /\ call < MaxCalls
  /\ call' = call + 1
  /\ is_timeout' = FALSE
  /\ timers' = timers \cup {<<"call", call + 1>>}
  /\ pc' = "connect"
  /\ UNCHANGED <<conn_timeout, result, connVars, fdVars, sockVars, passed, loopVars>>

End ==
  /\ pc = "between"
  /\ pc' = "end"
  /\ UNCHANGED <<call, is_timeout, conn_timeout, result, connVars, fdVars,
                 sockVars, timerVars, loopVars>>

(* What the system's connect returns, and the socket then.  A connection   *)
(* attempt that is under way is an error like any other.                   *)
ConnectOutcomes ==
  CASE sock = "new"         -> {<<"ok", "connected">>, <<"inprogress", "connecting">>,
                                <<"refused", "new">>, <<"error", "new">>}
    [] sock = "connecting"  -> {<<"error", "connecting">>}
    [] sock = "established" -> {<<"ok", "connected">>}
    [] sock = "refused"     -> {<<"refused", "new">>}

(* connect has returned into the loop: leave it, or go round again.  On    *)
(* the way it has deleted the timers in gone and left watched of epoll.    *)
ConnectReturns(outcome, socket, gone, watched) ==
  \/ /\ outcome = "ok"
     /\ sock' = socket
     /\ m_state' = "Connected"
     /\ pc' = "write"
     /\ Delete(gone)
     /\ registered' = watched
     /\ UNCHANGED <<result, m_is_over_time, served, inbox>>
  \/ /\ outcome # "ok" /\ is_timeout
     /\ TimedOut
     /\ Delete(gone)
     /\ UNCHANGED m_state
  \/ /\ outcome = "refused" /\ ~is_timeout
     /\ PeerClosed
     /\ Delete(gone \cup {CallTimer})
     /\ UNCHANGED m_state
  \/ /\ outcome \in {"error", "inprogress"} /\ ~is_timeout
     /\ sock' = socket
     /\ pc' = "retry"
     /\ Delete(gone)
     /\ registered' = watched
     /\ UNCHANGED <<result, m_state, m_is_over_time, served, inbox>>

AtConnect == pc \in {"connect", "retry"}

AlreadyConnected ==
  /\ AtConnect
  /\ m_state = "Connected"
  /\ pc' = "write"
  /\ UNCHANGED <<call, is_timeout, conn_timeout, result, connVars, fdVars,
                 sockVars, timerVars, loopVars>>

(* connect_hook returns at once. *)
Connect ==
  /\ AtConnect
  /\ m_state # "Connected"
  /\ \E o \in ConnectOutcomes :
       /\ o[1] # "inprogress"
       /\ ConnectReturns(o[1], o[2], {}, registered)
  /\ UNCHANGED <<call, is_timeout, conn_timeout, again, m_in_buffer, m_reply_msg,
                 interest, loopVars>>

(* It listens for writing, adds a timer of its own and yields. *)
ConnectYields ==
  /\ AtConnect
  /\ m_state # "Connected"
  /\ <<"inprogress", "connecting">> \in ConnectOutcomes
  /\ sock' = "connecting"
  /\ interest' = interest \cup {"OUT"}
  /\ registered' = TRUE
  /\ conn_timeout' = FALSE
  /\ timers' = timers \cup {ConnTimer}
  /\ pc' = "connect_wait"
  /\ UNCHANGED <<call, is_timeout, result, connVars, served, inbox, passed, loopVars>>

(* connect_hook goes on: cancel, delete the timer, connect again.  After   *)
(* its own timer whatever error there is becomes ETIMEDOUT.                *)
ConnectCheck ==
  /\ pc = "connect_check"
  /\ interest' = interest \ {"OUT"}
  /\ \E o \in ConnectOutcomes :
       ConnectReturns(IF conn_timeout /\ o[1] # "ok" THEN "error" ELSE o[1],
                      o[2], {ConnTimer}, TRUE)
  /\ UNCHANGED <<call, is_timeout, conn_timeout, again, m_in_buffer, m_reply_msg,
                 loopVars>>
-----------------------------------------------------------------------------
(* onWrite.  The flag of a timer that ran skips the write. *)
SkipWrite ==
  /\ pc = "write" /\ m_is_over_time
  /\ TimedOut
  /\ UNCHANGED <<call, is_timeout, conn_timeout, m_state, again, m_in_buffer,
                 m_reply_msg, interest, timerVars, loopVars>>

(* The buffer still holds what earlier calls sent. *)
Sent == served' = served \cup 1 .. call

Write ==
  /\ pc = "write" /\ ~m_is_over_time
  /\ sock \in {"connected", "closed"}
  /\ IF sock = "connected" THEN Sent ELSE UNCHANGED served
  /\ pc' = "read"
  /\ UNCHANGED <<call, is_timeout, conn_timeout, result, connVars, fdVars, sock,
                 inbox, timerVars, loopVars>>

(* SIGPIPE, which nobody handles: the peer has gone, or the socket was     *)
(* never connected.                                                        *)
WriteKills ==
  /\ (pc = "write" /\ ~m_is_over_time) \/ pc = "write_again"
  /\ sock \notin {"connected", "established", "reset"}
  /\ pc' = "killed"
  /\ UNCHANGED <<call, is_timeout, conn_timeout, result, connVars, fdVars,
                 sockVars, timerVars, loopVars>>

(* An error of the socket is reported once. *)
Reported == sock' = IF sock = "reset" THEN "gone" ELSE sock

(* The socket's buffer is full, or the peer has reset the connection:      *)
(* write_hook listens for writing and yields.                              *)
WriteYields ==
  /\ pc = "write" /\ ~m_is_over_time
  /\ sock \in {"connected", "reset"}
  /\ Reported
  /\ interest' = interest \cup {"OUT"}
  /\ registered' = TRUE
  /\ pc' = "write_wait"
  /\ UNCHANGED <<call, is_timeout, conn_timeout, result, connVars, served, inbox,
                 timerVars, loopVars>>

(* Mutant: nobody asks for the flag after the write. *)
WriteAgainUnasked ==
  /\ pc = "write_again"
  /\ interest' = interest \ {"OUT"}
  /\ pc' = "read"
  /\ registered' = TRUE
  /\ (sock = "connected" /\ Sent) \/ UNCHANGED served
  /\ UNCHANGED <<call, is_timeout, conn_timeout, result, connVars, sock, inbox,
                 timerVars, loopVars>>

(* write_hook goes on.  A buffer that is still full ends onWrite, too; any *)
(* other error than that has it write again.                               *)
WriteAgain ==
  /\ pc = "write_again"
  /\ interest' = interest \ {"OUT"}
  /\ IF m_is_over_time
     THEN /\ TimedOut
     ELSE /\ pc' = IF sock = "reset" THEN "write" ELSE "read"
          /\ Reported
          /\ registered' = TRUE
          /\ (sock = "connected" /\ Sent) \/ UNCHANGED served
          /\ UNCHANGED <<result, m_is_over_time, inbox>>
  /\ UNCHANGED <<call, is_timeout, conn_timeout, m_state, again, m_in_buffer,
                 m_reply_msg, timerVars, loopVars>>
-----------------------------------------------------------------------------
(* Mutant: the timer of a call that was answered stays in the queue. *)
GetReplyTimed ==
  /\ pc = "read" /\ ~again /\ call \in m_reply_msg
  /\ Return("ok")
  /\ m_reply_msg' = m_reply_msg \ {call}
  /\ UNCHANGED <<call, is_timeout, conn_timeout, m_state, m_is_over_time, again,
                 m_in_buffer, fdVars, sockVars, timerVars, loopVars>>

(* getResPackageData finds the reply. *)
GetReply ==
  /\ pc = "read" /\ ~again /\ call \in m_reply_msg
  /\ Return("ok")
  /\ m_reply_msg' = m_reply_msg \ {call}
  /\ Delete({CallTimer})
  /\ UNCHANGED <<call, is_timeout, conn_timeout, m_state, m_is_over_time, again,
                 m_in_buffer, fdVars, sockVars, loopVars>>

(* It does not, and onRead reads, or it reads once more. *)
AtRead == pc = "read" /\ (again \/ call \notin m_reply_msg)

(* onRead has returned with what was read; excute decodes it. *)
OnReadReturns(data, state, watched) ==
  /\ m_state' = state
  /\ again' = FALSE
  /\ IF m_is_over_time
     THEN /\ TimedOut
          /\ m_in_buffer' = m_in_buffer \cup data
          /\ UNCHANGED m_reply_msg
     ELSE IF state = "Closed"
     THEN /\ PeerClosed
          /\ UNCHANGED <<m_in_buffer, m_reply_msg>>
     ELSE /\ pc' = "read"
          /\ m_reply_msg' = m_reply_msg \cup m_in_buffer \cup data
          /\ m_in_buffer' = {}
          /\ inbox' = {}
          /\ registered' = watched
          /\ UNCHANGED <<result, m_is_over_time, sock, served>>

(* onRead goes round again, and nobody asks for the flag. *)
OnReadLoops ==
  /\ pc' = "read" /\ again' = TRUE
  /\ UNCHANGED <<result, m_state, m_is_over_time, m_in_buffer, m_reply_msg, served>>

(* A read that fills the buffer: moveWriteIndex refuses what was read, of  *)
(* whole replies or with a part of the last one left over.                 *)
FillsBuffer ==
  /\ \E part \in (SUBSET inbox) \ {{}}, rest \in SUBSET {0} :
       /\ rest # {} => part \cap Calls # {}
       /\ inbox' = (inbox \ part) \cup rest
  /\ OnReadLoops
  /\ UNCHANGED sock

(* What was left of a reply decodes to nothing. *)
Replies == inbox \ {0}

(* read_hook reads at once. *)
Read ==
  /\ AtRead
  /\ inbox # {}
  /\ \/ OnReadReturns(Replies, m_state, registered)
     \/ FillsBuffer /\ UNCHANGED registered
  /\ UNCHANGED <<call, is_timeout, conn_timeout, interest, timerVars, loopVars>>

(* Mutant: listen without addEpollEvent. *)
ReadYieldsUnregistered ==
  /\ AtRead
  /\ inbox = {}
  /\ Reported
  /\ interest' = interest \cup {"IN"}
  /\ pc' = "read_wait"
  /\ UNCHANGED <<call, is_timeout, conn_timeout, result, registered, connVars,
                 served, inbox, timerVars, loopVars>>

(* Nothing to read, the end of the stream, or an error: listen for         *)
(* reading, yield.                                                         *)
ReadYields ==
  /\ AtRead
  /\ inbox = {}
  /\ Reported
  /\ interest' = interest \cup {"IN"}
  /\ registered' = TRUE
  /\ pc' = "read_wait"
  /\ UNCHANGED <<call, is_timeout, conn_timeout, result, connVars, served, inbox,
                 timerVars, loopVars>>

(* An error other than EAGAIN, of a connection that the peer has reset. *)
ReadFails ==
  /\ inbox = {} /\ sock = "reset"
  /\ Reported
  /\ OnReadLoops
  /\ UNCHANGED inbox

AtEnd == inbox = {} /\ sock \in {"closed", "gone"}

(* Mutant: the 0 that read returns at the end of the stream is data. *)
ReadAgainZero ==
  /\ pc = "read_again"
  /\ OnReadReturns(IF AtEnd THEN {0} ELSE Replies, m_state, TRUE)
  /\ interest' = interest \ {"IN"}
  /\ UNCHANGED <<call, is_timeout, conn_timeout, timerVars, loopVars>>

(* read_hook goes on: data, nothing, the end of the stream, whose clear()  *)
(* takes the descriptor off the loop, or an error.                         *)
ReadAgain ==
  /\ pc = "read_again"
  /\ \/ /\ inbox = {} => sock # "reset"
        /\ OnReadReturns(Replies, IF AtEnd THEN "Closed" ELSE m_state, TRUE)
     \/ (FillsBuffer \/ ReadFails) /\ registered' = TRUE
  /\ interest' = IF m_state' = "Closed" THEN {} ELSE interest \ {"IN"}
  /\ UNCHANGED <<call, is_timeout, conn_timeout, timerVars, loopVars>>

CoroutineStep ==
  \/ StartCall \/ End
  \/ AlreadyConnected \/ Connect \/ ConnectYields \/ ConnectCheck
  \/ SkipWrite \/ Write \/ WriteKills \/ WriteYields \/ WriteAgain
  \/ GetReply \/ Read \/ ReadYields \/ ReadAgain
-----------------------------------------------------------------------------
(* The loop's thread runs the loop while the coroutine is suspended. *)
Suspended == pc \in Waits \cup {"end"}

Readable == inbox # {} \/ sock \in {"refused", "closed", "reset", "gone"}
Writable == sock \notin {"connecting"}
FdReady  == registered /\ (("IN" \in interest /\ Readable) \/ ("OUT" \in interest /\ Writable))

(* One batch: the handler of the socket and onTimer.  EPOLLERR takes the   *)
(* descriptor off the loop.                                                *)
EpollWait ==
  /\ Suspended
  /\ batch = {} /\ due = {}
  /\ FdReady \/ passed # {}
  /\ batch' = {task \in {"fd", "timer"} :
                 (task = "fd" /\ FdReady) \/ (task = "timer" /\ passed # {})}
  /\ registered' = (registered /\ sock \notin {"refused", "reset"})
  /\ UNCHANGED <<coVars, connVars, interest, sockVars, timerVars, due>>

(* Coroutine::Resume(cur_cor): the coroutine goes on wherever it waits.    *)
(* One that has finished returns from CoFunction into nowhere.             *)
Resume ==
  pc' = CASE pc = "connect_wait" -> "connect_check"
          [] pc = "write_wait"   -> "write_again"
          [] pc = "read_wait"    -> "read_again"
          [] OTHER               -> "lost"

RunHandler ==
  /\ Suspended
  /\ "fd" \in batch /\ due = {}
  /\ batch' = batch \ {"fd"}
  /\ Resume
  /\ UNCHANGED <<call, is_timeout, conn_timeout, result, connVars, fdVars,
                 sockVars, timerVars, due>>

OnTimer ==
  /\ Suspended
  /\ "timer" \in batch /\ due = {}
  /\ batch' = batch \ {"timer"}
  /\ due' = passed
  /\ passed' = {}
  /\ UNCHANGED <<coVars, connVars, fdVars, sockVars, timers>>

Earlier(e, f) == e[2] < f[2] \/ (e[2] = f[2] /\ e[1] = "call" /\ f[1] = "conn")

First(events, e) == e \in events /\ \A f \in events : ~Earlier(f, e)

(* Mutant: the callback sets its own variable only. *)
CallTimerUnflagged(c) ==
  /\ Suspended
  /\ First(due, <<"call", c>>)
  /\ due' = due \ {<<"call", c>>}
  /\ is_timeout' \in {TRUE} \cup (IF c = call THEN {} ELSE {is_timeout})
  /\ Resume
  /\ UNCHANGED <<call, conn_timeout, result, connVars, fdVars, sockVars, timerVars, batch>>

(* The callback of a call's timer.  When that call has returned it writes  *)
(* to what was its frame: a local of the present one, or nothing of it.    *)
CallTimerCalled(c) ==
  /\ Suspended
  /\ First(due, <<"call", c>>)
  /\ due' = due \ {<<"call", c>>}
  /\ m_is_over_time' = TRUE
  /\ is_timeout' \in {TRUE} \cup (IF c = call THEN {} ELSE {is_timeout})
  /\ Resume
  /\ UNCHANGED <<call, conn_timeout, result, m_state, again, m_in_buffer, m_reply_msg,
                 fdVars, sockVars, timerVars, batch>>

(* The callback of connect_hook's timer, with the same danger. *)
ConnTimerCalled(c) ==
  /\ Suspended
  /\ First(due, <<"conn", c>>)
  /\ due' = due \ {<<"conn", c>>}
  /\ conn_timeout' \in {TRUE} \cup (IF c = call /\ pc = "connect_wait" THEN {} ELSE {conn_timeout})
  /\ Resume
  /\ UNCHANGED <<call, is_timeout, result, connVars, fdVars, sockVars, timerVars, batch>>

LoopStep ==
  \/ EpollWait \/ RunHandler \/ OnTimer
  \/ \E c \in Calls : CallTimerCalled(c) \/ ConnTimerCalled(c)
-----------------------------------------------------------------------------
(* The network and the peer. *)
ConnectEnds ==
  /\ sock = "connecting"
  /\ sock' \in {"established", "refused"}
  /\ UNCHANGED <<coVars, connVars, fdVars, served, inbox, timerVars, loopVars>>

Reply ==
  /\ sock = "connected"
  /\ \E c \in served :
       /\ inbox' = inbox \cup {c}
       /\ served' = served \ {c}
  /\ UNCHANGED <<coVars, connVars, fdVars, sock, timerVars, loopVars>>

PeerCloses ==
  /\ sock = "connected"
  /\ sock' \in {"closed", "reset"}
  /\ UNCHANGED <<coVars, connVars, fdVars, served, inbox, timerVars, loopVars>>

(* Time passes until the next timer is due. *)
Expire(e) ==
  /\ First(timers, e)
  /\ timers' = timers \ {e}
  /\ passed' = passed \cup {e}
  /\ UNCHANGED <<coVars, connVars, fdVars, sockVars, loopVars>>

Next ==
  \/ CoroutineStep
  \/ LoopStep
  \/ ConnectEnds \/ Reply \/ PeerCloses
  \/ \E e \in timers : Expire(e)

Spec == Init /\ [][Next]_vars

(* The thread runs, be it the coroutine or the loop, and time passes.      *)
(* Nothing is assumed of the network and of the peer.                      *)
Fairness ==
  /\ WF_vars(CoroutineStep \/ LoopStep)
  /\ WF_vars(\E e \in timers : Expire(e))

FairSpec == Spec /\ Fairness
-----------------------------------------------------------------------------
TypeOK ==
  /\ pc \in Pc /\ call \in Nat
  /\ pc \notin {"between", "end", "lost"} => call \in Calls
  /\ is_timeout \in BOOLEAN /\ conn_timeout \in BOOLEAN
  /\ result \in [Calls -> Result]
  /\ m_state \in State /\ m_is_over_time \in BOOLEAN /\ again \in BOOLEAN
  /\ m_in_buffer \subseteq Calls /\ m_reply_msg \subseteq Calls
  /\ interest \subseteq {"IN", "OUT"} /\ registered \in BOOLEAN
  /\ sock \in Socket /\ served \subseteq Calls /\ inbox \subseteq Calls \cup {0}
  /\ timers \subseteq Timer /\ passed \subseteq Timer /\ due \subseteq Timer
  /\ batch \subseteq {"fd", "timer"}

(* The timer of sendAndRecvTinyPb bounds every wait inside the call: as    *)
(* long as the coroutine is suspended in a call, that call's timer is      *)
(* still to come, whatever stale timers and handlers resumed it before.    *)
(* The one exception is a wait that onRead enters when it goes round again *)
(* although the flag is set: it is asked for only when onRead has returned.*)
HasDeadline == CallTimer \in timers \cup passed \cup due

WaitHasDeadline ==
  pc \in Waits => HasDeadline \/ (pc = "read_wait" /\ again /\ m_is_over_time)

(* A suspended coroutine is listened for: epoll watches its descriptor for *)
(* the event it waits for, or the handler is a task already.               *)
WaitListens ==
  /\ pc \in {"connect_wait", "write_wait"} => "OUT" \in interest
  /\ pc = "read_wait" => "IN" \in interest
  /\ pc \in Waits => registered \/ "fd" \in batch

(* The wait that has no end unless the peer gives it one: the timer of the *)
(* call resumed a read that filled the buffer, or failed, and onRead went  *)
(* round again.                                                            *)
Overrun == pc = "read_wait" /\ again /\ ~HasDeadline

(* A call returns, unless the coroutine or the process is gone, connect is *)
(* tried again and again without a yield, or onRead waits once more after  *)
(* the call's time was over.                                               *)
CallReturns ==
  \A c \in Calls :
    (call = c /\ pc = "connect")
      ~> (result[c] # "none" \/ pc \in {"lost", "killed", "retry"} \/ Overrun)

(* A call that fails with a timeout has run out of its own time, or of the *)
(* time of an earlier call that failed: the path of a peer that closed     *)
(* (tcp_client.cpp:109) is the only one to leave its timer in the queue,   *)
(* and a call that was answered never costs a later one its 10 s.          *)
TimeoutHasCause ==
  \A c \in Calls :
    result[c] = "timeout" /\ <<"call", c>> \in timers \cup passed
      => \E d \in 1 .. c - 1 : result[d] = "closed"
=============================================================================
