---------------------------- MODULE TcpConnection ----------------------------
(***************************************************************************)
(* The server's side of rocket::TcpConnection (tcp_connection.cpp): the    *)
(* coroutine of a connection, which reads bytes into a buffer, decodes     *)
(* what is there, dispatches it and writes the replies, and is suspended   *)
(* in the hooks of read and write (coroutine_hook.cpp).                    *)
(*                                                                         *)
(* The peer sends Requests, one after the other, and may close at any      *)
(* time.  How much of the stream a read finds is left open, and so is what *)
(* a byte outside of the buffer's vector holds.                            *)
(***************************************************************************)
EXTENDS TinyPBCoder, RpcDispatcher, SequencesExt

CONSTANTS
  Requests,      \* what the peer sends: a sequence of messages
  Services,      \* the services that are registered
  BufferSize,    \* what IOThread::addClient passes (128)
  Beyond         \* what may be found outside of the vector

Message == [msg_id : Seq(Byte), method_name : Seq(Byte), err_code : Int,
            err_info : Seq(Byte), pb_data : Seq(Byte)]

ASSUME RequestsAssumption == Requests \in Seq(Message)
ASSUME ServicesAssumption ==
  \A s \in DOMAIN Services : \A m \in DOMAIN Services[s] :
    \A d \in DOMAIN Services[s][m] :
      Services[s][m][d] \in [serialised : BOOLEAN, pb_data : Seq(Byte)]
ASSUME BufferSizeAssumption == BufferSize \in Nat \ {0}
ASSUME BeyondAssumption == Beyond \subseteq Byte

VARIABLES
  pc,            \* where the coroutine is; suspended in a ..._wait
  m_state,
  m_stop,
  m_in_buffer,
  m_out_buffer,
  result,        \* the local of excute
  pos,           \* how much of the stream was read
  closed,        \* the peer has closed
  handled,       \* the requests that were dispatched, in order
  sent,          \* how many of their replies the kernel has taken
  lost           \* a read was refused by the buffer

vars == <<pc, m_state, m_stop, m_in_buffer, m_out_buffer, result, pos, closed,
          handled, sent, lost>>

Suspended == {"read_wait", "write_wait"}
Stopped   == {"end", "killed", "undefined"}
Pc        == Suspended \cup Stopped \cup
               {"read", "read_again", "excute", "reply", "write", "write_again"}

Stream == FlattenSeq([k \in DOMAIN Requests |-> encodeTinyPB(Requests[k])])

(* The constructor, for an accepted client. *)
Init ==
  /\ pc = "read"
  /\ m_state = "Connected" /\ m_stop = FALSE
  /\ m_in_buffer = TcpBuffer(BufferSize)
  /\ m_out_buffer = TcpBuffer(BufferSize)
  /\ result = <<>>
  /\ pos = 0 /\ closed = FALSE
  /\ handled = <<>> /\ sent = 0 /\ lost = FALSE

(* MainServerLoopCorFunc after onWrite. *)
LoopEnds == pc' = IF m_stop THEN "end" ELSE "read"
-----------------------------------------------------------------------------
(* onRead: the buffer as read finds it. *)
ReadBuffer ==
  IF writeAble(m_in_buffer) = 0
  THEN resizeBuffer(m_in_buffer, 2 * Len(m_in_buffer.m_buffer)) ELSE m_in_buffer

(* read returns n bytes.  A read that fills the buffer is followed by      *)
(* another one, and by no progress of the write index.                     *)
Data(n) ==
  /\ pos' = pos + n
  /\ m_in_buffer' = moveWriteIndex(Stored(ReadBuffer, SubSeq(Stream, pos + 1, pos + n)), n)
  /\ lost' = (lost \/ n = writeAble(ReadBuffer))
  /\ pc' = IF n = writeAble(ReadBuffer) THEN "read" ELSE "excute"

Arrived(n) == n \in 1 .. Len(Stream) - pos /\ n <= writeAble(ReadBuffer)

(* read_hook: there are bytes at once. *)
Read(n) ==
  /\ pc = "read"
  /\ Arrived(n)
  /\ Data(n)
  /\ UNCHANGED <<m_state, m_stop, m_out_buffer, result, closed, handled, sent>>

(* There are none, or the stream has ended: it yields. *)
ReadYields ==
  /\ pc = "read"
  /\ pc' = "read_wait"
  /\ m_in_buffer' = ReadBuffer
  /\ UNCHANGED <<m_state, m_stop, m_out_buffer, result, pos, closed, handled,
                 sent, lost>>

(* The loop resumes it for bytes or for the end of the stream. *)
ReadReady ==
  /\ pc = "read_wait"
  /\ pos < Len(Stream) \/ closed
  /\ pc' = "read_again"
  /\ UNCHANGED <<m_state, m_stop, m_in_buffer, m_out_buffer, result, pos, closed,
                 handled, sent, lost>>

ReadAgain(n) ==
  /\ pc = "read_again"
  /\ Arrived(n)
  /\ Data(n)
  /\ UNCHANGED <<m_state, m_stop, m_out_buffer, result, closed, handled, sent>>

(* Mutant: clear leaves m_stop. *)
ReadEndsUnstopped ==
  /\ pc = "read_again" /\ closed
  /\ m_state' = "Closed"
  /\ pc' = "excute"
  /\ UNCHANGED <<m_stop, m_in_buffer, m_out_buffer, result, pos, closed, handled,
                 sent, lost>>

(* read returns 0: clear, and excute is called all the same. *)
ReadEnds ==
  /\ pc = "read_again" /\ closed
  /\ m_state' = "Closed" /\ m_stop' = TRUE
  /\ pc' = "excute"
  /\ UNCHANGED <<m_in_buffer, m_out_buffer, result, pos, closed, handled, sent, lost>>

-----------------------------------------------------------------------------
(* excute: one round of decode. *)
DecodePackage(start, end, beyond) ==
  LET parsed == Parse(m_in_buffer, start, end, beyond)
  IN  /\ pc' = IF parsed.kind = "undefined" THEN "undefined" ELSE pc
      /\ m_in_buffer' = Consumed(m_in_buffer, start, end)
      /\ result' = IF parsed.kind = "message" THEN Append(result, parsed.message) ELSE result

Decode(beyond) ==
  /\ pc = "excute"
  /\ \E start \in 0 .. m_in_buffer.m_write_index - 1 :
       /\ FirstPackageAt(m_in_buffer, start, beyond)
       /\ DecodePackage(start, EndIndex(m_in_buffer, start, beyond), beyond)
  /\ UNCHANGED <<m_state, m_stop, m_out_buffer, pos, closed, handled, sent, lost>>

(* decode has returned: its requests are dispatched, and the replies       *)
(* encoded, one by one.  There may be none.                                *)
DecodeReturn(beyond) ==
  /\ pc = "excute"
  /\ NoPackage(m_in_buffer, beyond)
  /\ pc' = "reply"
  /\ UNCHANGED <<m_state, m_stop, m_in_buffer, m_out_buffer, result, pos, closed,
                 handled, sent, lost>>

(* Mutant: a reply is written over those that were not sent. *)
ReplyOver ==
  /\ pc = "reply" /\ result # <<>>
  /\ m_out_buffer' = encode(dispatch(Services, Head(result)), TcpBuffer(BufferSize))
  /\ handled' = Append(handled, Head(result))
  /\ result' = Tail(result)
  /\ UNCHANGED <<pc, m_state, m_stop, m_in_buffer, pos, closed, sent, lost>>

Reply ==
  /\ pc = "reply" /\ result # <<>>
  /\ m_out_buffer' = encode(dispatch(Services, Head(result)), m_out_buffer)
  /\ handled' = Append(handled, Head(result))
  /\ result' = Tail(result)
  /\ UNCHANGED <<pc, m_state, m_stop, m_in_buffer, pos, closed, sent, lost>>

ExcuteReturns ==
  /\ pc = "reply" /\ result = <<>>
  /\ pc' = "write"
  /\ UNCHANGED <<m_state, m_stop, m_in_buffer, m_out_buffer, result, pos, closed,
                 handled, sent, lost>>
-----------------------------------------------------------------------------
Pending == m_state = "Connected" /\ readAble(m_out_buffer) > 0

(* onWrite, with nothing to write, or on a closed connection. *)
WriteNothing ==
  /\ pc = "write" /\ ~Pending
  /\ LoopEnds
  /\ UNCHANGED <<m_state, m_stop, m_in_buffer, m_out_buffer, result, pos, closed,
                 handled, sent, lost>>

(* write_hook: the kernel takes it all.  The read index stays. *)
Write ==
  /\ pc = "write" /\ Pending
  /\ sent' = Len(handled)
  /\ LoopEnds
  /\ UNCHANGED <<m_state, m_stop, m_in_buffer, m_out_buffer, result, pos, closed,
                 handled, lost>>

(* It takes a part, and onWrite begins again with the first byte: nothing  *)
(* of the program changes.  Its buffer is full: write_hook yields.         *)
WriteYields ==
  /\ pc = "write" /\ Pending
  /\ pc' = "write_wait"
  /\ UNCHANGED <<m_state, m_stop, m_in_buffer, m_out_buffer, result, pos, closed,
                 handled, sent, lost>>

WriteReady ==
  /\ pc = "write_wait"
  /\ pc' = "write_again"
  /\ UNCHANGED <<m_state, m_stop, m_in_buffer, m_out_buffer, result, pos, closed,
                 handled, sent, lost>>

(* All of it, a part of it, or still nothing, which ends onWrite. *)
WriteAgain ==
  /\ pc = "write_again"
  /\ \/ sent' = Len(handled) /\ LoopEnds
     \/ pc' = "write" /\ UNCHANGED sent
     \/ LoopEnds /\ UNCHANGED sent
  /\ UNCHANGED <<m_state, m_stop, m_in_buffer, m_out_buffer, result, pos, closed,
                 handled, lost>>

(* The peer has gone, and SIGPIPE is not handled. *)
WriteKills ==
  /\ pc \in {"write", "write_again"} /\ Pending
  /\ closed
  /\ pc' = "killed"
  /\ UNCHANGED <<m_state, m_stop, m_in_buffer, m_out_buffer, result, pos, closed,
                 handled, sent, lost>>

PeerCloses ==
  /\ ~closed
  /\ closed' = TRUE
  /\ UNCHANGED <<pc, m_state, m_stop, m_in_buffer, m_out_buffer, result, pos,
                 handled, sent, lost>>

Step ==
  \/ \E n \in 1 .. Len(Stream) : Read(n) \/ ReadAgain(n)
  \/ ReadYields \/ ReadReady \/ ReadEnds
  \/ \E beyond \in Beyond : Decode(beyond) \/ DecodeReturn(beyond)
  \/ Reply \/ ExcuteReturns
  \/ WriteNothing \/ Write \/ WriteYields \/ WriteReady \/ WriteAgain \/ WriteKills

Next == Step \/ PeerCloses

Spec == Init /\ [][Next]_vars

(* The thread runs the coroutine whenever it can go on.  A peer that has   *)
(* closed answers what is written to it with a reset.                      *)
FairSpec == Spec /\ WF_vars(Step) /\ SF_vars(WriteKills)
-----------------------------------------------------------------------------
Buffer == [m_buffer : Seq(Byte), m_read_index : Nat, m_write_index : Nat]

(* The in-buffer never fills: what moveWriteIndex refuses is lost, and the *)
(* growth that onRead asks for before it reads is never taken.             *)
InBufferOpen ==
  /\ m_in_buffer \in Buffer
  /\ Len(m_in_buffer.m_buffer) = BufferSize
  /\ m_in_buffer.m_read_index <= m_in_buffer.m_write_index
  /\ m_in_buffer.m_write_index < BufferSize

TypeOK ==
  /\ pc \in Pc
  /\ m_state \in {"Connected", "Closed"} /\ m_stop \in BOOLEAN
  /\ InBufferOpen
  /\ m_out_buffer \in Buffer
  /\ result \in Seq(Message) /\ handled \in Seq(Message)
  /\ pos \in 0 .. Len(Stream) /\ sent \in 0 .. Len(handled)
  /\ closed \in BOOLEAN /\ lost \in BOOLEAN

Encoded(messages) == FlattenSeq([k \in DOMAIN messages |-> encodeTinyPB(messages[k])])

(* The requests that were read to their last byte. *)
Whole == {k \in 0 .. Len(Requests) : Len(Encoded(SubSeq(Requests, 1, k))) <= pos}

(* tinypb_coder.cpp:44, a package that came in part is left to the next    *)
(* read: however the stream is cut into reads, the requests are handled    *)
(* once each, in their order, as they were sent, and all that have come    *)
(* before the coroutine waits for more.                                    *)
Framed ==
  ~lost /\ pc # "undefined" =>
    /\ IsPrefix(handled \o result, Requests)
    /\ pc = "read_wait" => \A k \in Whole : k <= Len(handled)

IsInt32(n) == n >= -2147483647 - 1 /\ n <= 2147483647

(* A message that comes out of its package as it went in: its id is not    *)
(* replaced, its strings have no zero and fit the arrays of decode with    *)
(* the zero behind them, and its numbers fit an int32_t.                   *)
Kept(msg) ==
  /\ msg.msg_id # <<>> /\ Len(msg.msg_id) < 100
  /\ Len(msg.method_name) < 512 /\ Len(msg.err_info) < 512
  /\ \A text \in {msg.msg_id, msg.method_name, msg.err_info} :
       \A k \in DOMAIN text : text[k] # 0
  /\ IsInt32(msg.err_code) /\ IsInt32(PkLen(msg))

(* The first n bytes of a package, in the in-buffer from r on.  In front   *)
(* of them may be any byte, and the one that matters is PB_END.            *)
PartAt(e, r, n) ==
  [m_buffer |-> [i \in 1 .. BufferSize |-> IF i <= r THEN PB_END
                                           ELSE IF i <= r + n THEN e[i - r] ELSE 0],
   m_read_index |-> r, m_write_index |-> r + n]

(* While a package is there in part, nothing inside of it is taken for     *)
(* another one.                                                            *)
Unambiguous(msg) ==
  LET e == encodeTinyPB(msg)
  IN  \A beyond \in Beyond, r \in 0 .. BufferSize - 1, n \in 1 .. Len(e) - 1 :
        r + n < BufferSize =>
          \A i \in r + 1 .. r + n - 1 : ~PackageAt(PartAt(e, r, n), i, beyond)

(* The requests that can be told from their bytes. *)
Decodable == \A k \in DOMAIN Requests : Kept(Requests[k]) /\ Unambiguous(Requests[k])

(* Nothing that was ever written leaves the out-buffer, grown or not: it   *)
(* holds every reply, in the order of the requests, and each write begins  *)
(* with the first of them again.                                           *)
RepliesKept ==
  Readable(m_out_buffer) =
    Encoded([k \in DOMAIN handled |-> dispatch(Services, handled[k])])

(* decode finds the same package again and again. *)
Looping ==
  /\ pc = "excute"
  /\ \E beyond \in Beyond, start \in 0 .. m_in_buffer.m_write_index - 1 :
       /\ FirstPackageAt(m_in_buffer, start, beyond)
       /\ Parse(m_in_buffer, start, EndIndex(m_in_buffer, start, beyond), beyond).kind = "dropped"

(* The coroutine of a peer that closed comes to its end, be it the         *)
(* process's, unless decode does not.                                      *)
ClosedEnds == closed ~> (pc \in Stopped \/ Looping)

(* tinypb_coder.cpp:44, what is left to the next read: decode returns. *)
DecodeReturns == pc = "excute" ~> pc # "excute"
=============================================================================
