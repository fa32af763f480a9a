------------------------------ MODULE RpcCall -------------------------------
(***************************************************************************)
(* Calls through rocket::RpcChannel (rocket/net/rpc/rpc_channel.cpp): ids, *)
(* messages, both ends of the connections, the dispatcher, the registry of *)
(* services (rpc_registry.cpp) and a service that is found through it, the *)
(* Order of the programs under testcases, with what these do with answers. *)
(*                                                                         *)
(* A caller has one thread and, at a time, one channel, first to the       *)
(* registry, then to the address that it picked; each connection is served *)
(* by an IO thread of its own.  A connection delivers whole messages in    *)
(* order (bytes are TcpConnection's subject).  Neither end moves the read  *)
(* index of its out-buffer, so that each write sends all earlier messages  *)
(* again, also the first write of a connection that takes the place of one *)
(* that the peer has closed.  What happens between sending a request and   *)
(* its answer is TcpClient's subject: here the connection is refused or    *)
(* closed, the answer comes, or the time is over, and then a channel that  *)
(* was connected cannot be used any more.                                  *)
(***************************************************************************)
EXTENDS ScopeMutex, RpcDispatcher, MsgIDUtil, PbMessage, FiniteSets

(* Names are one letter each: "Register", "getTargetAddr",                 *)
(* "registerServer", "Order", "makeOrder".                                 *)
REGISTER == <<82>>
GET_TARGET_ADDR == <<71>>
REGISTER_SERVER == <<83>>
ORDER == <<79>>
MAKE_ORDER == <<77>>

(* A server is named by the service it has registered. *)
Peer == {REGISTER, ORDER}

CONSTANTS
  Caller,
  Requests,     \* what each caller may ask a peer in its first, second, ... call on
                \* a channel: records of a method_name and pb_data (a bound)
  UserIds,      \* ids that each caller may set itself in its calls of a peer
  RandomIds,    \* what /dev/urandom yields
  EarlierIds,   \* the last id of each caller's thread, if it made calls before
  MaxSockets,   \* connections that a channel makes, one after the other (a bound)
  Closing       \* the channels whose peer may close their connection (a bound)

Byte == 0 .. 255
Request == [method_name : Seq(Byte), pb_data : Seq(Item)]

Sockets == 1 .. MaxSockets
Connection == Caller \X Peer \X Sockets

ASSUME CallerAssumption == NoOwner \notin Connection
ASSUME SocketsAssumption == MaxSockets \in Nat \ {0}
ASSUME RequestsAssumption == Requests \in [Caller \X Peer -> Seq(SUBSET Request)]
ASSUME IdAssumption ==
  /\ UserIds \in [Caller \X Peer -> SUBSET Seq(Byte)]
  /\ EarlierIds \in [Caller -> Seq(Byte)]
  /\ \A random \in RandomIds : random \in Seq(Byte) /\ Len(random) >= g_msg_id_length

VARIABLES
  pc,          \* where each caller is
  channel,     \* its channel, client and connection
  call,        \* its call: the controller, the request and what came of it;
               \* fresh and known are kept for the properties
  response,    \* the response of that call
  m_service_cache,   \* what its TcpServer knows of the last target
  t_msg_id_no, t_max_msg_id_no,
  requests, replies, \* on the wire, per connection
  conn,        \* the server's end of each connection
  answered,    \* of each channel, the ids of requests whose method has run (kept
               \* for the properties)
  allService,  \* of the registry: the addresses of each service
  registered   \* <<service, address>> that a caller has been told of

ids == <<t_msg_id_no, t_max_msg_id_no>>
client == <<pc, channel, call, response, m_service_cache, ids>>
server == <<m_mutex, conn, answered, allService>>
wire == <<requests, replies>>
vars == <<client, server, wire, registered>>

To(c) == <<c, channel[c].peer>>
Own(c) == <<c, channel[c].peer, channel[c].socket>>

NoReplies == [id \in {} |-> <<>>]
NoCall == [controlled |-> TRUE, id |-> <<>>,
           request |-> [method_name |-> <<>>, pb_data |-> <<>>],
           fresh |-> TRUE, error_code |-> 0, done |-> 0, known |-> {}]

(* RpcChannel and its TcpClient; replaced says that the socket is not the  *)
(* one that was connected.                                                 *)
NewChannel(peer) ==
  [peer |-> peer, m_is_init |-> FALSE, socket |-> 1, connected |-> FALSE, replaced |-> FALSE,
   m_out_buffer |-> <<>>, m_reply_datas |-> NoReplies, ids |-> {}, calls |-> 0]

Init ==
  /\ m_mutex = NoOwner
  /\ pc = [c \in Caller |-> "idle"]
  /\ channel = [c \in Caller |-> NewChannel(REGISTER)]
  /\ call = [c \in Caller |-> NoCall]
  /\ response = [c \in Caller |-> <<>>]
  /\ m_service_cache = [c \in Caller |-> <<>>]
  /\ t_msg_id_no = EarlierIds
  /\ t_max_msg_id_no = [c \in Caller |->
       IF t_msg_id_no[c] = <<>> THEN <<>> ELSE [k \in 1 .. g_msg_id_length |-> NINE]]
  /\ requests = [k \in Connection |-> <<>>]
  /\ replies = [k \in Connection |-> <<>>]
  /\ conn = [k \in Connection |-> [pc |-> "read", todo |-> <<>>, m_out_buffer |-> <<>>]]
  /\ answered = [k \in Caller \X Peer |-> {}]
  /\ allService = NoReplies
  /\ registered = {}

-----------------------------------------------------------------------------
(* The methods, and the messages of each. *)
FullName(service, method) == service \o <<DOT>> \o method

IsLookup(request)       == request.method_name = FullName(REGISTER, GET_TARGET_ADDR)
IsRegistration(request) == request.method_name = FullName(REGISTER, REGISTER_SERVER)
IsOrder(request)        == request.method_name = FullName(ORDER, MAKE_ORDER)

(* The programs look services up at the registry only: a caller opens one  *)
(* channel to each peer at most.                                           *)
ASSUME LookupAssumption ==
  \A c \in Caller : \A n \in DOMAIN Requests[<<c, ORDER>>] :
    \A request \in Requests[<<c, ORDER>>][n] : ~IsLookup(request)

RequestPrototype(request) ==
  CASE IsLookup(request) -> GetTargetAddrReq
    [] IsRegistration(request) -> RegisterServerReq
    [] IsOrder(request) -> makeOrderRequest
    [] OTHER -> <<>>

ResponsePrototype(request) ==
  CASE IsLookup(request) -> GetTargetAddrResp
    [] IsRegistration(request) -> RegisterServerResp
    [] IsOrder(request) -> makeOrderResponse
    [] OTHER -> <<>>

Message(request) == ParseFromString(RequestPrototype(request), request.pb_data)

-----------------------------------------------------------------------------
(* Strings that went through a decoder end at their first zero byte. *)
CString(bytes) ==
  LET zeros == {k \in DOMAIN bytes : bytes[k] = 0}
  IN  IF zeros = {} THEN bytes ELSE SubSeq(bytes, 1, Min(zeros) - 1)

Decoded(messages) == [k \in DOMAIN messages |-> [messages[k] EXCEPT !.msg_id = CString(@)]]

(* RpcChannel::Init; a second one changes nothing. *)
InitChannel(c) ==
  /\ pc[c] \in {"idle", "picked"} /\ ~channel[c].m_is_init
  /\ channel' = [channel EXCEPT ![c].m_is_init = TRUE]
  /\ UNCHANGED <<pc, call, response, m_service_cache, ids, server, wire, registered>>

(* Whether a decoder can tell an id from the ids of all earlier calls on   *)
(* the channel.                                                            *)
IsFresh(id, earlier) == \A i \in earlier : CString(i) # CString(id)

(* A caller may make its next call. *)
Ready(c) ==
  /\ pc[c] \in {"idle", "picked"} /\ ~channel[c].replaced
  /\ channel[c].calls < Len(Requests[To(c)])

(* CallMethod with a controller that is not an RpcController returns: the  *)
(* program finds neither an error nor a response.                          *)
CallUncontrolled(c) ==
  /\ Ready(c)
  /\ \E request \in Requests[To(c)][channel[c].calls + 1] :
       /\ call' = [call EXCEPT ![c] =
            [NoCall EXCEPT !.controlled = FALSE, !.request = request, !.known = registered]]
       /\ response' = [response EXCEPT ![c] = Clear(ResponsePrototype(request))]
  /\ channel' = [channel EXCEPT ![c].calls = @ + 1]
  /\ pc' = [pc EXCEPT ![c] = "returned"]
  /\ UNCHANGED <<m_service_cache, ids, server, wire, registered>>

(* CallMethod up to the request in the out-buffer: the id is the caller's, *)
(* or a generated one.  encode always finds its message parsed.            *)
CallMethod(c) ==
  /\ Ready(c)
  /\ \E request \in Requests[To(c)][channel[c].calls + 1],
        user_id \in UserIds[To(c)] \cup {<<>>}, random \in RandomIds :
       LET generated == GenMsgID(t_msg_id_no[c], t_max_msg_id_no[c], random)
           id == IF user_id = <<>> THEN generated ELSE user_id
           message == [msg_id |-> id, method_name |-> request.method_name,
                       err_code |-> 0, err_info |-> <<>>, pb_data |-> request.pb_data]
           error == IF ~channel[c].m_is_init THEN ERROR_RPC_CHANNEL_INIT
                    ELSE IF ~Fits(request.pb_data) THEN ERROR_FAILED_SERIALIZE ELSE 0
       IN  /\ IF user_id = <<>>
              THEN /\ t_msg_id_no' = [t_msg_id_no EXCEPT ![c] = generated]
                   /\ t_max_msg_id_no' = [t_max_msg_id_no EXCEPT
                        ![c] = MaxMsgID(t_msg_id_no[c], t_max_msg_id_no[c])]
              ELSE UNCHANGED ids
           /\ call' = [call EXCEPT ![c] =
                [controlled |-> TRUE, id |-> id, request |-> request,
                 fresh |-> IsFresh(id, channel[c].ids), error_code |-> error, done |-> 0,
                 known |-> registered]]
           /\ response' = [response EXCEPT ![c] = Clear(ResponsePrototype(request))]
           /\ channel' = [channel EXCEPT
                ![c].calls = @ + 1,
                ![c].ids = IF error = 0 THEN @ \cup {id} ELSE @,
                ![c].m_out_buffer = IF error = 0 THEN Append(@, message) ELSE @]
           /\ pc' = [pc EXCEPT ![c] = IF error = 0 THEN "connect" ELSE "returned"]
  /\ UNCHANGED <<m_service_cache, server, wire, registered>>

(* sendAndRecvTinyPb: the socket connects, unless it is connected, and the *)
(* out-buffer is written, with the requests of earlier calls.              *)
Connect(c) ==
  /\ pc[c] = "connect"
  /\ channel' = [channel EXCEPT ![c].connected = TRUE]
  /\ requests' = [requests EXCEPT ![Own(c)] = @ \o channel[c].m_out_buffer]
  /\ pc' = [pc EXCEPT ![c] = "wait"]
  /\ UNCHANGED <<call, response, m_service_cache, ids, server, replies, registered>>

(* A refused connection, and one that takes longer than the call may; the  *)
(* new socket is one that has not been connected, as the old one was.      *)
ConnectFails(c) ==
  /\ pc[c] = "connect" /\ ~channel[c].connected
  /\ \E error \in {ERROR_PEER_CLOSED, ERROR_RPC_CALL_TIMEOUT} :
       call' = [call EXCEPT ![c].error_code = error]
  /\ pc' = [pc EXCEPT ![c] = "returned"]
  /\ UNCHANGED <<channel, response, m_service_cache, ids, server, wire, registered>>

(* The timer of the call; the socket is replaced, and what was sent on the *)
(* old one still arrives.                                                  *)
Timeout(c) ==
  /\ pc[c] = "wait"
  /\ call' = [call EXCEPT ![c].error_code = ERROR_RPC_CALL_TIMEOUT]
  /\ channel' = [channel EXCEPT ![c].replaced = TRUE]
  /\ replies' = [replies EXCEPT ![Own(c)] = <<>>]
  /\ pc' = [pc EXCEPT ![c] = "returned"]
  /\ UNCHANGED <<response, m_service_cache, ids, server, requests, registered>>

(* The peer has closed the connection, or it was cut, with or without the  *)
(* loss of what was under way; its end may be busy with it all the same.   *)
(* The connection's state is Closed, so that the next call connects again. *)
PeerCloses(c) ==
  /\ pc[c] = "wait" /\ To(c) \in Closing /\ channel[c].socket < MaxSockets
  /\ call[c].id \notin DOMAIN channel[c].m_reply_datas
  /\ call' = [call EXCEPT ![c].error_code = ERROR_PEER_CLOSED]
  /\ channel' = [channel EXCEPT ![c].socket = @ + 1, ![c].connected = FALSE]
  /\ pc' = [pc EXCEPT ![c] = "returned"]
  /\ UNCHANGED <<response, m_service_cache, ids, server, wire, registered>>

(* insert, of each in its turn: the first reply with an id stays. *)
Inserted(m_reply_datas, messages) ==
  LET ids_of == {messages[k].msg_id : k \in DOMAIN messages}
      first(id) == Min({k \in DOMAIN messages : messages[k].msg_id = id})
  IN  [id \in DOMAIN m_reply_datas \cup ids_of |->
         IF id \in DOMAIN m_reply_datas THEN m_reply_datas[id] ELSE messages[first(id)]]

(* onRead and excute of the client: some of the replies are there. *)
Receive(c) ==
  /\ pc[c] = "wait"
  /\ call[c].id \notin DOMAIN channel[c].m_reply_datas
  /\ \E k \in 1 .. Len(replies[Own(c)]) :
       /\ channel' = [channel EXCEPT ![c].m_reply_datas =
            Inserted(@, Decoded(SubSeq(replies[Own(c)], 1, k)))]
       /\ replies' = [replies EXCEPT ![Own(c)] = SubSeq(@, k + 1, Len(@))]
  /\ UNCHANGED <<pc, call, response, m_service_cache, ids, server, requests, registered>>

Reply(c) == channel[c].m_reply_datas[call[c].id]
Rest(c) == [id \in DOMAIN channel[c].m_reply_datas \ {call[c].id} |-> channel[c].m_reply_datas[id]]

(* The response is parsed before the error of the reply is looked at; it   *)
(* always parses, being what the server serialised.                        *)
Parsed(c) ==
  [response EXCEPT ![c] = ParseFromString(ResponsePrototype(call[c].request), Reply(c).pb_data)]

(* Mutant: the error is set, and the call goes on to its closure. *)
AnswerErrorGoesOn(c) ==
  /\ pc[c] = "wait"
  /\ call[c].id \in DOMAIN channel[c].m_reply_datas
  /\ Reply(c).err_code # 0
  /\ response' = Parsed(c)
  /\ call' = [call EXCEPT ![c].error_code = Reply(c).err_code, ![c].done = @ + 1]
  /\ channel' = [channel EXCEPT ![c].m_reply_datas = Rest(c)]
  /\ pc' = [pc EXCEPT ![c] = "returned"]
  /\ UNCHANGED <<m_service_cache, ids, server, wire, registered>>

AnswerError(c) ==
  /\ pc[c] = "wait"
  /\ call[c].id \in DOMAIN channel[c].m_reply_datas
  /\ Reply(c).err_code # 0
  /\ response' = Parsed(c)
  /\ call' = [call EXCEPT ![c].error_code = Reply(c).err_code]
  /\ channel' = [channel EXCEPT ![c].m_reply_datas = Rest(c)]
  /\ pc' = [pc EXCEPT ![c] = "returned"]
  /\ UNCHANGED <<m_service_cache, ids, server, wire, registered>>

ServiceAndAddress(request) ==
  <<servicename(Message(request)), serviceipandport(Message(request))>>

(* A call without an error runs its closure. *)
Answer(c) ==
  /\ pc[c] = "wait"
  /\ call[c].id \in DOMAIN channel[c].m_reply_datas
  /\ Reply(c).err_code = 0
  /\ response' = Parsed(c)
  /\ call' = [call EXCEPT ![c].done = @ + 1]
  /\ registered' =
       IF IsRegistration(call[c].request) /\ call[c].fresh
       THEN registered \cup {ServiceAndAddress(call[c].request)} ELSE registered
  /\ channel' = [channel EXCEPT ![c].m_reply_datas = Rest(c)]
  /\ pc' = [pc EXCEPT ![c] = "returned"]
  /\ UNCHANGED <<m_service_cache, ids, server, wire>>

(* The program goes on: the addresses of a lookup go to updateService,     *)
(* without a look at the error.                                            *)
UpdateService(c) ==
  /\ pc[c] = "returned"
  /\ IsLookup(call[c].request)
  /\ m_service_cache' = [m_service_cache EXCEPT ![c] = targetserviceipandport(response[c])]
  /\ pc' = [pc EXCEPT ![c] = "pick"]
  /\ UNCHANGED <<channel, call, response, ids, server, wire, registered>>

(* getServiceWithLoadBalance: a random element, and of an empty vector     *)
(* whatever is behind it.                                                  *)
Pick(c) ==
  /\ pc[c] = "pick"
  /\ pc' = [pc EXCEPT ![c] = IF m_service_cache[c] = <<>> THEN "undefined" ELSE "picked"]
  /\ UNCHANGED <<channel, call, response, m_service_cache, ids, server, wire, registered>>

(* A new channel, to the address; the old one's socket is closed. *)
OpenChannel(c) ==
  /\ pc[c] = "picked"
  /\ channel' = [channel EXCEPT ![c] = NewChannel(ORDER)]
  /\ replies' = [replies EXCEPT ![Own(c)] = <<>>]
  /\ pc' = [pc EXCEPT ![c] = "idle"]
  /\ UNCHANGED <<call, response, m_service_cache, ids, server, requests, registered>>

GoOn(c) ==
  /\ pc[c] = "returned"
  /\ ~IsLookup(call[c].request)
  /\ pc' = [pc EXCEPT ![c] = "idle"]
  /\ UNCHANGED <<channel, call, response, m_service_cache, ids, server, wire, registered>>

-----------------------------------------------------------------------------
(* The servers' ends: onRead, excute and onWrite, over and over.           *)

ServerReads(k) ==
  /\ conn[k].pc = "read"
  /\ \E n \in 1 .. Len(requests[k]) :
       /\ conn' = [conn EXCEPT ![k].todo = Decoded(SubSeq(requests[k], 1, n)),
                               ![k].pc = "excute"]
       /\ requests' = [requests EXCEPT ![k] = SubSeq(@, n + 1, Len(@))]
  /\ UNCHANGED <<client, m_mutex, answered, allService, replies, registered>>

(* The services as their dispatchers see them: methods of what can be      *)
(* parsed; the registry with these addresses.                              *)
AllRequests == UNION {UNION Range(Requests[k]) : k \in Caller \X Peer}
Bodies == {r.pb_data : r \in {q \in AllRequests : Parses(q.pb_data)}}
Addresses(all, service) == IF service \in DOMAIN all THEN all[service] ELSE <<>>

getTargetAddr(all, request) ==
  add_targetserviceipandport(Clear(GetTargetAddrResp),
                             Addresses(all, targetservicename(request)))

RpcRegistry(all) ==
  [name \in {GET_TARGET_ADDR, REGISTER_SERVER} |->
     [body \in Bodies |->
        IF name = REGISTER_SERVER
        THEN SerializeToString(RegisterServerResp, Clear(RegisterServerResp))
        ELSE SerializeToString(GetTargetAddrResp,
               getTargetAddr(all, ParseFromString(GetTargetAddrReq, body)))]]

SHORT_BALANCE == <<66>>
ORDER_ID == <<50, 48>>

makeOrder(request) ==
  LET made == Clear(makeOrderResponse)
  IN  IF price(request) < 10
      THEN set_res_info(set_ret_code(made, -1), SHORT_BALANCE)
      ELSE set_order_id(made, ORDER_ID)

OrderImpl ==
  [name \in {MAKE_ORDER} |->
     [body \in Bodies |->
        SerializeToString(makeOrderResponse, makeOrder(ParseFromString(makeOrderRequest, body)))]]

m_service_map(peer, all) ==
  registerService(NoReplies, peer, IF peer = REGISTER THEN RpcRegistry(all) ELSE OrderImpl)

Current(k) == Head(conn[k].todo)
ReplyNow(k) == dispatch(m_service_map(k[2], allService), Current(k))

Runs(k) == ReplyNow(k).err_code \notin ServerErrors

(* A request that names no method, or cannot be parsed, is answered with   *)
(* the error ...                                                           *)
ExcuteError(k) ==
  /\ conn[k].pc = "excute" /\ conn[k].todo # <<>>
  /\ ~Runs(k)
  /\ conn' = [conn EXCEPT ![k].m_out_buffer = Append(@, ReplyNow(k)), ![k].todo = Tail(@)]
  /\ UNCHANGED <<client, m_mutex, answered, allService, wire, registered>>

Chan(k) == <<k[1], k[2]>>
Answered(k) == [answered EXCEPT ![Chan(k)] = @ \cup {Current(k).msg_id}]

(* ... and any other calls the method.  An order depends on nothing. *)
ExcuteOrder(k) ==
  /\ conn[k].pc = "excute" /\ conn[k].todo # <<>>
  /\ k[2] = ORDER
  /\ Runs(k)
  /\ conn' = [conn EXCEPT ![k].m_out_buffer = Append(@, ReplyNow(k)), ![k].todo = Tail(@)]
  /\ answered' = Answered(k)
  /\ UNCHANGED <<client, m_mutex, allService, wire, registered>>

(* A method of the registry locks the table, ... *)
ExcuteMethod(k) ==
  /\ conn[k].pc = "excute" /\ conn[k].todo # <<>>
  /\ k[2] = REGISTER
  /\ Runs(k)
  /\ Construct(k)
  /\ conn' = [conn EXCEPT ![k].pc = "access"]
  /\ UNCHANGED <<client, answered, allService, wire, registered>>

(* Two threads at the table have no defined next step there. *)
Alone(k) == \A d \in Connection \ {k} : conn[d].pc # "access"

(* Mutant: a registration takes the place of those before it. *)
RegisteredInstead(all, service, address) ==
  [s \in DOMAIN all \cup {service} |-> IF s = service THEN <<address>> ELSE all[s]]

(* push_back *)
Registered(all, service, address) ==
  [s \in DOMAIN all \cup {service} |->
     IF s = service THEN Append(Addresses(all, s), address) ELSE all[s]]

(* ... reads it or adds to it (operator[] makes an entry either way) and   *)
(* unlocks, ...                                                            *)
Access(k) ==
  /\ conn[k].pc = "access" /\ Alone(k)
  /\ LET r == Current(k)
         target == targetservicename(Message(r))
     IN  /\ allService' =
              IF IsRegistration(r)
              THEN Registered(allService, ServiceAndAddress(r)[1], ServiceAndAddress(r)[2])
              ELSE [s \in DOMAIN allService \cup {target} |-> Addresses(allService, s)]
  /\ conn' = [conn EXCEPT ![k].m_out_buffer = Append(@, ReplyNow(k)), ![k].pc = "return"]
  /\ answered' = Answered(k)
  /\ Unlock
  /\ UNCHANGED <<client, wire, registered>>

(* ... and the end of the guard's scope unlocks again. *)
MethodReturns(k) ==
  /\ conn[k].pc = "return"
  /\ Destruct
  /\ conn' = [conn EXCEPT ![k].todo = Tail(@), ![k].pc = "excute"]
  /\ UNCHANGED <<client, answered, allService, wire, registered>>

(* The whole out-buffer is written; a socket that the client has closed    *)
(* takes nothing.                                                          *)
ServerWrites(k) ==
  /\ conn[k].pc = "excute" /\ conn[k].todo = <<>>
  /\ replies' = [replies EXCEPT ![k] =
       IF Own(k[1]) # k \/ channel[k[1]].replaced THEN @ ELSE @ \o conn[k].m_out_buffer]
  /\ conn' = [conn EXCEPT ![k].pc = "read"]
  /\ UNCHANGED <<client, m_mutex, answered, allService, requests, registered>>

Next ==
  \/ \E c \in Caller :
       \/ InitChannel(c) \/ CallMethod(c) \/ CallUncontrolled(c)
       \/ Connect(c) \/ ConnectFails(c) \/ PeerCloses(c) \/ Timeout(c)
       \/ Receive(c) \/ AnswerError(c) \/ Answer(c)
       \/ UpdateService(c) \/ Pick(c) \/ OpenChannel(c) \/ GoOn(c)
  \/ \E k \in Connection :
       \/ ServerReads(k) \/ ExcuteError(k) \/ ExcuteOrder(k) \/ ExcuteMethod(k)
       \/ Access(k) \/ MethodReturns(k) \/ ServerWrites(k)

Spec == Init /\ [][Next]_vars
-----------------------------------------------------------------------------
TypeOK ==
  /\ m_mutex \in Connection \cup {NoOwner}
  /\ pc \in [Caller -> {"idle", "connect", "wait", "returned", "pick", "picked", "undefined"}]
  /\ \A k \in Connection : conn[k].pc \in {"read", "excute", "access", "return"}
  /\ \A c \in Caller :
       /\ channel[c].peer \in Peer
       /\ channel[c].socket \in Sockets
       /\ channel[c].calls \in 0 .. Len(Requests[To(c)])
       /\ call[c].error_code \in Nat /\ call[c].done \in 0 .. 1
       /\ Len(response[c]) = Len(ResponsePrototype(call[c].request))
       /\ call[c].id \in Seq(0 .. 255)

(* CallMethod (rpc_channel.cpp:24-108) ends in one way.  With a controller *)
(* that is not an RpcController it leaves nothing: no error, no closure.   *)
(* With one, its closure ran once, there is no error and the method has    *)
(* run at the server, or there is an error and the closure did not run.    *)
(* An error that a request cannot be dispatched, or that the channel is    *)
(* not initialised, means that the method did not run; that something      *)
(* could not be serialised means that it ran exactly if the request was    *)
(* sent (rpc_dispatcher.cpp:80-86, rpc_channel.cpp:56-62).  Except for a   *)
(* call whose id a decoder cannot tell from an earlier one's on its        *)
(* channel: it is given the earlier's answer, which is sent again.         *)
CallHasOneOutcome ==
  \A c \in Caller :
    LET k == call[c]
        ran == k.id \in answered[To(c)]
    IN  pc[c] = "returned" /\ k.fresh =>
          /\ k.error_code = 0 /\ k.done = 0 <=> ~k.controlled
          /\ k.error_code # 0 => k.done = 0
          /\ k.done = 1 => ran
          /\ k.error_code \in ServerErrors \cup {ERROR_RPC_CHANNEL_INIT} => ~ran
          /\ k.error_code = ERROR_FAILED_SERIALIZE => (ran <=> k.id \in channel[c].ids)

(* A lookup (rpc_registry.cpp:11-22), in whatever order the threads of the *)
(* registry run, gives the addresses of the service as they were at one    *)
(* time, in the order they were registered, and at the least those whose   *)
(* registration had been confirmed to any caller when the lookup began.    *)
LookupIsCurrent ==
  \A c \in Caller :
    LET k == call[c]
        target == targetservicename(Message(k.request))
        found == targetserviceipandport(response[c])
    IN  pc[c] = "returned" /\ IsLookup(k.request) /\ k.fresh /\ k.done = 1 =>
          /\ IsPrefix(found, Addresses(allService, target))
          /\ \A r \in k.known : r[1] = target => r[2] \in Range(found)

(* A reply on its way back has the id of a request of its connection, so   *)
(* that the call that waits for it can find it, unless the id has a zero   *)
(* byte, at which the decoder cuts it.                                     *)
ReplyFindsCall ==
  \A c \in Caller : \A k \in DOMAIN replies[Own(c)] :
    \/ replies[Own(c)][k].msg_id \in channel[c].ids
    \/ \E id \in channel[c].ids : 0 \in Range(id)

(* What an order is told (test_rpc_server.cpp:23-28) is about its own      *)
(* price, although its connection carries earlier orders, too: it has an   *)
(* order id or a refusal, never both, and the former only for a price from *)
(* 10 on.                                                                  *)
OrderIsItsOwn ==
  \A c \in Caller :
    LET k == call[c]
        placed == price(Message(k.request)) >= 10
    IN  pc[c] = "returned" /\ IsOrder(k.request) /\ k.fresh /\ k.done = 1 =>
          /\ placed <=> ret_code(response[c]) = 0
          /\ placed <=> order_id(response[c]) # <<>>
=============================================================================
