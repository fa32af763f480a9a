---------------------------- MODULE RpcCallProofs ----------------------------
(***************************************************************************)
(* Proofs about RpcCall, for any callers, whatever they ask and whichever  *)
(* ids they use: what a call is answered is the answer to its request.     *)
(***************************************************************************)
EXTENDS RpcCall, SequenceTheorems, FiniteSetTheorems, WellFoundedInduction, TLAPS

-----------------------------------------------------------------------------
(* The types, with those of the messages.                                  *)

TinyPBProtocol == [msg_id : Seq(Byte), method_name : Seq(Byte), err_code : Nat,
                   err_info : Seq(Byte), pb_data : Seq(Item)]

ReplyDatas == UNION {[D -> TinyPBProtocol] : D \in SUBSET Seq(Byte)}

ServiceAddress == Seq(Byte) \X Seq(Byte)

ChannelType ==
  [peer : Peer, m_is_init : BOOLEAN, socket : Sockets, connected : BOOLEAN, replaced : BOOLEAN,
   m_out_buffer : Seq(TinyPBProtocol), m_reply_datas : ReplyDatas,
   ids : SUBSET Seq(Byte), calls : Nat]

CallType ==
  [controlled : BOOLEAN, id : Seq(Byte), request : Request, fresh : BOOLEAN,
   error_code : Nat, done : 0 .. 1, known : SUBSET ServiceAddress]

ConnType ==
  [pc : {"read", "excute", "access", "return"}, todo : Seq(TinyPBProtocol),
   m_out_buffer : Seq(TinyPBProtocol)]

ClientTypes ==
  /\ pc \in [Caller -> {"idle", "connect", "wait", "returned", "pick", "picked", "undefined"}]
  /\ channel \in [Caller -> ChannelType]
  /\ call \in [Caller -> CallType]
  /\ DOMAIN response = Caller
  /\ t_msg_id_no \in [Caller -> Seq(Byte)]

ServerTypes ==
  /\ m_mutex \in Connection \cup {NoOwner}
  /\ conn \in [Connection -> ConnType]
  /\ answered \in [Caller \X Peer -> SUBSET Seq(Byte)]
  /\ \A service \in DOMAIN allService : allService[service] \in Seq(Seq(Byte))
  /\ registered \subseteq ServiceAddress

WireTypes ==
  /\ requests \in [Connection -> Seq(TinyPBProtocol)]
  /\ replies \in [Connection -> Seq(TinyPBProtocol)]

Types == ClientTypes /\ ServerTypes /\ WireTypes

(* What a caller may ask, and the response that belongs to its call. *)
Bounded(c) ==
  /\ channel[c].calls <= Len(Requests[To(c)])
  /\ Len(response[c]) = Len(ResponsePrototype(call[c].request))

-----------------------------------------------------------------------------
(* The error that a peer answers a request with for which it runs no       *)
(* method, or 0; no registration can change it.                            *)
Methods(peer) == IF peer = REGISTER THEN {GET_TARGET_ADDR, REGISTER_SERVER} ELSE {MAKE_ORDER}

ErrorOf(peer, q) ==
  IF Dots(q.method_name) = {} THEN ERROR_PARSE_SERVICE_NAME
  ELSE IF ServiceName(q.method_name) # peer THEN ERROR_SERVICE_NOT_FOUND
  ELSE IF MethodName(q.method_name) \notin Methods(peer) THEN ERROR_METHOD_NOT_FOUND
  ELSE IF q.pb_data \notin Bodies THEN ERROR_FAILED_DESERIALIZE
  ELSE 0

(* What is in the out-buffer of a channel has been or will be sent. *)
Sent(c) == Range(channel[c].m_out_buffer)

Cut(message) == [message EXCEPT !.msg_id = CString(@)]

Same(q, r) == q.method_name = r.method_name /\ q.pb_data = r.pb_data

Target(q) == targetservicename(Message(q))

OrderBody(q) ==
  InternalSerialize(makeOrderResponse, makeOrder(ParseFromString(makeOrderRequest, q.pb_data)))

(* A body that lists some of these addresses, from the first on. *)
Lists(body, addresses) ==
  /\ Len(body) <= Len(addresses)
  /\ \A i \in 1 .. Len(body) : body[i] = <<3, "string", addresses[i]>>

(* What a reply without an error says. *)
Told(body, q) ==
  /\ IsLookup(q) => Lists(body, Addresses(allService, Target(q)))
  /\ IsRegistration(q) =>
       ServiceAndAddress(q)[2] \in Range(Addresses(allService, ServiceAndAddress(q)[1]))
  /\ IsOrder(q) => body = OrderBody(q)

Answers(to, p, q) ==
  /\ p.msg_id = CString(q.msg_id)
  /\ ErrorOf(to[2], q) # 0 => p.err_code = ErrorOf(to[2], q)
  /\ ErrorOf(to[2], q) = 0 =>
       p.err_code \in {0, ERROR_FAILED_SERIALIZE} /\ p.msg_id \in answered[to]
  /\ p.err_code = 0 => Told(p.pb_data, q)

Asking(c) == pc[c] \in {"connect", "wait"} /\ call[c].fresh

(* Of the addresses of its service, those that the caller could know of    *)
(* when it asked.                                                          *)
ListsKnown(c, body) ==
  \A r \in call[c].known : r[1] = Target(call[c].request) =>
    \E i \in 1 .. Len(body) : body[i] = <<3, "string", r[2]>>

SoundReply(c, p) ==
  /\ \E q \in Sent(c) : Answers(To(c), p, q)
  /\ Asking(c) /\ IsLookup(call[c].request) /\ p.msg_id = CString(call[c].id) /\ p.err_code = 0
       => ListsKnown(c, p.pb_data)

-----------------------------------------------------------------------------
(* The server has of each connection of a channel, also of one that the    *)
(* channel uses no more, what the channel sent, the decoder's cut applied, *)
(* and answers that.                                                       *)
RequestsSent(c) ==
  /\ \A q \in Sent(c) : q.msg_id \in channel[c].ids
  /\ \A k \in Connection : Chan(k) = To(c) =>
       /\ Range(requests[k]) \subseteq Sent(c)
       /\ \A q \in Range(conn[k].todo) : \E m \in Sent(c) : q = Cut(m)

AnsweredSent(c) ==
  \A id \in answered[To(c)] :
    \E q \in Sent(c) : id = CString(q.msg_id) /\ ErrorOf(channel[c].peer, q) = 0

(* The replies on their way to the caller, and those that it has. *)
Replies(c) ==
  Range(conn[Own(c)].m_out_buffer) \cup Range(replies[Own(c)])
    \cup Range(channel[c].m_reply_datas)

RepliesSound(c) ==
  /\ \A p \in Replies(c) : SoundReply(c, p)
  /\ \A id \in DOMAIN channel[c].m_reply_datas : channel[c].m_reply_datas[id].msg_id = id

(* A connection that serves a method of the registry has its request. *)
Serving(k) ==
  /\ conn[k].pc \in {"access", "return"} => conn[k].todo # <<>>
  /\ conn[k].pc = "access" => k[2] = REGISTER /\ ErrorOf(REGISTER, Head(conn[k].todo)) = 0

Idle(k) ==
  /\ requests[k] = <<>> /\ replies[k] = <<>>
  /\ conn[k] = [pc |-> "read", todo |-> <<>>, m_out_buffer |-> <<>>]

(* A connection that the caller's channel has not come to. *)
Later(c, k) ==
  /\ k[1] = c
  /\ \/ channel[c].peer = REGISTER /\ k[2] = ORDER
     \/ k[2] = channel[c].peer /\ k[3] > channel[c].socket

(* Nothing goes to a connection before it is made. *)
Unopened(c) ==
  /\ \A k \in Connection : Later(c, k) => Idle(k)
  /\ channel[c].peer = REGISTER => answered[<<c, ORDER>>] = {}

AtRegistry(c) ==
  \/ pc[c] \in {"pick", "picked"}
  \/ pc[c] \in {"connect", "wait", "returned"} /\ IsLookup(call[c].request)
  => channel[c].peer = REGISTER

(* The id of a fresh call names its request alone. *)
Unique(c) ==
  \A q \in Sent(c) : CString(q.msg_id) = CString(call[c].id) => Same(q, call[c].request)

Pending(c) ==
  /\ pc[c] \in {"connect", "wait"} =>
       /\ call[c].controlled /\ call[c].error_code = 0 /\ call[c].done = 0
       /\ call[c].id \in channel[c].ids
  /\ Asking(c) => Unique(c)

ResponseTold(c) ==
  /\ IsLookup(call[c].request) =>
       LET found == targetserviceipandport(response[c])
       IN  /\ found \in Seq(Seq(Byte))
           /\ IsPrefix(found, Addresses(allService, Target(call[c].request)))
           /\ \A r \in call[c].known : r[1] = Target(call[c].request) => r[2] \in Range(found)
  /\ IsOrder(call[c].request) =>
       response[c] = ParseFromString(makeOrderResponse, OrderBody(call[c].request))

(* No decoder can take what was sent for the request of the call. *)
Unsent(c) ==
  /\ call[c].id \notin channel[c].ids
  /\ \A q \in Sent(c) : CString(q.msg_id) # CString(call[c].id)

Ended(c) ==
  /\ ~call[c].controlled => call[c].error_code = 0 /\ call[c].done = 0
  /\ call[c].error_code # 0 => call[c].done = 0
  /\ call[c].controlled /\ call[c].error_code = 0 =>
       /\ call[c].done = 1 /\ call[c].id \in answered[To(c)] /\ ResponseTold(c)
       /\ IsOrder(call[c].request) => ErrorOf(channel[c].peer, call[c].request) = 0
  /\ call[c].error_code \in ServerErrors =>
       Unique(c) /\ ErrorOf(channel[c].peer, call[c].request) # 0
  /\ call[c].error_code = ERROR_RPC_CHANNEL_INIT => Unsent(c)
  /\ call[c].error_code = ERROR_FAILED_SERIALIZE =>
       \/ call[c].id \in channel[c].ids /\ call[c].id \in answered[To(c)]
       \/ Unsent(c)

Outcome(c) == pc[c] = "returned" /\ call[c].fresh => Ended(c)

(* What callers have been told is in the table, and they asked after that. *)
RegisteredHeld ==
  /\ \A r \in registered : r[2] \in Range(Addresses(allService, r[1]))
  /\ \A c \in Caller : call[c].known \subseteq registered

CallerInv(c) ==
  /\ RequestsSent(c) /\ AnsweredSent(c) /\ RepliesSound(c)
  /\ Unopened(c) /\ AtRegistry(c) /\ Pending(c) /\ Outcome(c)

IInv ==
  /\ Types
  /\ \A c \in Caller : Bounded(c) /\ CallerInv(c)
  /\ \A k \in Connection : Serving(k)
  /\ RegisteredHeld

-----------------------------------------------------------------------------
(* Least and greatest elements, and the elements of sequences.             *)

LEMMA LeastElement ==
  ASSUME NEW S \in SUBSET Nat, S # {}
  PROVE  \E m \in S : \A i \in S : m <= i
  <1> DEFINE R == OpToRel(<, Nat)
  <1>1. R = {p \in Nat \X Nat : p[1] < p[2]}
    BY Zenon DEF OpToRel
  <1>2. IsWellFoundedOn(R, Nat)
    BY NatLessThanWellFounded, Zenon
  <1> HIDE DEF R
  <1>3. PICK m \in S : \A i \in S : ~(<<i, m>> \in R)
    BY <1>2, WFMin
  <1>4. ASSUME NEW i \in S PROVE m <= i
    <2>1. i \in Nat /\ m \in Nat
      OBVIOUS
    <2>2. ~(<<i, m>> \in R)
      BY <1>3
    <2>3. ~(i < m)
      BY <1>1, <2>1, <2>2
    <2> QED
      BY <2>1, <2>3
  <1> QED
    BY <1>4

LEMMA MinElement ==
  ASSUME NEW S \in SUBSET Nat, S # {}
  PROVE  Min(S) \in S /\ \A i \in S : Min(S) <= i
  BY LeastElement, Zenon DEF Min

LEMMA MaxElement ==
  ASSUME NEW n \in Nat, NEW S \in SUBSET (1 .. n), S # {}
  PROVE  Max(S) \in S
  <1> DEFINE T == {n - i : i \in S}
  <1>1. T \in SUBSET Nat /\ T # {}
    <2>1. ASSUME NEW i \in S PROVE n - i \in Nat
      <3>1. i \in 1 .. n
        OBVIOUS
      <3> QED
        BY <3>1
    <2> QED
      BY <2>1
  <1>2. PICK m \in T : \A i \in T : m <= i
    BY <1>1, LeastElement
  <1>3. PICK x \in S : m = n - x
    OBVIOUS
  <1>4. ASSUME NEW y \in S PROVE x >= y
    <2>1. x \in 1 .. n /\ y \in 1 .. n /\ n - y \in T
      OBVIOUS
    <2>2. n - x <= n - y
      BY <1>2, <1>3, <2>1
    <2> QED
      BY <2>1, <2>2
  <1> QED
    BY <1>4, Zenon DEF Max

LEMMA RangeAppend ==
  ASSUME NEW S, NEW s \in Seq(S), NEW e \in S
  PROVE  Range(Append(s, e)) = Range(s) \cup {e}
  <1> DEFINE t == Append(s, e)
             n == Len(s)
  <1>1. /\ n \in Nat /\ DOMAIN s = 1 .. n /\ DOMAIN t = 1 .. n + 1
        /\ t[n + 1] = e /\ \A i \in 1 .. n : t[i] = s[i]
    OBVIOUS
  <1>2. 1 .. n + 1 = 1 .. n \cup {n + 1}
    BY <1>1
  <1> HIDE DEF t, n
  <1>3. Range(t) = {t[i] : i \in 1 .. n} \cup {t[n + 1]}
    BY <1>1, <1>2 DEF Range
  <1>4. Range(s) = {t[i] : i \in 1 .. n}
    BY <1>1 DEF Range
  <1> QED
    BY <1>1, <1>3, <1>4 DEF t

LEMMA RangeSubSeq ==
  ASSUME NEW S, NEW s \in Seq(S), NEW m \in 1 .. Len(s) + 1, NEW n \in 0 .. Len(s)
  PROVE  SubSeq(s, m, n) \in Seq(S) /\ Range(SubSeq(s, m, n)) \subseteq Range(s)
  BY DEF Range

LEMMA RangeTail ==
  ASSUME NEW S, NEW s \in Seq(S), s # <<>>
  PROVE  /\ Tail(s) \in Seq(S) /\ Range(Tail(s)) \subseteq Range(s)
         /\ Head(s) \in S /\ Head(s) \in Range(s)
  BY DEF Range

LEMMA RangeEmpty == Range(<<>>) = {}
  BY DEF Range

-----------------------------------------------------------------------------
(* What a decoder leaves of an id.                                         *)

LEMMA CStringType ==
  ASSUME NEW b \in Seq(Byte)
  PROVE  CString(b) \in Seq(Byte) /\ \A k \in DOMAIN CString(b) : CString(b)[k] # 0
  <1> DEFINE zeros == {k \in DOMAIN b : b[k] = 0}
             m == Min(zeros)
  <1>1. CString(b) = IF zeros = {} THEN b ELSE SubSeq(b, 1, m - 1)
    BY DEF CString
  <1>2. CASE zeros = {}
    BY <1>1, <1>2
  <1>3. CASE zeros # {}
    <2>1. zeros \in SUBSET Nat
      OBVIOUS
    <2>2. m \in zeros /\ \A i \in zeros : m <= i
      BY <1>3, <2>1, MinElement
    <2> HIDE DEF m
    <2>3. m \in 1 .. Len(b) /\ \A k \in 1 .. m - 1 : b[k] # 0
      BY <2>2
    <2>4. SubSeq(b, 1, m - 1) \in Seq(Byte) /\ Len(SubSeq(b, 1, m - 1)) = m - 1
      BY <2>3, SubSeqProperties
    <2>5. \A k \in 1 .. m - 1 : SubSeq(b, 1, m - 1)[k] = b[k]
      BY <2>3
    <2> QED
      BY <1>1, <1>3, <2>3, <2>4, <2>5
  <1> QED
    BY <1>2, <1>3

LEMMA CStringWhole ==
  ASSUME NEW b, \A k \in DOMAIN b : b[k] # 0
  PROVE  CString(b) = b
  BY DEF CString

LEMMA CStringTwice ==
  ASSUME NEW b \in Seq(Byte) PROVE CString(CString(b)) = CString(b)
  BY CStringType, CStringWhole, Zenon

LEMMA CutFields ==
  ASSUME NEW p \in TinyPBProtocol
  PROVE  /\ Cut(p) \in TinyPBProtocol
         /\ Cut(p).msg_id = CString(p.msg_id) /\ Cut(p).method_name = p.method_name
         /\ Cut(p).err_code = p.err_code /\ Cut(p).pb_data = p.pb_data
  <1>1. p.msg_id \in Seq(Byte)
    BY DEF TinyPBProtocol
  <1>2. CString(p.msg_id) \in Seq(Byte)
    BY <1>1, CStringType
  <1> QED
    BY <1>2 DEF Cut, TinyPBProtocol

LEMMA DecodedCut ==
  ASSUME NEW s \in Seq(TinyPBProtocol)
  PROVE  /\ Decoded(s) \in Seq(TinyPBProtocol)
         /\ DOMAIN Decoded(s) = DOMAIN s /\ \A k \in DOMAIN s : Decoded(s)[k] = Cut(s[k])
  <1>1. Decoded(s) = [k \in DOMAIN s |-> Cut(s[k])]
    BY DEF Decoded, Cut
  <1>2. \A k \in DOMAIN s : Cut(s[k]) \in TinyPBProtocol
    BY CutFields
  <1> HIDE DEF Cut
  <1> QED
    BY <1>1, <1>2

-----------------------------------------------------------------------------
(* Names and dispatching.                                                  *)

LEMMA OneElement ==
  ASSUME NEW S, NEW s \in Seq(S), NEW e \in S, Len(s) = 1, s[1] = e
  PROVE  s = <<e>>
  <1> DEFINE t == <<e>>
  <1>1. t \in Seq(S) /\ Len(t) = 1 /\ t[1] = e
    OBVIOUS
  <1> HIDE DEF t
  <1>2. \A i \in 1 .. 1 : s[i] = t[i]
    BY <1>1
  <1>3. s = t
    BY <1>1, <1>2, SeqEqual
  <1> QED
    BY <1>3 DEF t

LEMMA ThreeLetters ==
  ASSUME NEW a \in Byte, NEW b \in Byte, a # DOT, b # DOT
  PROVE  /\ FullName(<<a>>, <<b>>)[3] = b
         /\ ServiceName(FullName(<<a>>, <<b>>)) = <<a>>
         /\ MethodName(FullName(<<a>>, <<b>>)) = <<b>>
  <1> DEFINE name == FullName(<<a>>, <<b>>)
  <1>1. name \in Seq(Byte) /\ Len(name) = 3 /\ name[1] = a /\ name[2] = DOT /\ name[3] = b
    BY DEF FullName, DOT, Byte
  <1> HIDE DEF name
  <1>2. Dots(name) = {2}
    BY <1>1 DEF Dots
  <1>3. FirstDot(name) = 2
    BY <1>2 DEF FirstDot
  <1>4. ServiceName(name) = <<a>>
    <2>1. /\ SubSeq(name, 1, 1) \in Seq(Byte) /\ Len(SubSeq(name, 1, 1)) = 1
          /\ SubSeq(name, 1, 1)[1] = a
      BY <1>1, SubSeqProperties
    <2>2. SubSeq(name, 1, 1) = <<a>>
      BY <2>1, OneElement
    <2> QED
      BY <1>3, <2>2 DEF ServiceName
  <1>5. MethodName(name) = <<b>>
    <2>1. /\ SubSeq(name, 3, 3) \in Seq(Byte) /\ Len(SubSeq(name, 3, 3)) = 1
          /\ SubSeq(name, 3, 3)[1] = b
      BY <1>1, SubSeqProperties
    <2>2. SubSeq(name, 3, 3) = <<b>>
      BY <2>1, OneElement
    <2> QED
      BY <1>1, <1>3, <2>2 DEF MethodName
  <1> QED
    BY <1>1, <1>2, <1>3, <1>4, <1>5 DEF name

LEMMA NamesOf ==
  ASSUME NEW q
  PROVE  /\ IsLookup(q) => /\ ServiceName(q.method_name) = REGISTER
                           /\ MethodName(q.method_name) = GET_TARGET_ADDR
                           /\ ~IsRegistration(q) /\ ~IsOrder(q)
         /\ IsRegistration(q) => /\ ServiceName(q.method_name) = REGISTER
                                 /\ MethodName(q.method_name) = REGISTER_SERVER
                                 /\ ~IsOrder(q)
         /\ IsOrder(q) => /\ ServiceName(q.method_name) = ORDER
                          /\ MethodName(q.method_name) = MAKE_ORDER
  <1>1. /\ FullName(REGISTER, GET_TARGET_ADDR)[3] = 71
        /\ ServiceName(FullName(REGISTER, GET_TARGET_ADDR)) = REGISTER
        /\ MethodName(FullName(REGISTER, GET_TARGET_ADDR)) = GET_TARGET_ADDR
    <2> DEFINE a == 82
               b == 71
    <2>1. a \in Byte /\ b \in Byte /\ a # DOT /\ b # DOT /\ REGISTER = <<a>> /\ GET_TARGET_ADDR = <<b>> /\ b = 71
      BY DEF Byte, DOT, REGISTER, GET_TARGET_ADDR
    <2> HIDE DEF a, b
    <2> QED
      BY <2>1, ThreeLetters
  <1>2. /\ FullName(REGISTER, REGISTER_SERVER)[3] = 83
        /\ ServiceName(FullName(REGISTER, REGISTER_SERVER)) = REGISTER
        /\ MethodName(FullName(REGISTER, REGISTER_SERVER)) = REGISTER_SERVER
    <2> DEFINE a == 82
               b == 83
    <2>1. a \in Byte /\ b \in Byte /\ a # DOT /\ b # DOT /\ REGISTER = <<a>> /\ REGISTER_SERVER = <<b>> /\ b = 83
      BY DEF Byte, DOT, REGISTER, REGISTER_SERVER
    <2> HIDE DEF a, b
    <2> QED
      BY <2>1, ThreeLetters
  <1>3. /\ FullName(ORDER, MAKE_ORDER)[3] = 77
        /\ ServiceName(FullName(ORDER, MAKE_ORDER)) = ORDER
        /\ MethodName(FullName(ORDER, MAKE_ORDER)) = MAKE_ORDER
    <2> DEFINE a == 79
               b == 77
    <2>1. a \in Byte /\ b \in Byte /\ a # DOT /\ b # DOT /\ ORDER = <<a>> /\ MAKE_ORDER = <<b>> /\ b = 77
      BY DEF Byte, DOT, ORDER, MAKE_ORDER
    <2> HIDE DEF a, b
    <2> QED
      BY <2>1, ThreeLetters
  <1> QED
    BY <1>1, <1>2, <1>3 DEF IsLookup, IsRegistration, IsOrder

LEMMA PeersDiffer == REGISTER # ORDER /\ GET_TARGET_ADDR # REGISTER_SERVER
  BY DEF REGISTER, ORDER, GET_TARGET_ADDR, REGISTER_SERVER

LEMMA SameRequest ==
  ASSUME NEW q, NEW r, Same(q, r)
  PROVE  /\ IsLookup(q) <=> IsLookup(r)
         /\ IsRegistration(q) <=> IsRegistration(r)
         /\ IsOrder(q) <=> IsOrder(r)
         /\ RequestPrototype(q) = RequestPrototype(r)
         /\ ResponsePrototype(q) = ResponsePrototype(r)
         /\ Message(q) = Message(r) /\ Target(q) = Target(r)
         /\ ServiceAndAddress(q) = ServiceAndAddress(r)
         /\ OrderBody(q) = OrderBody(r)
         /\ \A peer : ErrorOf(peer, q) = ErrorOf(peer, r)
  <1>1. q.method_name = r.method_name /\ q.pb_data = r.pb_data
    BY DEF Same
  <1>2. RequestPrototype(q) = RequestPrototype(r) /\ ResponsePrototype(q) = ResponsePrototype(r)
    BY <1>1, Zenon DEF RequestPrototype, ResponsePrototype, IsLookup, IsRegistration, IsOrder
  <1>3. Message(q) = Message(r)
    BY <1>1, <1>2, Zenon DEF Message
  <1>4. OrderBody(q) = OrderBody(r)
    BY <1>1, Zenon DEF OrderBody
  <1>5. \A peer : ErrorOf(peer, q) = ErrorOf(peer, r)
    BY <1>1, Zenon DEF ErrorOf
  <1> QED
    BY <1>1, <1>2, <1>3, <1>4, <1>5 DEF IsLookup, IsRegistration, IsOrder, Target, ServiceAndAddress

(* What dispatch makes of a request, whatever the registry has. *)
LEMMA Dispatched ==
  ASSUME NEW peer \in Peer, NEW all, NEW q \in TinyPBProtocol,
         ErrorOf(peer, q) = 0 /\ peer = REGISTER =>
           RpcRegistry(all)[MethodName(q.method_name)][q.pb_data].pb_data \in Seq(Item),
         ErrorOf(peer, q) = 0 /\ peer = ORDER => OrderBody(q) \in Seq(Item)
  PROVE  LET p == dispatch(m_service_map(peer, all), q)
         IN  /\ p \in TinyPBProtocol /\ p.msg_id = q.msg_id
             /\ ErrorOf(peer, q) # 0 => p.err_code = ErrorOf(peer, q)
             /\ ErrorOf(peer, q) = 0 => p.err_code \in {0, ERROR_FAILED_SERIALIZE}
             /\ p.err_code = 0 /\ peer = REGISTER =>
                  p.pb_data = RpcRegistry(all)[MethodName(q.method_name)][q.pb_data].pb_data
             /\ p.err_code = 0 /\ peer = ORDER => p.pb_data = OrderBody(q)
  <1> DEFINE map == m_service_map(peer, all)
             service == IF peer = REGISTER THEN RpcRegistry(all) ELSE OrderImpl
             name == MethodName(q.method_name)
             p == dispatch(map, q)
             reply == ReplyTo(q)
             Failed(e) == setTinyPBError(reply, e)
             Done(body) == [reply EXCEPT !.pb_data = body]
  <1>1. DOMAIN map = {peer} /\ map[peer] = service
    BY DEF m_service_map, registerService, NoReplies
  <1>2. /\ DOMAIN service = Methods(peer)
        /\ \A n \in Methods(peer) : DOMAIN service[n] = Bodies
    BY DEF RpcRegistry, OrderImpl, Methods
  <1>3. <<69>> \in Seq(Byte) /\ <<>> \in Seq(Byte) /\ <<>> \in Seq(Item)
    BY DEF Byte
  <1>4. reply \in TinyPBProtocol /\ reply.msg_id = q.msg_id /\ reply.err_code = 0
    BY <1>3 DEF ReplyTo, TinyPBProtocol
  <1> HIDE DEF reply
  <1>5. ASSUME NEW e \in Nat
        PROVE  Failed(e) \in TinyPBProtocol /\ Failed(e).msg_id = q.msg_id /\ Failed(e).err_code = e
    BY <1>3, <1>4 DEF setTinyPBError, TinyPBProtocol
  <1>6. ASSUME NEW body \in Seq(Item)
        PROVE  /\ Done(body) \in TinyPBProtocol /\ Done(body).msg_id = q.msg_id
               /\ Done(body).err_code = 0 /\ Done(body).pb_data = body
    BY <1>4 DEF TinyPBProtocol
  <1>7. p = IF Dots(q.method_name) = {} THEN Failed(ERROR_PARSE_SERVICE_NAME)
            ELSE IF ServiceName(q.method_name) # peer THEN Failed(ERROR_SERVICE_NOT_FOUND)
            ELSE IF name \notin Methods(peer) THEN Failed(ERROR_METHOD_NOT_FOUND)
            ELSE IF q.pb_data \notin Bodies THEN Failed(ERROR_FAILED_DESERIALIZE)
            ELSE IF ~service[name][q.pb_data].serialised THEN Failed(ERROR_FAILED_SERIALIZE)
            ELSE Done(service[name][q.pb_data].pb_data)
    <2>1. p = IF Dots(q.method_name) = {} THEN Failed(ERROR_PARSE_SERVICE_NAME)
              ELSE IF ServiceName(q.method_name) \notin DOMAIN map THEN Failed(ERROR_SERVICE_NOT_FOUND)
              ELSE IF name \notin DOMAIN map[ServiceName(q.method_name)]
                   THEN Failed(ERROR_METHOD_NOT_FOUND)
              ELSE IF q.pb_data \notin DOMAIN map[ServiceName(q.method_name)][name]
                   THEN Failed(ERROR_FAILED_DESERIALIZE)
              ELSE IF ~map[ServiceName(q.method_name)][name][q.pb_data].serialised
                   THEN Failed(ERROR_FAILED_SERIALIZE)
              ELSE Done(map[ServiceName(q.method_name)][name][q.pb_data].pb_data)
      BY Zenon DEF dispatch, reply
    <2>2. ServiceName(q.method_name) \notin DOMAIN map <=> ServiceName(q.method_name) # peer
      BY <1>1, Zenon
    <2> HIDE DEF map, service, Failed, Done, p, name
    <2> QED
      BY <1>1, <1>2, <2>1, <2>2
  <1>8. /\ ERROR_PARSE_SERVICE_NAME \in Nat \ {0} /\ ERROR_SERVICE_NOT_FOUND \in Nat \ {0}
        /\ ERROR_METHOD_NOT_FOUND \in Nat \ {0} /\ ERROR_FAILED_DESERIALIZE \in Nat \ {0}
        /\ ERROR_FAILED_SERIALIZE \in Nat \ {0}
    BY DEF ERROR_PARSE_SERVICE_NAME, ERROR_SERVICE_NOT_FOUND, ERROR_METHOD_NOT_FOUND,
           ERROR_FAILED_DESERIALIZE, ERROR_FAILED_SERIALIZE, SYS_ERROR_PREFIX
  <1>9. CASE ErrorOf(peer, q) # 0
    <2>1. p = Failed(ErrorOf(peer, q)) /\ ErrorOf(peer, q) \in Nat
      <3> HIDE DEF Failed, Done, p, map, service, name
      <3> QED
        BY <1>7, <1>8, <1>9 DEF ErrorOf, name
    <2> HIDE DEF p, Failed
    <2> QED
      BY <1>5, <1>9, <2>1 DEF p
  <1>10. CASE ErrorOf(peer, q) = 0
    <2> DEFINE m == service[name][q.pb_data]
    <2>1. /\ p = IF ~m.serialised THEN Failed(ERROR_FAILED_SERIALIZE) ELSE Done(m.pb_data)
          /\ name \in Methods(peer) /\ q.pb_data \in Bodies
      <3> HIDE DEF Failed, Done, p, map, service, name
      <3> QED
        BY <1>7, <1>8, <1>10 DEF ErrorOf, name
    <2>2. peer = ORDER => m.pb_data = OrderBody(q)
      BY <2>1, PeersDiffer DEF OrderImpl, OrderBody, Methods, SerializeToString
    <2>3. peer = REGISTER => m = RpcRegistry(all)[name][q.pb_data]
      OBVIOUS
    <2>4. m.pb_data \in Seq(Item)
      BY <1>10, <2>2, <2>3 DEF Peer
    <2>5. CASE ~m.serialised
      <3> HIDE DEF p, m, Failed, Done
      <3> QED
        BY <1>5, <1>8, <1>10, <2>1, <2>5 DEF p
    <2>6. CASE m.serialised
      <3> HIDE DEF p, m, Failed, Done
      <3> QED
        BY <1>6, <1>10, <2>1, <2>2, <2>3, <2>4, <2>6 DEF p, m
    <2> QED
      BY <2>5, <2>6
  <1> QED
    BY <1>9, <1>10

-----------------------------------------------------------------------------
(* Serialising and parsing.                                                *)

LEMMA BodyType ==
  ASSUME NEW body \in Bodies
  PROVE  /\ body \in Seq(Item) /\ Parses(body)
         /\ \A schema : ParseFromString(schema, body) = InternalParse(schema, Clear(schema), body)
  <1>1. PICK r \in AllRequests : body = r.pb_data /\ Parses(body)
    BY DEF Bodies
  <1>2. PICK k \in Caller \X Peer : r \in UNION Range(Requests[k])
    BY DEF AllRequests
  <1>3. Requests[k] \in Seq(SUBSET Request)
    BY RequestsAssumption
  <1>4. Range(Requests[k]) \subseteq SUBSET Request
    BY <1>3, RangeOfSeq
  <1>5. r \in Request
    BY <1>2, <1>4
  <1>6. body \in Seq(Item)
    BY <1>1, <1>5 DEF Request
  <1>7. {k_ \in DOMAIN body : body[k_][2] = Refused} = {}
    BY <1>1 DEF Parses
  <1>8. \A schema : ParseFromString(schema, body) = InternalParse(schema, Clear(schema), body)
    BY <1>7, Zenon DEF ParseFromString
  <1> QED
    BY <1>1, <1>6, <1>8

LEMMA ParsedLength ==
  ASSUME NEW q, NEW pb_data
  PROVE  LET schema == ResponsePrototype(q)
         IN  /\ Len(ParseFromString(schema, pb_data)) = Len(schema)
             /\ Len(Clear(schema)) = Len(schema)
  <1> DEFINE schema == ResponsePrototype(q)
  <1>1. schema \in {GetTargetAddrResp, RegisterServerResp, makeOrderResponse, <<>>}
    BY Zenon DEF ResponsePrototype
  <1>2. DOMAIN schema = 1 .. Len(schema) /\ Len(schema) \in Nat
    <2>1. CASE schema = GetTargetAddrResp
      BY <2>1 DEF GetTargetAddrResp
    <2>2. CASE schema = RegisterServerResp
      BY <2>2 DEF RegisterServerResp
    <2>3. CASE schema = makeOrderResponse
      BY <2>3 DEF makeOrderResponse
    <2>4. CASE schema = <<>>
      BY <2>4
    <2> QED
      BY <1>1, <2>1, <2>2, <2>3, <2>4
  <1> HIDE DEF schema
  <1>3. ASSUME NEW g, g = [f \in DOMAIN schema |-> g[f]] PROVE Len(g) = Len(schema)
    BY <1>2, <1>3
  <1>4. Len(Clear(schema)) = Len(schema)
    BY <1>3, Zenon DEF Clear
  <1>5. Len(ParseFromString(schema, pb_data)) = Len(schema)
    BY <1>3, Zenon DEF ParseFromString, InternalParse
  <1> QED
    BY <1>4, <1>5 DEF schema

(* The values of the items of a field that is not repeated. *)
LEMMA FieldValue ==
  ASSUME NEW schema, NEW f \in DOMAIN schema, schema[f] # "repeated", NEW body \in Seq(Item)
  PROVE  LET value == InternalParse(schema, Clear(schema), body)[f]
         IN  /\ schema[f] = "string" => value \in Seq(Byte)
             /\ schema[f] = "int32" => value \in Int
             /\ ItemsOf(schema, f, body) = {} => value = DefaultValue(schema[f])
             /\ ItemsOf(schema, f, body) # {} =>
                  /\ Max(ItemsOf(schema, f, body)) \in ItemsOf(schema, f, body)
                  /\ value = body[Max(ItemsOf(schema, f, body))][3]
  <1> DEFINE items == ItemsOf(schema, f, body)
             value == InternalParse(schema, Clear(schema), body)[f]
  <1>1. items = {k \in DOMAIN body : body[k][1] = f /\ body[k][2] = schema[f]}
    BY DEF ItemsOf
  <1>2. value = IF items = {} THEN Clear(schema)[f] ELSE body[Max(items)][3]
    BY Zenon DEF InternalParse
  <1>3. Clear(schema)[f] = DefaultValue(schema[f])
    BY DEF Clear
  <1>4. ASSUME NEW k \in items
        PROVE  /\ schema[f] = "string" => body[k][3] \in Seq(Byte)
               /\ schema[f] = "int32" => body[k][3] \in Int
    <2>1. body[k] \in Item /\ body[k][2] = schema[f]
      BY <1>1
    <2> QED
      BY <2>1 DEF Item, Refused, Byte
  <1>5. items # {} => Max(items) \in items
    <2>1. items \in SUBSET (1 .. Len(body)) /\ Len(body) \in Nat
      BY <1>1
    <2> QED
      BY <2>1, MaxElement
  <1> HIDE DEF items, value
  <1>6. /\ schema[f] = "string" => value \in Seq(Byte)
        /\ schema[f] = "int32" => value \in Int
    BY <1>2, <1>3, <1>4, <1>5 DEF DefaultValue
  <1> QED
    BY <1>2, <1>3, <1>5, <1>6 DEF items, value

LEMMA IntervalCardinality == ASSUME NEW n \in Nat PROVE Cardinality(1 .. n) = n
  <1>1. Cardinality(1 .. n) = IF 1 > n THEN 0 ELSE n - 1 + 1
    BY FS_Interval
  <1> QED
    BY <1>1

(* A list of addresses comes out as it went in. *)
LEMMA ListParsed ==
  ASSUME NEW body \in Seq(Item), \A i \in 1 .. Len(body) : body[i][1] = 3 /\ body[i][2] = "string"
  PROVE  targetserviceipandport(ParseFromString(GetTargetAddrResp, body)) =
           [i \in 1 .. Len(body) |-> body[i][3]]
  <1> DEFINE schema == GetTargetAddrResp
             items == ItemsOf(schema, 3, body)
             Nth(n) == CHOOSE k \in items : Cardinality({j \in items : j <= k}) = n
  <1>1. 3 \in DOMAIN schema /\ schema[3] = "repeated"
    BY DEF GetTargetAddrResp
  <1>2. items = 1 .. Len(body) /\ Len(body) \in Nat
    BY <1>1 DEF ItemsOf
  <1>3. \A k \in DOMAIN body : body[k][2] # Refused
    BY DEF Refused
  <1>4. ParseFromString(schema, body) = InternalParse(schema, Clear(schema), body)
    <2>1. {k \in DOMAIN body : body[k][2] = Refused} = {}
      BY <1>3
    <2> QED
      BY <2>1, Zenon DEF ParseFromString
  <1>5. Clear(schema)[3] = <<>>
    BY <1>1 DEF Clear, DefaultValue
  <1>6. Cardinality(items) = Len(body)
    BY <1>2, IntervalCardinality
  <1>7. ASSUME NEW n \in 1 .. Len(body) PROVE Nth(n) = n
    <2>1. ASSUME NEW k \in items PROVE Cardinality({j \in items : j <= k}) = k
      <3>1. {j \in items : j <= k} = 1 .. k /\ k \in Nat
        BY <1>2
      <3> QED
        BY <3>1, IntervalCardinality
    <2> HIDE DEF items
    <2> QED
      BY <1>2, <2>1
  <1> DEFINE values == [n \in 1 .. Len(body) |-> body[n][3]]
  <1>8. InternalParse(schema, Clear(schema), body)[3] =
          Clear(schema)[3] \o [n \in 1 .. Cardinality(items) |-> body[Nth(n)][3]]
    <2> HIDE DEF schema
    <2> QED
      BY <1>1, Zenon DEF InternalParse
  <1>9. [n \in 1 .. Cardinality(items) |-> body[Nth(n)][3]] = values
    <2> HIDE DEF items, Nth
    <2> QED
      BY <1>6, <1>7
  <1>10. values \in Seq(Seq(Byte))
    <2>1. ASSUME NEW n \in 1 .. Len(body) PROVE body[n][3] \in Seq(Byte)
      <3>1. body[n] \in Item /\ body[n][2] = "string"
        OBVIOUS
      <3> QED
        BY <3>1 DEF Item, Refused, Byte
    <2> QED
      BY <2>1, <1>2, IsASeq
  <1> HIDE DEF values, schema, items, Nth
  <1>11. <<>> \o values = values
    BY <1>10, ConcatEmptySeq
  <1> QED
    BY <1>4, <1>5, <1>8, <1>9, <1>11 DEF targetserviceipandport, schema, values

ListOf(addresses) == [k \in DOMAIN addresses |-> <<3, "string", addresses[k]>>]

LEMMA ListType ==
  ASSUME NEW a \in Seq(Seq(Byte))
  PROVE  /\ ListOf(a) \in Seq(Item) /\ Len(ListOf(a)) = Len(a) /\ Len(a) \in Nat
         /\ \A i \in 1 .. Len(a) : ListOf(a)[i] = <<3, "string", a[i]>>
         /\ Lists(ListOf(a), a)
  <1>1. ASSUME NEW k \in DOMAIN a PROVE <<3, "string", a[k]>> \in Item
    <2>1. a[k] \in Seq(0 .. 255)
      BY DEF Byte
    <2> QED
      BY <2>1 DEF Item
  <1>2. ListOf(a) \in Seq(Item) /\ Len(ListOf(a)) = Len(a) /\ Len(a) \in Nat
    <2> DEFINE F(k) == <<3, "string", a[k]>>
    <2>1. DOMAIN a = 1 .. Len(a) /\ Len(a) \in Nat
      OBVIOUS
    <2>2. ListOf(a) = [k \in 1 .. Len(a) |-> F(k)]
      BY <2>1 DEF ListOf
    <2>3. \A k \in 1 .. Len(a) : F(k) \in Item
      BY <1>1, <2>1
    <2> HIDE DEF F
    <2> QED
      BY <2>1, <2>2, <2>3
  <1>3. \A i \in 1 .. Len(a) : ListOf(a)[i] = <<3, "string", a[i]>>
    BY DEF ListOf
  <1> QED
    BY <1>2, <1>3 DEF Lists

LEMMA LookupBody ==
  ASSUME NEW all, NEW body \in Bodies,
         NEW a \in Seq(Seq(Byte)),
         a = Addresses(all, targetservicename(ParseFromString(GetTargetAddrReq, body)))
  PROVE  RpcRegistry(all)[GET_TARGET_ADDR][body].pb_data = ListOf(a)
  <1> DEFINE schema == GetTargetAddrResp
             m == getTargetAddr(all, ParseFromString(GetTargetAddrReq, body))
  <1>1. /\ DOMAIN schema = 1 .. 3 /\ schema[1] = "int32" /\ schema[2] = "string"
        /\ schema[3] = "repeated"
    BY DEF GetTargetAddrResp
  <1>2. /\ Clear(schema)[1] = 0 /\ Clear(schema)[2] = <<>> /\ Clear(schema)[3] = <<>>
        /\ DOMAIN Clear(schema) = 1 .. 3
    BY <1>1 DEF Clear, DefaultValue
  <1>3. <<>> \o a = a
    BY ConcatEmptySeq
  <1>4. m = [Clear(schema) EXCEPT ![3] = a]
    BY <1>2, <1>3 DEF getTargetAddr, add_targetserviceipandport
  <1>5. m[1] = 0 /\ m[2] = <<>> /\ m[3] = a
    <2> HIDE DEF m
    <2> QED
      BY <1>2, <1>4
  <1> HIDE DEF m, schema
  <1>6. Items(schema, m, 1) = <<>> /\ Items(schema, m, 2) = <<>>
    BY <1>1, <1>5 DEF Items, DefaultValue
  <1>7. Items(schema, m, 3) = ListOf(a)
    BY <1>1, <1>5, Zenon DEF Items, ListOf
  <1>8. <<>> \o <<>> \o ListOf(a) = ListOf(a)
    BY ListType, ConcatEmptySeq
  <1>9. InternalSerialize(schema, m) = ListOf(a)
    <2>1. 3 \in DOMAIN schema
      BY <1>1
    <2>2. InternalSerialize(schema, m) =
            Items(schema, m, 1) \o Items(schema, m, 2) \o Items(schema, m, 3)
      BY <2>1, Zenon DEF InternalSerialize
    <2> QED
      BY <1>6, <1>7, <1>8, <2>2, Zenon
  <1>10. RpcRegistry(all)[GET_TARGET_ADDR][body] = SerializeToString(schema, m)
    BY PeersDiffer DEF RpcRegistry, m, schema
  <1>11. RpcRegistry(all)[GET_TARGET_ADDR][body].pb_data = InternalSerialize(schema, m)
    BY <1>10 DEF SerializeToString
  <1> QED
    BY <1>9, <1>11

LEMMA RegistrationBody ==
  ASSUME NEW all, NEW body \in Bodies
  PROVE  RpcRegistry(all)[REGISTER_SERVER][body].pb_data = <<>>
  <1> DEFINE schema == RegisterServerResp
             m == Clear(schema)
  <1>1. DOMAIN schema = 1 .. 2 /\ schema[1] = "int32" /\ schema[2] = "string"
    BY DEF RegisterServerResp
  <1>2. m[1] = 0 /\ m[2] = <<>>
    BY <1>1 DEF Clear, DefaultValue
  <1> HIDE DEF m, schema
  <1>3. Items(schema, m, 1) = <<>> /\ Items(schema, m, 2) = <<>> /\ 3 \notin DOMAIN schema
    BY <1>1, <1>2 DEF Items, DefaultValue
  <1>4. InternalSerialize(schema, m) = <<>> \o <<>> \o <<>>
    BY <1>3 DEF InternalSerialize
  <1>5. InternalSerialize(schema, m) = <<>>
    BY <1>4, ConcatEmptySeq, EmptySeq
  <1>6. RpcRegistry(all)[REGISTER_SERVER][body] = SerializeToString(schema, m)
    BY DEF RpcRegistry, m, schema
  <1> QED
    BY <1>5, <1>6 DEF SerializeToString

Order(q) == ParseFromString(makeOrderRequest, q.pb_data)

LEMMA OrderParsed ==
  ASSUME NEW q, q.pb_data \in Bodies
  PROVE  price(Order(q)) \in Int
  <1>1. 1 \in DOMAIN makeOrderRequest /\ makeOrderRequest[1] = "int32"
    BY DEF makeOrderRequest
  <1>2. /\ q.pb_data \in Seq(Item)
        /\ Order(q) = InternalParse(makeOrderRequest, Clear(makeOrderRequest), q.pb_data)
    BY BodyType DEF Order
  <1>3. Order(q)[1] \in Int
    BY <1>1, <1>2, FieldValue
  <1> QED
    BY <1>3 DEF price

(* What an order is answered, and what its caller reads in that. *)
LEMMA OrderAnswer ==
  ASSUME NEW q, q.pb_data \in Bodies
  PROVE  /\ OrderBody(q) \in Seq(Item)
         /\ LET r == ParseFromString(makeOrderResponse, OrderBody(q))
            IN  /\ price(Order(q)) >= 10 <=> ret_code(r) = 0
                /\ price(Order(q)) >= 10 <=> order_id(r) # <<>>
  <1> DEFINE schema == makeOrderResponse
             m == makeOrder(Order(q))
             refusal == << <<1, "int32", -1>>, <<2, "string", SHORT_BALANCE>> >>
             receipt == << <<3, "string", ORDER_ID>> >>
             r == ParseFromString(schema, OrderBody(q))
             low == price(Order(q)) < 10
  <1>1. /\ DOMAIN schema = 1 .. 3 /\ schema[1] = "int32" /\ schema[2] = "string"
        /\ schema[3] = "string"
    BY DEF makeOrderResponse
  <1>2. SHORT_BALANCE \in Seq(Byte) /\ SHORT_BALANCE # <<>> /\ ORDER_ID \in Seq(Byte) /\ ORDER_ID # <<>>
    BY DEF SHORT_BALANCE, ORDER_ID, Byte
  <1>3. /\ Clear(schema)[1] = 0 /\ Clear(schema)[2] = <<>> /\ Clear(schema)[3] = <<>>
        /\ DOMAIN Clear(schema) = 1 .. 3
    BY <1>1 DEF Clear, DefaultValue
  <1>4. low => m[1] = -1 /\ m[2] = SHORT_BALANCE /\ m[3] = <<>>
    BY <1>3 DEF makeOrder, set_res_info, set_ret_code
  <1>5. ~low => m[1] = 0 /\ m[2] = <<>> /\ m[3] = ORDER_ID
    BY <1>3 DEF makeOrder, set_order_id
  <1>6. OrderBody(q) = Items(schema, m, 1) \o Items(schema, m, 2) \o Items(schema, m, 3)
    <2>1. 3 \in DOMAIN schema
      BY <1>1
    <2> HIDE DEF schema
    <2> QED
      BY <2>1, Zenon DEF OrderBody, InternalSerialize, Order, schema
  <1>7. ~low => price(Order(q)) >= 10
    <2>1. price(Order(q)) \in Int
      BY OrderParsed
    <2> QED
      BY <2>1
  <1>8. ASSUME NEW body \in Seq(Item), \A i \in DOMAIN body : body[i][2] \in {"int32", "string"}
        PROVE  ParseFromString(schema, body) = InternalParse(schema, Clear(schema), body)
    <2>1. {k \in DOMAIN body : body[k][2] = Refused} = {}
      BY <1>8 DEF Refused
    <2> QED
      BY <2>1, Zenon DEF ParseFromString
  <1>9. CASE low
    <2> DEFINE a == <<1, "int32", -1>>
               b == <<2, "string", SHORT_BALANCE>>
               body == <<a, b>>
               v == InternalParse(schema, Clear(schema), body)
    <2>1. /\ a \in Item /\ a[1] = 1 /\ a[2] = "int32" /\ a[3] = -1
          /\ b \in Item /\ b[1] = 2 /\ b[2] = "string"
      BY <1>2 DEF Item, Byte
    <2>2. /\ Items(schema, m, 1) = <<a>> /\ Items(schema, m, 2) = <<b>>
          /\ Items(schema, m, 3) = <<>>
      BY <1>1, <1>2, <1>4, <1>9 DEF Items, DefaultValue
    <2> HIDE DEF a, b, schema, m, low
    <2>3. <<a>> \o <<b>> \o <<>> = body /\ body \in Seq(Item)
          /\ Len(body) = 2 /\ body[1] = a /\ body[2] = b
      <3> DEFINE t == <<a>> \o <<b>>
      <3>1. t \in Seq(Item) /\ Len(t) = 2 /\ t[1] = a /\ t[2] = b
        BY <2>1
      <3>2. body \in Seq(Item) /\ Len(body) = 2 /\ body[1] = a /\ body[2] = b
        BY <2>1
      <3> HIDE DEF body, t
      <3>3. t = body
        BY <3>1, <3>2, SeqEqual
      <3>4. t \o <<>> = t
        BY <3>1, ConcatEmptySeq
      <3> QED
        BY <3>2, <3>3, <3>4 DEF t
    <2>4. OrderBody(q) = body
      BY <1>6, <2>2, <2>3, Zenon
    <2> HIDE DEF body
    <2>5. r = v
      <3>1. \A i \in DOMAIN body : body[i][2] \in {"int32", "string"}
        BY <2>1, <2>3
      <3> QED
        BY <1>8, <2>3, <2>4, <3>1, Zenon
    <2>6. ItemsOf(schema, 1, body) = {1} /\ ItemsOf(schema, 3, body) = {}
      BY <1>1, <2>1, <2>3 DEF ItemsOf
    <2>7. v[1] = -1
      <3>1. 1 \in DOMAIN schema /\ schema[1] # "repeated"
        BY <1>1
      <3>2. ItemsOf(schema, 1, body) # {} =>
              /\ Max(ItemsOf(schema, 1, body)) \in ItemsOf(schema, 1, body)
              /\ v[1] = body[Max(ItemsOf(schema, 1, body))][3]
        BY <2>3, <3>1, FieldValue, Zenon
      <3>3. v[1] = body[1][3]
        BY <2>6, <3>2, Zenon
      <3> QED
        BY <2>1, <2>3, <3>3
    <2>8. v[3] = <<>>
      BY <1>1, <2>3, <2>6, FieldValue DEF DefaultValue
    <2>9. ~(price(Order(q)) >= 10)
      <3>1. price(Order(q)) \in Int
        BY OrderParsed
      <3> QED
        BY <1>9, <3>1 DEF low
    <2> HIDE DEF v, r
    <2>10. ret_code(r) = -1 /\ order_id(r) = <<>>
      BY <2>5, <2>7, <2>8 DEF ret_code, order_id
    <2> QED
      BY <2>3, <2>4, <2>9, <2>10 DEF r, schema
  <1>10. CASE ~low
    <2> DEFINE a == <<3, "string", ORDER_ID>>
               body == <<a>>
               v == InternalParse(schema, Clear(schema), body)
    <2>1. a \in Item /\ a[1] = 3 /\ a[2] = "string" /\ a[3] = ORDER_ID
      BY <1>2 DEF Item, Byte
    <2>2. /\ Items(schema, m, 1) = <<>> /\ Items(schema, m, 2) = <<>>
          /\ Items(schema, m, 3) = <<a>>
      BY <1>1, <1>2, <1>5, <1>10 DEF Items, DefaultValue
    <2> HIDE DEF a, schema, m, low
    <2>3. <<>> \o <<>> \o <<a>> = body /\ body \in Seq(Item)
          /\ Len(body) = 1 /\ body[1] = a
      BY <2>1
    <2>4. OrderBody(q) = body
      BY <1>6, <2>2, <2>3, Zenon
    <2> HIDE DEF body
    <2>5. r = v
      <3>1. \A i \in DOMAIN body : body[i][2] \in {"int32", "string"}
        BY <2>1, <2>3
      <3> QED
        BY <1>8, <2>3, <2>4, <3>1, Zenon
    <2>6. ItemsOf(schema, 1, body) = {} /\ ItemsOf(schema, 3, body) = {1}
      BY <1>1, <2>1, <2>3 DEF ItemsOf
    <2>7. v[3] = ORDER_ID
      <3>1. 3 \in DOMAIN schema /\ schema[3] # "repeated"
        BY <1>1
      <3>2. ItemsOf(schema, 3, body) # {} =>
              /\ Max(ItemsOf(schema, 3, body)) \in ItemsOf(schema, 3, body)
              /\ v[3] = body[Max(ItemsOf(schema, 3, body))][3]
        BY <2>3, <3>1, FieldValue, Zenon
      <3>3. v[3] = body[1][3]
        BY <2>6, <3>2, Zenon
      <3> QED
        BY <2>1, <2>3, <3>3
    <2>8. v[1] = 0
      BY <1>1, <2>3, <2>6, FieldValue DEF DefaultValue
    <2> HIDE DEF v, r
    <2>9. ret_code(r) = 0 /\ order_id(r) # <<>>
      BY <1>2, <2>5, <2>7, <2>8 DEF ret_code, order_id
    <2> QED
      BY <1>7, <1>10, <2>3, <2>4, <2>9 DEF r, schema
  <1> QED
    BY <1>9, <1>10

-----------------------------------------------------------------------------
(* What stays true of a caller in the steps that do not concern it.        *)

(* The table only grows, at the end of each list. *)
Grows ==
  \A s :
    /\ Addresses(allService, s) \in Seq(Seq(Byte)) /\ Addresses(allService', s) \in Seq(Seq(Byte))
    /\ Len(Addresses(allService, s)) <= Len(Addresses(allService', s))
    /\ \A i \in 1 .. Len(Addresses(allService, s)) :
         Addresses(allService', s)[i] = Addresses(allService, s)[i]

LEMMA AddressesType ==
  ASSUME Types, NEW s PROVE Addresses(allService, s) \in Seq(Seq(Byte))
  <1>1. CASE s \in DOMAIN allService
    BY <1>1 DEF Addresses, Types, ServerTypes
  <1>2. CASE s \notin DOMAIN allService
    BY <1>2 DEF Addresses
  <1> QED
    BY <1>1, <1>2

LEMMA TableStays == ASSUME Types, allService' = allService PROVE Grows
  <1> SUFFICES ASSUME NEW s PROVE
        LET a == Addresses(allService, s)
            b == Addresses(allService', s)
        IN  /\ a \in Seq(Seq(Byte)) /\ b \in Seq(Seq(Byte)) /\ Len(a) <= Len(b)
            /\ \A i \in 1 .. Len(a) : b[i] = a[i]
    BY DEF Grows
  <1> DEFINE a == Addresses(allService, s)
  <1>1. a \in Seq(Seq(Byte))
    BY AddressesType
  <1>2. Addresses(allService', s) = a
    OBVIOUS
  <1> HIDE DEF a
  <1>3. Len(a) <= Len(a)
    BY <1>1
  <1> QED
    BY <1>1, <1>2, <1>3 DEF a

LEMMA ListsGrow ==
  ASSUME NEW body \in Seq(Item), NEW a \in Seq(Seq(Byte)), NEW b \in Seq(Seq(Byte)),
         Len(a) <= Len(b), \A i \in 1 .. Len(a) : b[i] = a[i], Lists(body, a)
  PROVE  Lists(body, b)
  BY DEF Lists

LEMMA RangeGrows ==
  ASSUME NEW a \in Seq(Seq(Byte)), NEW b \in Seq(Seq(Byte)),
         Len(a) <= Len(b), \A i \in 1 .. Len(a) : b[i] = a[i]
  PROVE  Range(a) \subseteq Range(b)
  <1>1. DOMAIN a = 1 .. Len(a) /\ DOMAIN b = 1 .. Len(b) /\ Len(a) \in Nat /\ Len(b) \in Nat
    OBVIOUS
  <1>2. ASSUME NEW i \in DOMAIN a PROVE i \in DOMAIN b /\ b[i] = a[i]
    BY <1>1
  <1> QED
    BY <1>2 DEF Range

LEMMA PrefixElements ==
  ASSUME NEW S, NEW s \in Seq(S), NEW t \in Seq(S)
  PROVE  IsPrefix(s, t) <=> Len(s) <= Len(t) /\ \A i \in 1 .. Len(s) : s[i] = t[i]
  <1>1. CASE Len(s) <= Len(t)
    <2> DEFINE u == SubSeq(s, 1, Len(s))
               v == SubSeq(t, 1, Len(s))
    <2>1. /\ u \in Seq(S) /\ Len(u) = Len(s) /\ \A i \in 1 .. Len(s) : u[i] = s[i]
          /\ v \in Seq(S) /\ Len(v) = Len(s) /\ \A i \in 1 .. Len(s) : v[i] = t[i]
      BY <1>1, SubSeqProperties
    <2>2. IsPrefix(s, t) <=> u = v
      BY <1>1 DEF IsPrefix
    <2> HIDE DEF u, v
    <2>3. ASSUME \A i \in 1 .. Len(s) : s[i] = t[i] PROVE u = v
      <3>1. \A i \in 1 .. Len(u) : u[i] = v[i]
        BY <2>1, <2>3
      <3> QED
        BY <2>1, <3>1, SeqEqual
    <2> QED
      BY <1>1, <2>1, <2>2, <2>3
  <1>2. CASE ~(Len(s) <= Len(t))
    BY <1>2 DEF IsPrefix
  <1> QED
    BY <1>1, <1>2

LEMMA PrefixGrows ==
  ASSUME NEW s \in Seq(Seq(Byte)), NEW a \in Seq(Seq(Byte)), NEW b \in Seq(Seq(Byte)),
         Len(a) <= Len(b), \A i \in 1 .. Len(a) : b[i] = a[i], IsPrefix(s, a)
  PROVE  IsPrefix(s, b)
  <1>1. Len(s) <= Len(a) /\ \A i \in 1 .. Len(s) : s[i] = a[i]
    BY PrefixElements
  <1>2. Len(s) <= Len(b) /\ \A i \in 1 .. Len(s) : s[i] = b[i]
    <2>1. Len(s) \in Nat /\ Len(a) \in Nat /\ Len(b) \in Nat
      OBVIOUS
    <2>2. Len(s) <= Len(b)
      BY <1>1, <2>1
    <2>3. ASSUME NEW i \in 1 .. Len(s) PROVE s[i] = b[i]
      <3>1. i \in 1 .. Len(a)
        BY <1>1, <2>1
      <3> QED
        BY <1>1, <3>1
    <2> QED
      BY <2>2, <2>3
  <1> QED
    BY <1>2, PrefixElements

LEMMA ToldStays ==
  ASSUME Grows, NEW body \in Seq(Item), NEW q, Told(body, q)
  PROVE  Told(body, q)'
  <1>1. ASSUME IsLookup(q) PROVE Lists(body, Addresses(allService', Target(q)))
    <2>1. Lists(body, Addresses(allService, Target(q)))
      BY <1>1 DEF Told
    <2> QED
      BY <2>1, ListsGrow DEF Grows
  <1>2. ASSUME IsRegistration(q)
        PROVE  ServiceAndAddress(q)[2] \in Range(Addresses(allService', ServiceAndAddress(q)[1]))
    <2>1. ServiceAndAddress(q)[2] \in Range(Addresses(allService, ServiceAndAddress(q)[1]))
      BY <1>2 DEF Told
    <2> QED
      BY <2>1, RangeGrows DEF Grows
  <1> QED
    BY <1>1, <1>2 DEF Told

LEMMA SoundReplyStays ==
  ASSUME NEW c, NEW p \in TinyPBProtocol, SoundReply(c, p), Grows,
         To(c)' = To(c), Sent(c) \subseteq Sent(c)',
         answered[To(c)] \subseteq answered'[To(c)],
         Asking(c)' /\ p.msg_id = CString(call'[c].id) => Asking(c) /\ call'[c] = call[c]
  PROVE  SoundReply(c, p)'
  <1>1. PICK q \in Sent(c) : Answers(To(c), p, q)
    BY DEF SoundReply
  <1>2. p.pb_data \in Seq(Item)
    BY DEF TinyPBProtocol
  <1>3. Answers(To(c), p, q)'
    <2>1. p.err_code = 0 => Told(p.pb_data, q)'
      BY <1>1, <1>2, ToldStays DEF Answers
    <2>2. /\ p.msg_id = CString(q.msg_id)
          /\ ErrorOf(To(c)[2], q) # 0 => p.err_code = ErrorOf(To(c)[2], q)
          /\ ErrorOf(To(c)[2], q) = 0 =>
               p.err_code \in {0, ERROR_FAILED_SERIALIZE} /\ p.msg_id \in answered'[To(c)]
      BY <1>1 DEF Answers
    <2> QED
      BY <2>1, <2>2, Zenon DEF Answers
  <1>4. \E m \in Sent(c)' : Answers(To(c), p, m)'
    BY <1>1, <1>3, Zenon
  <1>5. ASSUME Asking(c)', IsLookup(call'[c].request), p.msg_id = CString(call'[c].id),
               p.err_code = 0
        PROVE  ListsKnown(c, p.pb_data)'
    <2>1. Asking(c) /\ call'[c] = call[c]
      BY <1>5
    <2>2. ListsKnown(c, p.pb_data)
      BY <1>5, <2>1 DEF SoundReply
    <2> QED
      BY <2>1, <2>2, Zenon DEF ListsKnown
  <1> QED
    BY <1>4, <1>5, Zenon DEF SoundReply

(* The caller's types, one name for what the lemmas below need. *)
LEMMA CallerTypes ==
  ASSUME Types, NEW c \in Caller
  PROVE  /\ channel[c] \in ChannelType /\ call[c] \in CallType
         /\ channel[c].peer \in Peer /\ channel[c].socket \in Sockets
         /\ Own(c) \in Connection /\ Own(c)[2] = channel[c].peer
         /\ To(c) \in Caller \X Peer /\ To(c)[2] = channel[c].peer /\ Chan(Own(c)) = To(c)
         /\ channel[c].m_out_buffer \in Seq(TinyPBProtocol)
         /\ channel[c].m_reply_datas \in ReplyDatas
         /\ channel[c].ids \subseteq Seq(Byte)
         /\ Sent(c) \subseteq TinyPBProtocol
  <1>1. channel[c] \in ChannelType /\ call[c] \in CallType
    BY DEF Types, ClientTypes
  <1>2. /\ channel[c].peer \in Peer /\ channel[c].socket \in Sockets
        /\ channel[c].m_out_buffer \in Seq(TinyPBProtocol)
        /\ channel[c].m_reply_datas \in ReplyDatas /\ channel[c].ids \subseteq Seq(Byte)
    BY <1>1 DEF ChannelType
  <1>3. /\ Own(c) \in Connection /\ Own(c)[2] = channel[c].peer
        /\ To(c) \in Caller \X Peer /\ To(c)[2] = channel[c].peer /\ Chan(Own(c)) = To(c)
    BY <1>2 DEF Own, Connection, To, Chan
  <1>4. Sent(c) \subseteq TinyPBProtocol
    BY <1>2, RangeOfSeq DEF Sent
  <1> QED
    BY <1>1, <1>2, <1>3, <1>4

(* One end of the connections is changed. *)
LEMMA OneConnection ==
  ASSUME conn \in [Connection -> ConnType], NEW k \in Connection, NEW r \in ConnType,
         conn' = [conn EXCEPT ![k] = r]
  PROVE  /\ conn' \in [Connection -> ConnType] /\ conn'[k] = r
         /\ \A j \in Connection \ {k} : conn'[j] = conn[j]
  OBVIOUS

LEMMA ConnectionTypes ==
  ASSUME Types, NEW k \in Connection
  PROVE  /\ conn[k] \in ConnType
         /\ conn[k].todo \in Seq(TinyPBProtocol) /\ Range(conn[k].todo) \subseteq TinyPBProtocol
         /\ conn[k].m_out_buffer \in Seq(TinyPBProtocol)
         /\ Range(conn[k].m_out_buffer) \subseteq TinyPBProtocol
         /\ Chan(k) \in Caller \X Peer /\ answered[Chan(k)] \subseteq Seq(Byte)
         /\ requests[k] \in Seq(TinyPBProtocol) /\ Range(requests[k]) \subseteq TinyPBProtocol
         /\ replies[k] \in Seq(TinyPBProtocol) /\ Range(replies[k]) \subseteq TinyPBProtocol
  <1>1. conn[k] \in ConnType
    BY DEF Types, ServerTypes
  <1>2. conn[k].todo \in Seq(TinyPBProtocol) /\ conn[k].m_out_buffer \in Seq(TinyPBProtocol)
    BY <1>1 DEF ConnType
  <1>3. requests[k] \in Seq(TinyPBProtocol) /\ replies[k] \in Seq(TinyPBProtocol)
    BY DEF Types, WireTypes
  <1>4. Chan(k) \in Caller \X Peer
    BY DEF Connection, Chan
  <1>5. answered[Chan(k)] \subseteq Seq(Byte)
    BY <1>4 DEF Types, ServerTypes
  <1> QED
    BY <1>1, <1>2, <1>3, <1>4, <1>5, RangeOfSeq

LEMMA ReplyTypes ==
  ASSUME NEW m \in ReplyDatas, NEW id \in DOMAIN m
  PROVE  m[id] \in TinyPBProtocol /\ id \in Seq(Byte)
  <1>1. PICK D \in SUBSET Seq(Byte) : m \in [D -> TinyPBProtocol]
    BY DEF ReplyDatas
  <1> QED
    BY <1>1

LEMMA RepliesTyped ==
  ASSUME Types, NEW c \in Caller PROVE Replies(c) \subseteq TinyPBProtocol
  <1>1. Range(channel[c].m_reply_datas) \subseteq TinyPBProtocol
    BY CallerTypes, ReplyTypes DEF Range
  <1> QED
    BY <1>1, CallerTypes, ConnectionTypes DEF Replies

(* A step that takes replies away, or leaves them. *)
LEMMA RepliesStay ==
  ASSUME Types, NEW c \in Caller, RepliesSound(c), Grows,
         To(c)' = To(c), Sent(c) \subseteq Sent(c)',
         answered[To(c)] \subseteq answered'[To(c)],
         \A p \in Replies(c)' :
           \/ SoundReply(c, p)'
           \/ /\ p \in Replies(c)
              /\ Asking(c)' /\ p.msg_id = CString(call'[c].id) => Asking(c) /\ call'[c] = call[c],
         (\A id \in DOMAIN channel[c].m_reply_datas : channel[c].m_reply_datas[id].msg_id = id)'
  PROVE  RepliesSound(c)'
  <1>1. ASSUME NEW p \in Replies(c)', p \in Replies(c),
               Asking(c)' /\ p.msg_id = CString(call'[c].id) => Asking(c) /\ call'[c] = call[c]
        PROVE  SoundReply(c, p)'
    <2>1. p \in TinyPBProtocol /\ SoundReply(c, p)
      BY <1>1, RepliesTyped DEF RepliesSound
    <2> QED
      BY <1>1, <2>1, SoundReplyStays
  <1> QED
    BY <1>1, Zenon DEF RepliesSound

LEMMA RequestsStay ==
  ASSUME NEW c \in Caller, RequestsSent(c), To(c)' = To(c), Sent(c)' = Sent(c),
         channel'[c].ids = channel[c].ids,
         \A k \in Connection : Chan(k) = To(c) =>
           /\ Range(requests'[k]) \subseteq Range(requests[k]) \cup Sent(c)
           /\ Range(conn'[k].todo) \subseteq Range(conn[k].todo)
  PROVE  RequestsSent(c)'
  <1>1. \A q \in Sent(c)' : q.msg_id \in channel'[c].ids
    BY DEF RequestsSent
  <1>2. ASSUME NEW k \in Connection, Chan(k) = To(c)'
        PROVE  /\ Range(requests'[k]) \subseteq Sent(c)'
               /\ \A q \in Range(conn'[k].todo) : \E m \in Sent(c)' : q = Cut(m)
    <2>1. /\ Range(requests[k]) \subseteq Sent(c)
          /\ \A q \in Range(conn[k].todo) : \E m \in Sent(c) : q = Cut(m)
      BY <1>2 DEF RequestsSent
    <2>2. /\ Range(requests'[k]) \subseteq Range(requests[k]) \cup Sent(c)
          /\ Range(conn'[k].todo) \subseteq Range(conn[k].todo)
      BY <1>2
    <2> QED
      BY <2>1, <2>2
  <1>3. \A k \in Connection : Chan(k)' = Chan(k)
    BY DEF Chan
  <1> QED
    BY <1>1, <1>2, <1>3, Zenon DEF RequestsSent

LEMMA AnsweredStay ==
  ASSUME NEW c \in Caller, AnsweredSent(c), To(c)' = To(c), Sent(c) \subseteq Sent(c)',
         channel'[c].peer = channel[c].peer,
         answered'[To(c)] = answered[To(c)]
  PROVE  AnsweredSent(c)'
  <1>1. ASSUME NEW id \in answered'[To(c)']
        PROVE  \E q \in Sent(c)' : id = CString(q.msg_id) /\ ErrorOf(channel'[c].peer, q) = 0
    BY DEF AnsweredSent
  <1> QED
    BY <1>1, Zenon DEF AnsweredSent

SameWire(k) == requests'[k] = requests[k] /\ replies'[k] = replies[k] /\ conn'[k] = conn[k]

LEMMA UnopenedStay ==
  ASSUME NEW c \in Caller, Unopened(c), channel'[c].peer = channel[c].peer,
         channel'[c].socket = channel[c].socket,
         \A k \in Connection : Later(c, k) => SameWire(k),
         channel[c].peer = REGISTER => answered'[<<c, ORDER>>] = answered[<<c, ORDER>>]
  PROVE  Unopened(c)'
  <1>1. ASSUME NEW k \in Connection, Later(c, k)' PROVE Idle(k)'
    <2>1. Later(c, k)
      BY <1>1 DEF Later
    <2>2. Idle(k) /\ SameWire(k)
      BY <2>1, Zenon DEF Unopened
    <2> QED
      BY <2>2, Zenon DEF Idle, SameWire
  <1> QED
    BY <1>1, Zenon DEF Unopened

LEMMA PendingStay ==
  ASSUME NEW c \in Caller, Pending(c), Sent(c)' = Sent(c), channel'[c].ids = channel[c].ids,
         pc'[c] \in {"connect", "wait"} => pc[c] \in {"connect", "wait"} /\ call'[c] = call[c]
  PROVE  Pending(c)'
  <1>1. ASSUME pc'[c] \in {"connect", "wait"} PROVE Pending(c)'
    <2>1. call'[c] = call[c] /\ pc[c] \in {"connect", "wait"}
      BY <1>1
    <2>2. /\ call'[c].controlled /\ call'[c].error_code = 0 /\ call'[c].done = 0
          /\ call'[c].id \in channel'[c].ids
      BY <2>1 DEF Pending
    <2>3. Asking(c)' => Asking(c)
      BY <2>1 DEF Asking
    <2>4. Asking(c)' => Unique(c)'
      BY <2>1, <2>3, Zenon DEF Pending, Unique
    <2> QED
      BY <2>2, <2>4 DEF Pending
  <1>2. ASSUME pc'[c] \notin {"connect", "wait"} PROVE Pending(c)'
    BY <1>2 DEF Pending, Asking
  <1> QED
    BY <1>1, <1>2

LEMMA ResponseStays ==
  ASSUME NEW c \in Caller, ResponseTold(c), Grows,
         call'[c] = call[c], response'[c] = response[c]
  PROVE  ResponseTold(c)'
  <1>1. ASSUME IsLookup(call[c].request)
        PROVE  IsPrefix(targetserviceipandport(response[c]),
                        Addresses(allService', Target(call[c].request)))
    <2> DEFINE found == targetserviceipandport(response[c])
               target == Target(call[c].request)
    <2>1. found \in Seq(Seq(Byte)) /\ IsPrefix(found, Addresses(allService, target))
      BY <1>1, Zenon DEF ResponseTold
    <2> HIDE DEF found, target
    <2>2. IsPrefix(found, Addresses(allService', target))
      BY <2>1, PrefixGrows DEF Grows
    <2> QED
      BY <2>2 DEF found, target
  <1> QED
    BY <1>1, Zenon DEF ResponseTold

LEMMA OutcomeStays ==
  ASSUME NEW c \in Caller, Outcome(c), Grows, To(c)' = To(c), Sent(c)' = Sent(c),
         channel'[c].peer = channel[c].peer, channel'[c].ids = channel[c].ids,
         answered[To(c)] \subseteq answered'[To(c)],
         pc'[c] = "returned" =>
           pc[c] = "returned" /\ call'[c] = call[c] /\ response'[c] = response[c]
  PROVE  Outcome(c)'
  <1> SUFFICES ASSUME pc'[c] = "returned" /\ call'[c].fresh PROVE Ended(c)'
    BY Zenon DEF Outcome
  <1>1. pc[c] = "returned" /\ call'[c] = call[c] /\ response'[c] = response[c] /\ call[c].fresh
    OBVIOUS
  <1>2. Ended(c)
    BY <1>1, Zenon DEF Outcome
  <1>3. ResponseTold(c) => ResponseTold(c)'
    BY <1>1, ResponseStays
  <1>4. Unique(c) => Unique(c)'
    BY <1>1, Zenon DEF Unique
  <1>5. Unsent(c) => Unsent(c)'
    BY <1>1, Zenon DEF Unsent
  <1>6. call[c].id \in answered[To(c)] => call'[c].id \in answered'[To(c)']
    BY <1>1
  <1> QED
    BY <1>1, <1>2, <1>3, <1>4, <1>5, <1>6, Zenon DEF Ended

SameClient(c) ==
  pc'[c] = pc[c] /\ channel'[c] = channel[c] /\ call'[c] = call[c] /\ response'[c] = response[c]

LEMMA SameFields ==
  ASSUME NEW c, SameClient(c)
  PROVE  /\ Own(c)' = Own(c) /\ To(c)' = To(c) /\ Sent(c)' = Sent(c)
         /\ channel'[c].peer = channel[c].peer /\ channel'[c].socket = channel[c].socket
         /\ channel'[c].ids = channel[c].ids
         /\ channel'[c].m_reply_datas = channel[c].m_reply_datas
  BY DEF SameClient, Own, To, Sent

(* The parts that the connections a caller has made cannot change. *)
LEMMA ClientStays ==
  ASSUME NEW c \in Caller, CallerInv(c), SameClient(c), Grows,
         answered[To(c)] \subseteq answered'[To(c)],
         \A k \in Connection : Later(c, k) => SameWire(k),
         channel[c].peer = REGISTER => answered'[<<c, ORDER>>] = answered[<<c, ORDER>>]
  PROVE  Unopened(c)' /\ AtRegistry(c)' /\ Pending(c)' /\ Outcome(c)'
  <1>1. Unopened(c)'
    BY SameFields, UnopenedStay DEF CallerInv
  <1>2. AtRegistry(c)'
    BY Zenon DEF CallerInv, SameClient, AtRegistry
  <1>3. Pending(c)'
    BY SameFields, PendingStay DEF CallerInv, SameClient
  <1>4. Outcome(c)'
    BY SameFields, OutcomeStays DEF CallerInv, SameClient
  <1> QED
    BY <1>1, <1>2, <1>3, <1>4

(* Nothing happens to the caller's connections. *)
SameServer(c) ==
  /\ \A k \in Connection : k[1] = c => SameWire(k)
  /\ \A peer \in Peer : answered'[<<c, peer>>] = answered[<<c, peer>>]

LEMMA SameServerFields ==
  ASSUME Types, NEW c \in Caller, SameServer(c)
  PROVE  /\ SameWire(Own(c)) /\ answered'[To(c)] = answered[To(c)]
         /\ \A k \in Connection : Chan(k) = To(c) => SameWire(k)
         /\ \A k \in Connection : Later(c, k) => SameWire(k)
         /\ answered'[<<c, ORDER>>] = answered[<<c, ORDER>>]
  <1>1. Own(c) \in Connection /\ Own(c)[1] = c /\ channel[c].peer \in Peer
    BY CallerTypes DEF Own
  <1>2. answered'[To(c)] = answered[To(c)] /\ answered'[<<c, ORDER>>] = answered[<<c, ORDER>>]
    BY <1>1 DEF SameServer, To, Peer
  <1>3. \A k \in Connection : Chan(k) = To(c) \/ Later(c, k) => k[1] = c
    BY DEF Chan, To, Later
  <1> QED
    BY <1>1, <1>2, <1>3, Zenon DEF SameServer

LEMMA OthersStay ==
  ASSUME Types, NEW c \in Caller, CallerInv(c), SameClient(c), Grows, SameServer(c)
  PROVE  CallerInv(c)'
  <1>1. /\ SameWire(Own(c)) /\ answered'[To(c)] = answered[To(c)]
        /\ \A k \in Connection : Chan(k) = To(c) => SameWire(k)
        /\ \A k \in Connection : Later(c, k) => SameWire(k)
        /\ answered'[<<c, ORDER>>] = answered[<<c, ORDER>>]
    BY SameServerFields
  <1>2. RequestsSent(c)'
    BY <1>1, SameFields, RequestsStay DEF CallerInv, SameWire
  <1>3. AnsweredSent(c)'
    BY <1>1, SameFields, AnsweredStay DEF CallerInv
  <1>4. RepliesSound(c)'
    <2>1. Replies(c)' = Replies(c)
      BY <1>1, SameFields DEF Replies, SameWire
    <2>2. Asking(c)' = Asking(c) /\ call'[c] = call[c]
      BY DEF Asking, SameClient
    <2>3. (\A id \in DOMAIN channel[c].m_reply_datas : channel[c].m_reply_datas[id].msg_id = id)'
      BY SameFields, Zenon DEF CallerInv, RepliesSound
    <2> QED
      BY <1>1, <2>1, <2>2, <2>3, SameFields, RepliesStay DEF CallerInv
  <1>5. Unopened(c)' /\ AtRegistry(c)' /\ Pending(c)' /\ Outcome(c)'
    BY <1>1, ClientStays
  <1> QED
    BY <1>2, <1>3, <1>4, <1>5 DEF CallerInv

-----------------------------------------------------------------------------
(* The steps of a caller, one lemma each; first, what they share.          *)

LEMMA RegisteredStays ==
  ASSUME RegisteredHeld, Grows, registered' = registered,
         \A c \in Caller : call'[c].known = call[c].known
  PROVE  RegisteredHeld'
  <1>1. ASSUME NEW r \in registered' PROVE r[2] \in Range(Addresses(allService', r[1]))
    <2>1. r[2] \in Range(Addresses(allService, r[1]))
      BY <1>1 DEF RegisteredHeld
    <2> QED
      BY <2>1, RangeGrows DEF Grows
  <1>2. \A c \in Caller : call'[c].known \subseteq registered'
    BY DEF RegisteredHeld
  <1> QED
    BY <1>1, <1>2, Zenon DEF RegisteredHeld

LEMMA ClientStep ==
  ASSUME IInv, NEW c \in Caller,
         \A d \in Caller \ {c} : SameClient(d),
         \A k \in Connection : k[1] # c => SameWire(k),
         conn' = conn, answered' = answered, allService' = allService,
         Types', Bounded(c)', CallerInv(c)', RegisteredHeld'
  PROVE  IInv'
  <1>1. Types /\ \A d \in Caller : Bounded(d) /\ CallerInv(d)
    BY DEF IInv
  <1>2. Grows
    BY <1>1, TableStays
  <1>3. ASSUME NEW d \in Caller PROVE Bounded(d)' /\ CallerInv(d)'
    <2>1. CASE d = c
      BY <2>1
    <2>2. CASE d # c
      <3>1. CallerInv(d)'
        <4>1. SameServer(d)
          BY <2>2 DEF SameServer
        <4> QED
          BY <1>1, <1>2, <2>2, <4>1, OthersStay
      <3>2. SameClient(d)
        BY <2>2
      <3>3. Bounded(d)'
        BY <1>1, <3>2, Zenon DEF Bounded, SameClient, To
      <3> QED
        BY <3>1, <3>3
    <2> QED
      BY <2>1, <2>2
  <1>4. \A k \in Connection : Serving(k)'
    BY Zenon DEF IInv, Serving
  <1> QED
    BY <1>3, <1>4 DEF IInv

(* A connection that the channel has not come to is not its own. *)
LEMMA LaterConnection ==
  ASSUME Types, NEW c \in Caller, NEW k \in Connection, Later(c, k)
  PROVE  k # Own(c)
  <1>1. channel[c].socket \in Nat
    BY CallerTypes, SocketsAssumption DEF Sockets
  <1>2. ~(channel[c].socket > channel[c].socket)
    BY <1>1
  <1> QED
    BY <1>2, PeersDiffer DEF Later, Own

(* A step that puts nothing into the out-buffer, and takes no reply from   *)
(* anywhere but the wire.                                                  *)
LEMMA QuietStep ==
  ASSUME IInv, NEW c \in Caller,
         \A d \in Caller \ {c} : SameClient(d),
         \A k \in Connection \ {Own(c)} : SameWire(k),
         conn' = conn, answered' = answered, allService' = allService,
         /\ channel'[c].peer = channel[c].peer
         /\ channel'[c].calls = channel[c].calls \/ channel'[c].calls <= Len(Requests[To(c)])
         /\ channel'[c].socket = channel[c].socket /\ channel'[c].ids = channel[c].ids
         /\ channel'[c].m_out_buffer = channel[c].m_out_buffer,
         Range(requests'[Own(c)]) \subseteq Range(requests[Own(c)]) \cup Sent(c),
         Range(replies'[Own(c)]) \subseteq Range(replies[Own(c)]),
         Range(channel'[c].m_reply_datas) \subseteq Replies(c),
         (\A id \in DOMAIN channel[c].m_reply_datas : channel[c].m_reply_datas[id].msg_id = id)',
         pc'[c] \in {"connect", "wait"} => pc[c] \in {"connect", "wait"} /\ call'[c] = call[c],
         Len(response'[c]) = Len(ResponsePrototype(call'[c].request)),
         Types', AtRegistry(c)', Outcome(c)', RegisteredHeld'
  PROVE  IInv'
  <1>1. Types /\ Bounded(c) /\ CallerInv(c)
    BY DEF IInv
  <1>2. Own(c)' = Own(c) /\ To(c)' = To(c) /\ Sent(c)' = Sent(c)
    BY DEF Own, To, Sent
  <1>3. Grows
    BY <1>1, TableStays
  <1>4. Bounded(c)'
    BY <1>1, <1>2 DEF Bounded
  <1>5. RequestsSent(c)'
    <2>1. ASSUME NEW k \in Connection
          PROVE  /\ Range(requests'[k]) \subseteq Range(requests[k]) \cup Sent(c)
                 /\ Range(conn'[k].todo) \subseteq Range(conn[k].todo)
      BY DEF SameWire
    <2> QED
      BY <1>1, <1>2, <2>1, RequestsStay DEF CallerInv
  <1>6. AnsweredSent(c)'
    BY <1>1, <1>2, AnsweredStay DEF CallerInv
  <1>7. RepliesSound(c)'
    <2>1. Replies(c)' \subseteq Replies(c)
      BY <1>2 DEF Replies
    <2>2. Asking(c)' => Asking(c) /\ call'[c] = call[c]
      BY DEF Asking
    <2> QED
      BY <1>1, <1>2, <1>3, <2>1, <2>2, RepliesStay DEF CallerInv
  <1>8. Unopened(c)'
    <2>1. \A k \in Connection : Later(c, k) => SameWire(k)
      BY <1>1, LaterConnection
    <2> QED
      BY <1>1, <2>1, UnopenedStay DEF CallerInv
  <1>9. Pending(c)'
    BY <1>1, <1>2, PendingStay DEF CallerInv
  <1>10. CallerInv(c)'
    BY <1>5, <1>6, <1>7, <1>8, <1>9 DEF CallerInv
  <1>11. \A k \in Connection : k[1] # c => SameWire(k)
    BY DEF Own
  <1> QED
    BY <1>4, <1>10, <1>11, ClientStep

LEMMA Updated ==
  ASSUME NEW S, NEW T, NEW f \in [S -> T], NEW a \in S, NEW e \in T
  PROVE  [f EXCEPT ![a] = e] \in [S -> T]
  OBVIOUS

LEMMA InitChannelStep ==
  ASSUME IInv, NEW c \in Caller, InitChannel(c) PROVE IInv'
  <1>1. Types /\ Bounded(c) /\ CallerInv(c) /\ RegisteredHeld
    BY DEF IInv
  <1>2. /\ channel' = [channel EXCEPT ![c].m_is_init = TRUE]
        /\ UNCHANGED <<pc, call, response, t_msg_id_no, m_mutex, conn, answered, allService,
                       requests, replies, registered>>
    BY DEF InitChannel, server, wire, ids
  <1>3. Types'
    <2>1. channel' \in [Caller -> ChannelType]
      <3> DEFINE r == [channel[c] EXCEPT !.m_is_init = TRUE]
      <3>1. channel' = [channel EXCEPT ![c] = r]
        BY <1>2
      <3>2. channel[c] \in ChannelType
        BY <1>1, CallerTypes
      <3>3. r \in ChannelType
        BY <3>2 DEF ChannelType
      <3> HIDE DEF r
      <3> QED
        BY <1>1, <3>1, <3>3, Updated DEF Types, ClientTypes
    <2> QED
      BY <1>1, <1>2, <2>1 DEF Types, ClientTypes, ServerTypes, WireTypes
  <1>4. /\ channel'[c].peer = channel[c].peer /\ channel'[c].calls = channel[c].calls
        /\ channel'[c].socket = channel[c].socket /\ channel'[c].ids = channel[c].ids
        /\ channel'[c].m_out_buffer = channel[c].m_out_buffer
        /\ channel'[c].m_reply_datas = channel[c].m_reply_datas
    BY <1>1, <1>2, CallerTypes DEF Types, ClientTypes, ChannelType
  <1>5. Grows
    BY <1>1, <1>2, TableStays
  <1>6. AtRegistry(c)'
    BY <1>1, <1>2, <1>4, Zenon DEF CallerInv, AtRegistry
  <1>7. Outcome(c)'
    BY <1>1, <1>2, <1>4, <1>5, OutcomeStays DEF CallerInv, To, Sent
  <1>8. RegisteredHeld'
    BY <1>1, <1>2, <1>5, RegisteredStays
  <1>9. (\A id \in DOMAIN channel[c].m_reply_datas : channel[c].m_reply_datas[id].msg_id = id)'
    BY <1>1, <1>4, Zenon DEF CallerInv, RepliesSound
  <1>10. Len(response'[c]) = Len(ResponsePrototype(call'[c].request))
    BY <1>1, <1>2 DEF Bounded
  <1>11. /\ \A d \in Caller \ {c} : SameClient(d)
         /\ \A k \in Connection : SameWire(k)
    BY <1>1, <1>2 DEF SameClient, SameWire, Types, ClientTypes
  <1>12. Range(channel'[c].m_reply_datas) \subseteq Replies(c)
    BY <1>4 DEF Replies
  <1> QED
    BY <1>2, <1>3, <1>4, <1>6, <1>7, <1>8, <1>9, <1>10, <1>11, <1>12, QuietStep

LEMMA ConnectStep ==
  ASSUME IInv, NEW c \in Caller, Connect(c) PROVE IInv'
  <1>1. Types /\ Bounded(c) /\ CallerInv(c) /\ RegisteredHeld
    BY DEF IInv
  <1>2. /\ pc[c] = "connect" /\ pc' = [pc EXCEPT ![c] = "wait"]
        /\ channel' = [channel EXCEPT ![c].connected = TRUE]
        /\ requests' = [requests EXCEPT ![Own(c)] = @ \o channel[c].m_out_buffer]
        /\ UNCHANGED <<call, response, t_msg_id_no, m_mutex, conn, answered, allService,
                       replies, registered>>
    BY DEF Connect, server, ids
  <1>3. /\ Own(c) \in Connection /\ requests[Own(c)] \in Seq(TinyPBProtocol)
        /\ channel[c].m_out_buffer \in Seq(TinyPBProtocol)
    BY <1>1, CallerTypes, ConnectionTypes
  <1>4. /\ requests'[Own(c)] = requests[Own(c)] \o channel[c].m_out_buffer
        /\ requests'[Own(c)] \in Seq(TinyPBProtocol)
        /\ Range(requests'[Own(c)]) = Range(requests[Own(c)]) \cup Sent(c)
    BY <1>1, <1>2, <1>3, RangeConcatenation DEF Types, WireTypes, Sent
  <1>5. Types'
    <2>1. requests' \in [Connection -> Seq(TinyPBProtocol)]
      BY <1>1, <1>2, <1>3, <1>4 DEF Types, WireTypes
    <2>2. channel' \in [Caller -> ChannelType]
      <3> DEFINE r == [channel[c] EXCEPT !.connected = TRUE]
      <3>1. channel' = [channel EXCEPT ![c] = r]
        BY <1>2
      <3>2. channel[c] \in ChannelType
        BY <1>1, CallerTypes
      <3>3. r \in ChannelType
        BY <3>2 DEF ChannelType
      <3> HIDE DEF r
      <3> QED
        BY <1>1, <3>1, <3>3, Updated DEF Types, ClientTypes
    <2>3. ClientTypes' /\ ServerTypes'
      BY <1>1, <1>2, <2>2 DEF Types, ClientTypes, ServerTypes
    <2> QED
      BY <1>1, <1>2, <2>1, <2>3 DEF Types, WireTypes
  <1>6. /\ channel'[c].peer = channel[c].peer /\ channel'[c].calls = channel[c].calls
        /\ channel'[c].socket = channel[c].socket /\ channel'[c].ids = channel[c].ids
        /\ channel'[c].m_out_buffer = channel[c].m_out_buffer
        /\ channel'[c].m_reply_datas = channel[c].m_reply_datas
    BY <1>1, <1>2, CallerTypes DEF Types, ClientTypes, ChannelType
  <1>7. pc'[c] = "wait"
    BY <1>1, <1>2 DEF Types, ClientTypes
  <1>8. AtRegistry(c)'
    BY <1>1, <1>2, <1>6, <1>7, Zenon DEF CallerInv, AtRegistry
  <1>9. Outcome(c)'
    BY <1>7 DEF Outcome
  <1>10. RegisteredHeld'
    BY <1>1, <1>2, TableStays, RegisteredStays
  <1>11. (\A id \in DOMAIN channel[c].m_reply_datas : channel[c].m_reply_datas[id].msg_id = id)'
    BY <1>1, <1>6, Zenon DEF CallerInv, RepliesSound
  <1>12. Len(response'[c]) = Len(ResponsePrototype(call'[c].request))
    BY <1>1, <1>2 DEF Bounded
  <1>13. /\ \A d \in Caller \ {c} : SameClient(d)
         /\ \A k \in Connection \ {Own(c)} : SameWire(k)
    BY <1>1, <1>2 DEF SameClient, SameWire, Types, ClientTypes, WireTypes
  <1>14. Range(channel'[c].m_reply_datas) \subseteq Replies(c)
    BY <1>6 DEF Replies
  <1> QED
    BY <1>2, <1>4, <1>5, <1>6, <1>7, <1>8, <1>9, <1>10, <1>11, <1>12, <1>13, <1>14, QuietStep

LEMMA ErrorCodes ==
  LET own == {ERROR_RPC_CHANNEL_INIT, ERROR_FAILED_SERIALIZE}
  IN  /\ ERROR_PEER_CLOSED \in Nat \ ({0} \cup own \cup ServerErrors)
      /\ ERROR_RPC_CALL_TIMEOUT \in Nat \ ({0} \cup own \cup ServerErrors)
      /\ own \subseteq Nat \ ({0} \cup ServerErrors)
      /\ ERROR_RPC_CHANNEL_INIT # ERROR_FAILED_SERIALIZE
      /\ ServerErrors \subseteq Nat \ {0}
  BY DEF ServerErrors, ERROR_PEER_CLOSED, ERROR_RPC_CALL_TIMEOUT, ERROR_RPC_CHANNEL_INIT,
         ERROR_FAILED_SERIALIZE, ERROR_SERVICE_NOT_FOUND, ERROR_METHOD_NOT_FOUND,
         ERROR_PARSE_SERVICE_NAME, ERROR_FAILED_DESERIALIZE, SYS_ERROR_PREFIX

(* A call that was cut off. *)
LEMMA OutcomeFailed ==
  ASSUME NEW c \in Caller, Types, Pending(c), pc[c] \in {"connect", "wait"},
         NEW e \in {ERROR_PEER_CLOSED, ERROR_RPC_CALL_TIMEOUT},
         call' = [call EXCEPT ![c].error_code = e]
  PROVE  /\ call' \in [Caller -> CallType] /\ call'[c].request = call[c].request
         /\ \A d \in Caller : call'[d].known = call[d].known
         /\ Outcome(c)'
  <1>1. call'[c] = [call[c] EXCEPT !.error_code = e] /\ call[c] \in CallType
    BY DEF Types, ClientTypes
  <1>2. /\ e \in Nat \ ({0} \cup ServerErrors)
        /\ e # ERROR_RPC_CHANNEL_INIT /\ e # ERROR_FAILED_SERIALIZE
    BY ErrorCodes
  <1>3. /\ call'[c] \in CallType /\ call'[c].error_code = e
        /\ call'[c].request = call[c].request /\ call'[c].known = call[c].known
        /\ call'[c].done = call[c].done /\ call'[c].controlled = call[c].controlled
    BY <1>1, <1>2 DEF CallType
  <1>4. call'[c].done = 0 /\ call'[c].controlled
    BY <1>3 DEF Pending
  <1>5. Outcome(c)'
    <2>1. /\ call'[c].error_code # 0 /\ call'[c].error_code \notin ServerErrors
          /\ call'[c].error_code # ERROR_RPC_CHANNEL_INIT
          /\ call'[c].error_code # ERROR_FAILED_SERIALIZE
      BY <1>2, <1>3
    <2> QED
      BY <1>4, <2>1, Zenon DEF Outcome, Ended
  <1>6. call' \in [Caller -> CallType] /\ \A d \in Caller : call'[d].known = call[d].known
    BY <1>3 DEF Types, ClientTypes
  <1> QED
    BY <1>3, <1>5, <1>6

LEMMA ConnectFailsStep ==
  ASSUME IInv, NEW c \in Caller, ConnectFails(c) PROVE IInv'
  <1>1. Types /\ Bounded(c) /\ CallerInv(c) /\ RegisteredHeld
    BY DEF IInv
  <1>0. PICK e \in {ERROR_PEER_CLOSED, ERROR_RPC_CALL_TIMEOUT} :
          call' = [call EXCEPT ![c].error_code = e]
    BY Zenon DEF ConnectFails
  <1>2. /\ pc[c] = "connect" /\ pc' = [pc EXCEPT ![c] = "returned"]
        /\ UNCHANGED <<channel, response, t_msg_id_no, m_mutex, conn, answered, allService,
                       requests, replies, registered>>
    BY DEF ConnectFails, server, wire, ids
  <1>3. /\ call' \in [Caller -> CallType] /\ call'[c].request = call[c].request
        /\ \A d \in Caller : call'[d].known = call[d].known
        /\ Outcome(c)'
    BY <1>0, <1>1, <1>2, OutcomeFailed DEF CallerInv
  <1>4. Types'
    BY <1>1, <1>2, <1>3 DEF Types, ClientTypes, ServerTypes, WireTypes
  <1>5. pc'[c] = "returned"
    BY <1>1, <1>2 DEF Types, ClientTypes
  <1>6. AtRegistry(c)'
    BY <1>1, <1>2, <1>3, <1>5, Zenon DEF CallerInv, AtRegistry
  <1>7. RegisteredHeld'
    BY <1>1, <1>2, <1>3, TableStays, RegisteredStays
  <1>8. (\A id \in DOMAIN channel[c].m_reply_datas : channel[c].m_reply_datas[id].msg_id = id)'
    BY <1>1, <1>2, Zenon DEF CallerInv, RepliesSound
  <1>9. Len(response'[c]) = Len(ResponsePrototype(call'[c].request))
    BY <1>1, <1>2, <1>3 DEF Bounded
  <1>10. /\ \A d \in Caller \ {c} : SameClient(d)
         /\ \A k \in Connection : SameWire(k)
    BY <1>0, <1>1, <1>2 DEF SameClient, SameWire, Types, ClientTypes
  <1>11. Range(channel'[c].m_reply_datas) \subseteq Replies(c)
    BY <1>2 DEF Replies
  <1> QED
    BY <1>2, <1>4, <1>5, <1>6, <1>3, <1>7, <1>8, <1>9, <1>10, <1>11, QuietStep

LEMMA TimeoutStep ==
  ASSUME IInv, NEW c \in Caller, Timeout(c) PROVE IInv'
  <1>1. Types /\ Bounded(c) /\ CallerInv(c) /\ RegisteredHeld
    BY DEF IInv
  <1>2. /\ pc[c] = "wait" /\ pc' = [pc EXCEPT ![c] = "returned"]
        /\ call' = [call EXCEPT ![c].error_code = ERROR_RPC_CALL_TIMEOUT]
        /\ channel' = [channel EXCEPT ![c].replaced = TRUE]
        /\ replies' = [replies EXCEPT ![Own(c)] = <<>>]
        /\ UNCHANGED <<response, t_msg_id_no, m_mutex, conn, answered, allService,
                       requests, registered>>
    BY DEF Timeout, server, ids
  <1>3. /\ call' \in [Caller -> CallType] /\ call'[c].request = call[c].request
        /\ \A d \in Caller : call'[d].known = call[d].known
        /\ Outcome(c)'
    BY <1>1, <1>2, OutcomeFailed DEF CallerInv
  <1>4. Types'
    <2>1. channel' \in [Caller -> ChannelType]
      <3> DEFINE r == [channel[c] EXCEPT !.replaced = TRUE]
      <3>1. channel' = [channel EXCEPT ![c] = r]
        BY <1>2
      <3>2. channel[c] \in ChannelType
        BY <1>1, CallerTypes
      <3>3. r \in ChannelType
        BY <3>2 DEF ChannelType
      <3> HIDE DEF r
      <3> QED
        BY <1>1, <3>1, <3>3, Updated DEF Types, ClientTypes
    <2>2. <<>> \in Seq(TinyPBProtocol)
      OBVIOUS
    <2>3. replies' \in [Connection -> Seq(TinyPBProtocol)]
      BY <1>1, <1>2, <2>2 DEF Types, WireTypes
    <2>4. ClientTypes' /\ ServerTypes'
      BY <1>1, <1>2, <1>3, <2>1 DEF Types, ClientTypes, ServerTypes
    <2> QED
      BY <1>1, <1>2, <2>3, <2>4 DEF Types, WireTypes
  <1>5. pc'[c] = "returned"
    BY <1>1, <1>2 DEF Types, ClientTypes
  <1>6. /\ channel'[c].peer = channel[c].peer /\ channel'[c].calls = channel[c].calls
        /\ channel'[c].socket = channel[c].socket /\ channel'[c].ids = channel[c].ids
        /\ channel'[c].m_out_buffer = channel[c].m_out_buffer
        /\ channel'[c].m_reply_datas = channel[c].m_reply_datas
    BY <1>1, <1>2, CallerTypes DEF Types, ClientTypes, ChannelType
  <1>7. AtRegistry(c)'
    BY <1>1, <1>2, <1>3, <1>5, <1>6, Zenon DEF CallerInv, AtRegistry
  <1>8. RegisteredHeld'
    BY <1>1, <1>2, <1>3, TableStays, RegisteredStays
  <1>9. (\A id \in DOMAIN channel[c].m_reply_datas : channel[c].m_reply_datas[id].msg_id = id)'
    BY <1>1, <1>6, Zenon DEF CallerInv, RepliesSound
  <1>10. Len(response'[c]) = Len(ResponsePrototype(call'[c].request))
    BY <1>1, <1>2, <1>3 DEF Bounded
  <1>11. /\ \A d \in Caller \ {c} : SameClient(d)
         /\ \A k \in Connection \ {Own(c)} : SameWire(k)
    BY <1>1, <1>2 DEF SameClient, SameWire, Types, ClientTypes, WireTypes
  <1>12. Range(replies'[Own(c)]) \subseteq Range(replies[Own(c)])
    <2>1. replies'[Own(c)] = <<>>
      BY <1>1, <1>2, CallerTypes DEF Types, WireTypes
    <2> QED
      BY <2>1, RangeEmpty
  <1>13. Range(channel'[c].m_reply_datas) \subseteq Replies(c)
    BY <1>6 DEF Replies
  <1> QED
    BY <1>2, <1>3, <1>4, <1>5, <1>6, <1>7, <1>8, <1>9, <1>10, <1>11, <1>12, <1>13, QuietStep

(* The channel goes on to a connection on which there is nothing. *)
LEMMA PeerClosesStep ==
  ASSUME IInv, NEW c \in Caller, PeerCloses(c) PROVE IInv'
  <1>1. Types /\ Bounded(c) /\ CallerInv(c) /\ RegisteredHeld
    BY DEF IInv
  <1> DEFINE r == [channel[c] EXCEPT !.socket = @ + 1, !.connected = FALSE]
  <1>2. /\ pc[c] = "wait" /\ pc' = [pc EXCEPT ![c] = "returned"]
        /\ channel[c].socket < MaxSockets
        /\ call' = [call EXCEPT ![c].error_code = ERROR_PEER_CLOSED]
        /\ channel' = [channel EXCEPT ![c] = r]
        /\ UNCHANGED <<response, t_msg_id_no, m_mutex, conn, answered, allService,
                       requests, replies, registered>>
    BY DEF PeerCloses, server, wire, ids
  <1>3. /\ call' \in [Caller -> CallType] /\ call'[c].request = call[c].request
        /\ \A d \in Caller : call'[d].known = call[d].known
        /\ Outcome(c)'
    BY <1>1, <1>2, OutcomeFailed DEF CallerInv
  <1>4. channel[c] \in ChannelType /\ channel[c].socket \in Sockets
    BY <1>1, CallerTypes
  <1>5. /\ r \in ChannelType /\ r.socket = channel[c].socket + 1 /\ r.peer = channel[c].peer
        /\ r.calls = channel[c].calls /\ r.ids = channel[c].ids
        /\ r.m_out_buffer = channel[c].m_out_buffer /\ r.m_reply_datas = channel[c].m_reply_datas
    <2>1. channel[c].socket + 1 \in Sockets
      BY <1>2, <1>4, SocketsAssumption DEF Sockets
    <2> QED
      BY <1>4, <2>1 DEF ChannelType
  <1>6. channel'[c] = r
    BY <1>1, <1>2 DEF Types, ClientTypes
  <1> HIDE DEF r
  <1>7. Types'
    <2>1. channel' \in [Caller -> ChannelType]
      BY <1>1, <1>2, <1>5, Updated DEF Types, ClientTypes
    <2>2. ClientTypes' /\ ServerTypes' /\ WireTypes'
      BY <1>1, <1>2, <1>3, <2>1 DEF Types, ClientTypes, ServerTypes, WireTypes
    <2> QED
      BY <2>2 DEF Types
  <1>8. pc'[c] = "returned"
    BY <1>1, <1>2 DEF Types, ClientTypes
  <1>9. To(c)' = To(c) /\ Sent(c)' = Sent(c) /\ Own(c)' = <<c, channel[c].peer, r.socket>>
    BY <1>5, <1>6 DEF To, Sent, Own
  <1>10. Grows
    BY <1>1, <1>2, TableStays
  <1>11. Bounded(c)'
    BY <1>1, <1>2, <1>3, <1>5, <1>6, <1>9 DEF Bounded
  <1>12. RequestsSent(c)'
    BY <1>1, <1>2, <1>5, <1>6, <1>9, RequestsStay DEF CallerInv
  <1>13. AnsweredSent(c)'
    BY <1>1, <1>2, <1>5, <1>6, <1>9, AnsweredStay DEF CallerInv
  <1>14. Unopened(c)'
    <2>1. ASSUME NEW k \in Connection, Later(c, k)' PROVE Idle(k)'
      <3>1. channel[c].socket \in Nat /\ k[3] \in Nat
        BY <1>4, SocketsAssumption DEF Connection, Sockets
      <3>2. Later(c, k)
        BY <1>5, <1>6, <2>1, <3>1 DEF Later
      <3>3. Idle(k)
        BY <1>1, <3>2 DEF CallerInv, Unopened
      <3> QED
        BY <1>2, <3>3 DEF Idle
    <2>2. channel'[c].peer = REGISTER => answered'[<<c, ORDER>>] = {}
      BY <1>1, <1>2, <1>5, <1>6 DEF CallerInv, Unopened
    <2> QED
      BY <2>1, <2>2, Zenon DEF Unopened
  <1>15. Idle(Own(c)')
    <2>1. Own(c)' \in Connection
      BY <1>4, <1>5, <1>9 DEF Connection, ChannelType
    <2>2. Later(c, Own(c)')
      <3>1. channel[c].socket \in Nat
        BY <1>4, SocketsAssumption DEF Sockets
      <3> QED
        BY <1>5, <1>9, <3>1 DEF Later
    <2> QED
      BY <1>1, <2>1, <2>2 DEF CallerInv, Unopened
  <1>16. RepliesSound(c)'
    <2>1. Replies(c)' \subseteq Replies(c)
      BY <1>2, <1>5, <1>6, <1>15, RangeEmpty DEF Replies, Idle
    <2>2. ~Asking(c)'
      BY <1>8 DEF Asking
    <2>3. (\A id \in DOMAIN channel[c].m_reply_datas : channel[c].m_reply_datas[id].msg_id = id)'
      BY <1>1, <1>5, <1>6, Zenon DEF CallerInv, RepliesSound
    <2> QED
      BY <1>1, <1>2, <1>9, <1>10, <2>1, <2>2, <2>3, RepliesStay DEF CallerInv
  <1>17. AtRegistry(c)'
    BY <1>1, <1>2, <1>3, <1>5, <1>6, <1>8, Zenon DEF CallerInv, AtRegistry
  <1>18. Pending(c)'
    BY <1>8 DEF Pending, Asking
  <1>19. CallerInv(c)'
    BY <1>3, <1>12, <1>13, <1>14, <1>16, <1>17, <1>18 DEF CallerInv
  <1>20. RegisteredHeld'
    BY <1>1, <1>2, <1>3, <1>10, RegisteredStays
  <1>21. /\ \A d \in Caller \ {c} : SameClient(d)
         /\ \A k \in Connection : SameWire(k)
    BY <1>1, <1>2 DEF SameClient, SameWire, Types, ClientTypes
  <1> QED
    BY <1>2, <1>7, <1>11, <1>19, <1>20, <1>21, ClientStep

(* The program goes on: nothing changes but where it is and its cache. *)
LEMMA ProgramStep ==
  ASSUME IInv, NEW c \in Caller,
         NEW at \in {"idle", "pick", "picked", "undefined"}, pc' = [pc EXCEPT ![c] = at],
         UNCHANGED <<channel, call, response, t_msg_id_no, m_mutex, conn, answered, allService,
                     requests, replies, registered>>,
         at \in {"pick", "picked"} => channel[c].peer = REGISTER
  PROVE  IInv'
  <1>1. Types /\ Bounded(c) /\ CallerInv(c) /\ RegisteredHeld
    BY DEF IInv
  <1>2. Types'
    BY <1>1 DEF Types, ClientTypes, ServerTypes, WireTypes
  <1>3. pc'[c] = at
    BY <1>1 DEF Types, ClientTypes
  <1>4. AtRegistry(c)' /\ Outcome(c)'
    BY <1>3 DEF AtRegistry, Outcome
  <1>5. RegisteredHeld'
    BY <1>1, TableStays, RegisteredStays
  <1>6. (\A id \in DOMAIN channel[c].m_reply_datas : channel[c].m_reply_datas[id].msg_id = id)'
    BY <1>1, Zenon DEF CallerInv, RepliesSound
  <1>7. Len(response'[c]) = Len(ResponsePrototype(call'[c].request))
    BY <1>1 DEF Bounded
  <1>8. /\ \A d \in Caller \ {c} : SameClient(d)
        /\ \A k \in Connection : SameWire(k)
    BY <1>1 DEF SameClient, SameWire, Types, ClientTypes
  <1>9. Range(channel'[c].m_reply_datas) \subseteq Replies(c)
    BY DEF Replies
  <1> QED
    BY <1>2, <1>3, <1>4, <1>5, <1>6, <1>7, <1>8, <1>9, QuietStep

LEMMA UpdateServiceStep ==
  ASSUME IInv, NEW c \in Caller, UpdateService(c) PROVE IInv'
  <1>1. channel[c].peer = REGISTER
    BY DEF IInv, CallerInv, AtRegistry, UpdateService
  <1> QED
    BY <1>1, ProgramStep DEF UpdateService, server, wire, ids

LEMMA PickStep ==
  ASSUME IInv, NEW c \in Caller, Pick(c) PROVE IInv'
  <1>1. channel[c].peer = REGISTER
    BY DEF IInv, CallerInv, AtRegistry, Pick
  <1>2. CASE m_service_cache[c] = <<>>
    BY <1>2, ProgramStep DEF Pick, server, wire, ids
  <1>3. CASE m_service_cache[c] # <<>>
    BY <1>1, <1>3, ProgramStep DEF Pick, server, wire, ids
  <1> QED
    BY <1>2, <1>3

LEMMA GoOnStep ==
  ASSUME IInv, NEW c \in Caller, GoOn(c) PROVE IInv'
  BY ProgramStep DEF GoOn, server, wire, ids

(* What a decoder makes of a sound reply is that reply: its id was cut when *)
(* its request was read.                                                   *)
LEMMA SoundReplyCut ==
  ASSUME Types, NEW c \in Caller, NEW p \in TinyPBProtocol, SoundReply(c, p)
  PROVE  Cut(p) = p
  <1>1. PICK q \in Sent(c) : p.msg_id = CString(q.msg_id)
    BY DEF SoundReply, Answers
  <1>2. q.msg_id \in Seq(Byte)
    BY CallerTypes DEF TinyPBProtocol
  <1>3. CString(p.msg_id) = p.msg_id
    BY <1>1, <1>2, CStringTwice
  <1> QED
    BY <1>3 DEF Cut, TinyPBProtocol

LEMMA InsertedReplies ==
  ASSUME NEW m \in ReplyDatas, NEW s \in Seq(TinyPBProtocol),
         \A id \in DOMAIN m : m[id].msg_id = id
  PROVE  /\ Inserted(m, s) \in ReplyDatas
         /\ \A id \in DOMAIN Inserted(m, s) : Inserted(m, s)[id].msg_id = id
         /\ Range(Inserted(m, s)) \subseteq Range(m) \cup Range(s)
  <1> DEFINE ids_of == {s[k].msg_id : k \in DOMAIN s}
             at(id) == {k \in DOMAIN s : s[k].msg_id = id}
             first(id) == Min(at(id))
             D == DOMAIN m \cup ids_of
             i == Inserted(m, s)
  <1>1. i = [id \in D |-> IF id \in DOMAIN m THEN m[id] ELSE s[first(id)]]
    BY Zenon DEF Inserted
  <1>2. DOMAIN s \subseteq Nat /\ \A k \in DOMAIN s : s[k] \in TinyPBProtocol
    OBVIOUS
  <1>3. D \subseteq Seq(Byte)
    <2>1. \A id \in DOMAIN m : id \in Seq(Byte)
      BY ReplyTypes
    <2>2. \A k \in DOMAIN s : s[k].msg_id \in Seq(Byte)
      BY <1>2 DEF TinyPBProtocol
    <2> QED
      BY <2>1, <2>2
  <1>4. ASSUME NEW id \in D, id \notin DOMAIN m
        PROVE  first(id) \in DOMAIN s /\ s[first(id)].msg_id = id
    <2>1. at(id) \in SUBSET Nat /\ at(id) # {}
      BY <1>2, <1>4
    <2>2. first(id) \in at(id)
      <3> HIDE DEF at
      <3> QED
        BY <2>1, MinElement
    <2> HIDE DEF first
    <2> QED
      BY <2>2
  <1> HIDE DEF first, at, D
  <1>5. ASSUME NEW id \in D
        PROVE  i[id] \in TinyPBProtocol /\ i[id].msg_id = id /\ i[id] \in Range(m) \cup Range(s)
    <2>1. CASE id \in DOMAIN m
      BY <1>1, <2>1, ReplyTypes DEF Range
    <2>2. CASE id \notin DOMAIN m
      <3>1. i[id] = s[first(id)]
        BY <1>1, <2>2
      <3> HIDE DEF i
      <3> QED
        BY <1>2, <1>4, <2>2, <3>1 DEF Range
    <2> QED
      BY <2>1, <2>2
  <1>6. DOMAIN i = D /\ i = [id \in D |-> i[id]]
    BY <1>1
  <1> HIDE DEF i
  <1>7. i \in ReplyDatas
    BY <1>3, <1>5, <1>6 DEF ReplyDatas
  <1>8. \A id \in DOMAIN i : i[id].msg_id = id
    BY <1>5, <1>6
  <1>9. Range(i) \subseteq Range(m) \cup Range(s)
    BY <1>5, <1>6 DEF Range
  <1> QED
    BY <1>7, <1>8, <1>9 DEF i

LEMMA ReceiveStep ==
  ASSUME IInv, NEW c \in Caller, Receive(c) PROVE IInv'
  <1>1. Types /\ Bounded(c) /\ CallerInv(c) /\ RegisteredHeld
    BY DEF IInv
  <1> DEFINE w == replies[Own(c)]
             m == channel[c].m_reply_datas
  <1>2. PICK k \in 1 .. Len(w) :
          /\ channel' = [channel EXCEPT ![c].m_reply_datas = Inserted(@, Decoded(SubSeq(w, 1, k)))]
          /\ replies' = [replies EXCEPT ![Own(c)] = SubSeq(@, k + 1, Len(@))]
    BY DEF Receive
  <1>3. /\ pc[c] = "wait"
        /\ UNCHANGED <<pc, call, response, t_msg_id_no, m_mutex, conn, answered, allService,
                       requests, registered>>
    BY DEF Receive, server, ids
  <1>4. /\ Own(c) \in Connection /\ w \in Seq(TinyPBProtocol) /\ m \in ReplyDatas
        /\ \A id \in DOMAIN m : m[id].msg_id = id
        /\ \A p \in Range(w) : SoundReply(c, p)
    BY <1>1, CallerTypes, ConnectionTypes DEF CallerInv, RepliesSound, Replies
  <1> DEFINE head == SubSeq(w, 1, k)
             rest == SubSeq(w, k + 1, Len(w))
  <1>5. /\ head \in Seq(TinyPBProtocol) /\ Range(head) \subseteq Range(w)
        /\ rest \in Seq(TinyPBProtocol) /\ Range(rest) \subseteq Range(w)
    <2> HIDE DEF w
    <2>1. 1 \in 1 .. Len(w) + 1 /\ k \in 0 .. Len(w) /\ k + 1 \in 1 .. Len(w) + 1 /\ Len(w) \in 0 .. Len(w)
      BY <1>4
    <2> QED
      BY <1>4, <2>1, RangeSubSeq
  <1>6. Decoded(head) = head
    <2> HIDE DEF head, w
    <2>1. \A j \in DOMAIN head : Cut(head[j]) = head[j]
      <3> SUFFICES ASSUME NEW j \in DOMAIN head PROVE Cut(head[j]) = head[j]
        OBVIOUS
      <3>1. head[j] \in TinyPBProtocol /\ head[j] \in Range(head)
        BY <1>5 DEF Range
      <3> QED
        BY <1>1, <1>4, <1>5, <3>1, SoundReplyCut
    <2>2. /\ Decoded(head) \in Seq(TinyPBProtocol) /\ DOMAIN Decoded(head) = DOMAIN head
          /\ \A j \in DOMAIN head : Decoded(head)[j] = Cut(head[j])
      BY <1>5, DecodedCut
    <2>3. /\ Decoded(head) = [j \in DOMAIN head |-> Decoded(head)[j]]
          /\ head = [j \in DOMAIN head |-> head[j]]
      BY <1>5, <2>2
    <2>4. \A j \in DOMAIN head : Decoded(head)[j] = head[j]
      BY <2>1, <2>2
    <2> QED
      BY <2>3, <2>4
  <1> HIDE DEF head, rest, w, m
  <1>7. /\ Inserted(m, head) \in ReplyDatas
        /\ \A id \in DOMAIN Inserted(m, head) : Inserted(m, head)[id].msg_id = id
        /\ Range(Inserted(m, head)) \subseteq Range(m) \cup Range(head)
    BY <1>4, <1>5, InsertedReplies
  <1>8. /\ channel' = [channel EXCEPT ![c].m_reply_datas = Inserted(m, head)]
        /\ replies' = [replies EXCEPT ![Own(c)] = rest]
    BY <1>2, <1>6 DEF m, head, w, rest
  <1>9. Types'
    <2>1. channel' \in [Caller -> ChannelType]
      <3> DEFINE r == [channel[c] EXCEPT !.m_reply_datas = Inserted(m, head)]
      <3>1. channel' = [channel EXCEPT ![c] = r]
        BY <1>8
      <3>2. channel[c] \in ChannelType
        BY <1>1, CallerTypes
      <3>3. r \in ChannelType
        BY <1>7, <3>2 DEF ChannelType
      <3> HIDE DEF r
      <3> QED
        BY <1>1, <3>1, <3>3, Updated DEF Types, ClientTypes
    <2>2. ClientTypes'
      BY <1>1, <1>3, <2>1 DEF Types, ClientTypes
    <2>3. ServerTypes' /\ WireTypes'
      BY <1>1, <1>3, <1>5, <1>8 DEF Types, ServerTypes, WireTypes
    <2> QED
      BY <2>2, <2>3 DEF Types
  <1>10. /\ channel'[c].peer = channel[c].peer /\ channel'[c].calls = channel[c].calls
         /\ channel'[c].socket = channel[c].socket /\ channel'[c].ids = channel[c].ids
         /\ channel'[c].m_out_buffer = channel[c].m_out_buffer
         /\ channel'[c].m_reply_datas = Inserted(m, head)
         /\ replies'[Own(c)] = rest
    BY <1>1, <1>4, <1>8, CallerTypes DEF Types, ClientTypes, ChannelType, WireTypes
  <1>11. AtRegistry(c)'
    BY <1>1, <1>3, <1>10, Zenon DEF CallerInv, AtRegistry
  <1>12. Outcome(c)'
    BY <1>3 DEF Outcome
  <1>13. RegisteredHeld'
    BY <1>1, <1>3, TableStays, RegisteredStays
  <1>14. (\A id \in DOMAIN channel[c].m_reply_datas : channel[c].m_reply_datas[id].msg_id = id)'
    BY <1>7, <1>10
  <1>15. Len(response'[c]) = Len(ResponsePrototype(call'[c].request))
    BY <1>1, <1>3 DEF Bounded
  <1>16. /\ \A d \in Caller \ {c} : SameClient(d)
         /\ \A d \in Connection \ {Own(c)} : SameWire(d)
    BY <1>1, <1>3, <1>8 DEF SameClient, SameWire, Types, ClientTypes, WireTypes
  <1>17. Range(channel'[c].m_reply_datas) \subseteq Replies(c)
    BY <1>5, <1>7, <1>10 DEF Replies, m, w
  <1>18. Range(replies'[Own(c)]) \subseteq Range(replies[Own(c)])
    BY <1>5, <1>10 DEF w
  <1> QED
    BY <1>3, <1>9, <1>10, <1>11, <1>12, <1>13, <1>14, <1>15, <1>16, <1>17, <1>18, QuietStep

LEMMA NoError ==
  ASSUME NEW peer, NEW q, ErrorOf(peer, q) = 0
  PROVE  /\ ServiceName(q.method_name) = peer /\ MethodName(q.method_name) \in Methods(peer)
         /\ q.pb_data \in Bodies
  <1>1. /\ ERROR_PARSE_SERVICE_NAME # 0 /\ ERROR_SERVICE_NOT_FOUND # 0
        /\ ERROR_METHOD_NOT_FOUND # 0 /\ ERROR_FAILED_DESERIALIZE # 0
    BY DEF ERROR_PARSE_SERVICE_NAME, ERROR_SERVICE_NOT_FOUND, ERROR_METHOD_NOT_FOUND,
           ERROR_FAILED_DESERIALIZE, SYS_ERROR_PREFIX
  <1> QED
    BY <1>1 DEF ErrorOf

LEMMA ErrorsOf ==
  ASSUME NEW peer, NEW q PROVE ErrorOf(peer, q) \in ServerErrors \cup {0}
  BY DEF ErrorOf, ServerErrors

LEMMA RegistrationTyped ==
  ASSUME NEW q, q.pb_data \in Bodies, IsRegistration(q)
  PROVE  ServiceAndAddress(q) \in ServiceAddress
  <1> DEFINE schema == RegisterServerReq
             m == InternalParse(schema, Clear(schema), q.pb_data)
  <1>1. 1 \in DOMAIN schema /\ 2 \in DOMAIN schema /\ schema[1] = "string" /\ schema[2] = "string"
    BY DEF RegisterServerReq
  <1>2. RequestPrototype(q) = schema
    BY NamesOf, Zenon DEF RequestPrototype
  <1>3. q.pb_data \in Seq(Item) /\ Message(q) = m
    BY <1>2, BodyType, Zenon DEF Message
  <1> HIDE DEF schema
  <1>4. m[1] \in Seq(Byte) /\ m[2] \in Seq(Byte)
    BY <1>1, <1>3, FieldValue
  <1> HIDE DEF m
  <1> QED
    BY <1>3, <1>4 DEF ServiceAndAddress, servicename, serviceipandport, ServiceAddress

(* What a caller finds in a body that lists addresses. *)
LEMMA ListFound ==
  ASSUME NEW body \in Seq(Item), NEW a \in Seq(Seq(Byte)), Lists(body, a)
  PROVE  LET found == targetserviceipandport(ParseFromString(GetTargetAddrResp, body))
         IN  /\ found \in Seq(Seq(Byte)) /\ IsPrefix(found, a)
             /\ \A x : (\E i \in 1 .. Len(body) : body[i] = <<3, "string", x>>) => x \in Range(found)
  <1> DEFINE found == [i \in 1 .. Len(body) |-> body[i][3]]
  <1>1. /\ Len(body) \in Nat /\ Len(a) \in Nat /\ Len(body) <= Len(a)
        /\ \A i \in 1 .. Len(body) : body[i] = <<3, "string", a[i]>>
    <2>1. Len(body) \in Nat /\ Len(a) \in Nat
      OBVIOUS
    <2> QED
      BY <2>1, Zenon DEF Lists
  <1>2. \A i \in 1 .. Len(body) : body[i][1] = 3 /\ body[i][2] = "string" /\ body[i][3] = a[i]
    BY <1>1
  <1>3. targetserviceipandport(ParseFromString(GetTargetAddrResp, body)) = found
    BY <1>2, ListParsed
  <1>4. found \in Seq(Seq(Byte)) /\ Len(found) = Len(body)
    <2>1. \A i \in 1 .. Len(body) : body[i][3] \in Seq(Byte)
      <3> SUFFICES ASSUME NEW i \in 1 .. Len(body) PROVE body[i][3] \in Seq(Byte)
        OBVIOUS
      <3>1. i \in DOMAIN a
        BY <1>1
      <3> QED
        BY <1>2, <3>1
    <2> DEFINE S == Seq(Byte)
               n == Len(body)
               at(i) == body[i][3]
    <2>2. n \in Nat /\ \A i \in 1 .. n : at(i) \in S
      BY <1>1, <2>1
    <2> HIDE DEF S, n, at
    <2>3. [i \in 1 .. n |-> at(i)] \in Seq(S) /\ Len([i \in 1 .. n |-> at(i)]) = n
      BY <2>2
    <2> QED
      BY <2>3 DEF S, n, at
  <1>5. \A i \in 1 .. Len(body) : found[i] = a[i]
    BY <1>2
  <1>6. DOMAIN found = 1 .. Len(body)
    OBVIOUS
  <1>7. ASSUME NEW x, NEW i \in 1 .. Len(body), body[i] = <<3, "string", x>>
        PROVE  x \in Range(found)
    <2>1. found[i] = x
      BY <1>7
    <2> HIDE DEF found
    <2> QED
      BY <1>6, <2>1 DEF Range
  <1> HIDE DEF found
  <1>8. IsPrefix(found, a)
    BY <1>1, <1>4, <1>5, PrefixElements
  <1> QED
    BY <1>3, <1>4, <1>7, <1>8

(* The reply that a call finds under its id is to its own request. *)
LEMMA ReplyFound ==
  ASSUME Types, NEW c \in Caller, CallerInv(c), pc[c] = "wait",
         call[c].id \in DOMAIN channel[c].m_reply_datas
  PROVE  /\ Reply(c) \in TinyPBProtocol
         /\ Rest(c) \in ReplyDatas /\ Range(Rest(c)) \subseteq Replies(c)
         /\ \A id \in DOMAIN Rest(c) : Rest(c)[id].msg_id = id
         /\ call[c].fresh =>
              /\ Unique(c)
              /\ ErrorOf(channel[c].peer, call[c].request) # 0 =>
                   Reply(c).err_code = ErrorOf(channel[c].peer, call[c].request)
              /\ ErrorOf(channel[c].peer, call[c].request) = 0 =>
                   /\ Reply(c).err_code \in {0, ERROR_FAILED_SERIALIZE}
                   /\ call[c].id \in answered[To(c)]
              /\ Reply(c).err_code = 0 =>
                   /\ Told(Reply(c).pb_data, call[c].request)
                   /\ IsLookup(call[c].request) => ListsKnown(c, Reply(c).pb_data)
         /\ \E q \in Sent(c) : Answers(To(c), Reply(c), q) /\ Reply(c).msg_id = call[c].id
  <1> DEFINE m == channel[c].m_reply_datas
             id == call[c].id
  <1>1. PICK p : p = Reply(c)
    OBVIOUS
  <1>2. m \in ReplyDatas /\ p = m[id] /\ \A i \in DOMAIN m : m[i].msg_id = i /\ m[i] \in Replies(c)
    BY <1>1, CallerTypes DEF Reply, CallerInv, RepliesSound, Replies, Range
  <1>3. p \in TinyPBProtocol /\ id \in Seq(Byte) /\ p.msg_id = id /\ SoundReply(c, p)
    BY <1>2, ReplyTypes DEF CallerInv, RepliesSound
  <1>4. /\ Rest(c) \in ReplyDatas /\ Range(Rest(c)) \subseteq Replies(c)
        /\ \A i \in DOMAIN Rest(c) : Rest(c)[i].msg_id = i
    <2>1. Rest(c) = [i \in DOMAIN m \ {id} |-> m[i]]
      BY DEF Rest
    <2>2. \A i \in DOMAIN m : m[i] \in TinyPBProtocol /\ i \in Seq(Byte)
      BY <1>2, ReplyTypes
    <2> HIDE DEF m, id
    <2>3. Rest(c) \in [DOMAIN m \ {id} -> TinyPBProtocol] /\ DOMAIN m \ {id} \in SUBSET Seq(Byte)
      BY <2>1, <2>2
    <2>4. Rest(c) \in ReplyDatas
      BY <2>3 DEF ReplyDatas
    <2> QED
      BY <1>2, <2>1, <2>4 DEF Range
  <1>5. PICK q \in Sent(c) : Answers(To(c), p, q)
    BY <1>3 DEF SoundReply
  <1>6. ASSUME call[c].fresh
        PROVE  /\ Unique(c)
               /\ ErrorOf(channel[c].peer, call[c].request) # 0 =>
                    p.err_code = ErrorOf(channel[c].peer, call[c].request)
               /\ ErrorOf(channel[c].peer, call[c].request) = 0 =>
                    p.err_code \in {0, ERROR_FAILED_SERIALIZE} /\ id \in answered[To(c)]
               /\ p.err_code = 0 =>
                    /\ Told(p.pb_data, call[c].request)
                    /\ IsLookup(call[c].request) => ListsKnown(c, p.pb_data)
    <2>1. Asking(c) /\ Unique(c)
      BY <1>6 DEF Asking, CallerInv, Pending
    <2>2. q.msg_id \in Seq(Byte)
      BY CallerTypes DEF TinyPBProtocol
    <2>3. p.msg_id = CString(q.msg_id) /\ CString(id) = CString(q.msg_id)
      BY <1>3, <1>5, <2>2, CStringTwice DEF Answers
    <2>4. Same(q, call[c].request)
      BY <2>1, <2>3 DEF Unique
    <2>5. /\ ErrorOf(channel[c].peer, call[c].request) # 0 =>
               p.err_code = ErrorOf(channel[c].peer, call[c].request)
          /\ ErrorOf(channel[c].peer, call[c].request) = 0 =>
               p.err_code \in {0, ERROR_FAILED_SERIALIZE} /\ id \in answered[To(c)]
      <3>1. ErrorOf(To(c)[2], q) = ErrorOf(channel[c].peer, call[c].request)
        BY <2>4, CallerTypes, SameRequest
      <3> QED
        BY <1>3, <1>5, <3>1 DEF Answers
    <2>6. p.err_code = 0 => Told(p.pb_data, q)
      BY <1>5 DEF Answers
    <2>7. Told(p.pb_data, q) => Told(p.pb_data, call[c].request)
      BY <2>4, SameRequest, Zenon DEF Told
    <2>8. p.err_code = 0 /\ IsLookup(call[c].request) => ListsKnown(c, p.pb_data)
      BY <1>3, <2>1, <2>3 DEF SoundReply
    <2> QED
      BY <2>1, <2>5, <2>6, <2>7, <2>8
  <1> QED
    BY <1>1, <1>3, <1>4, <1>5, <1>6

LEMMA ParsedResponse ==
  ASSUME Types, NEW c \in Caller, response' = Parsed(c), call'[c].request = call[c].request
  PROVE  /\ DOMAIN response' = Caller
         /\ response'[c] = ParseFromString(ResponsePrototype(call[c].request), Reply(c).pb_data)
         /\ Len(response'[c]) = Len(ResponsePrototype(call'[c].request))
         /\ \A d \in Caller \ {c} : response'[d] = response[d]
  <1>1. DOMAIN response = Caller
    BY DEF Types, ClientTypes
  <1> DEFINE parsed == ParseFromString(ResponsePrototype(call[c].request), Reply(c).pb_data)
  <1>2. response' = [response EXCEPT ![c] = parsed]
    BY DEF Parsed
  <1>3. Len(parsed) = Len(ResponsePrototype(call[c].request))
    BY ParsedLength
  <1> HIDE DEF parsed
  <1>4. response'[c] = parsed /\ DOMAIN response' = Caller
    BY <1>1, <1>2
  <1>5. Len(response'[c]) = Len(ResponsePrototype(call'[c].request))
    BY <1>3, <1>4
  <1>6. \A d \in Caller \ {c} : response'[d] = response[d]
    BY <1>1, <1>2
  <1> QED
    BY <1>4, <1>5, <1>6 DEF parsed

LEMMA AnswerErrorStep ==
  ASSUME IInv, NEW c \in Caller, AnswerError(c) PROVE IInv'
  <1>1. Types /\ Bounded(c) /\ CallerInv(c) /\ RegisteredHeld
    BY DEF IInv
  <1> DEFINE e == Reply(c).err_code
             rest == Rest(c)
  <1>2. /\ pc[c] = "wait" /\ pc' = [pc EXCEPT ![c] = "returned"]
        /\ call[c].id \in DOMAIN channel[c].m_reply_datas /\ e # 0
        /\ response' = Parsed(c)
        /\ call' = [call EXCEPT ![c].error_code = e]
        /\ channel' = [channel EXCEPT ![c].m_reply_datas = rest]
        /\ UNCHANGED <<t_msg_id_no, m_mutex, conn, answered, allService, requests, replies, registered>>
    BY DEF AnswerError, server, wire, ids
  <1>3. /\ e \in Nat /\ rest \in ReplyDatas /\ Range(rest) \subseteq Replies(c)
        /\ \A id \in DOMAIN rest : rest[id].msg_id = id
        /\ call[c].fresh =>
             /\ Unique(c)
             /\ ErrorOf(channel[c].peer, call[c].request) # 0 =>
                  e = ErrorOf(channel[c].peer, call[c].request)
             /\ ErrorOf(channel[c].peer, call[c].request) = 0 =>
                  e = ERROR_FAILED_SERIALIZE /\ call[c].id \in answered[To(c)]
    BY <1>1, <1>2, ReplyFound DEF TinyPBProtocol
  <1> HIDE DEF e, rest
  <1>4. /\ call'[c] \in CallType /\ call'[c].error_code = e /\ call'[c].done = call[c].done
        /\ call'[c].request = call[c].request /\ call'[c].id = call[c].id
        /\ call'[c].fresh = call[c].fresh /\ call'[c].controlled = call[c].controlled
        /\ \A d \in Caller : call'[d].known = call[d].known
    <2>1. call'[c] = [call[c] EXCEPT !.error_code = e] /\ call[c] \in CallType
      BY <1>1, <1>2 DEF Types, ClientTypes
    <2>2. \A d \in Caller \ {c} : call'[d] = call[d]
      BY <1>1, <1>2 DEF Types, ClientTypes
    <2> QED
      BY <1>3, <2>1, <2>2 DEF CallType
  <1>5. pc'[c] = "returned"
    BY <1>1, <1>2 DEF Types, ClientTypes
  <1>6. /\ DOMAIN response' = Caller /\ \A d \in Caller \ {c} : response'[d] = response[d]
        /\ Len(response'[c]) = Len(ResponsePrototype(call'[c].request))
    BY <1>1, <1>2, <1>4, ParsedResponse
  <1>7. Types'
    <2>1. channel' \in [Caller -> ChannelType]
      <3> DEFINE r == [channel[c] EXCEPT !.m_reply_datas = rest]
      <3>1. channel' = [channel EXCEPT ![c] = r]
        BY <1>2
      <3>2. channel[c] \in ChannelType
        BY <1>1, CallerTypes
      <3>3. r \in ChannelType
        BY <1>3, <3>2 DEF ChannelType
      <3> HIDE DEF r
      <3> QED
        BY <1>1, <3>1, <3>3, Updated DEF Types, ClientTypes
    <2>2. call' \in [Caller -> CallType]
      BY <1>1, <1>2, <1>4 DEF Types, ClientTypes
    <2>3. ClientTypes'
      BY <1>1, <1>2, <1>6, <2>1, <2>2 DEF Types, ClientTypes
    <2> QED
      BY <1>1, <1>2, <2>3 DEF Types, ServerTypes, WireTypes
  <1>8. /\ channel'[c].peer = channel[c].peer /\ channel'[c].calls = channel[c].calls
        /\ channel'[c].socket = channel[c].socket /\ channel'[c].ids = channel[c].ids
        /\ channel'[c].m_out_buffer = channel[c].m_out_buffer
        /\ channel'[c].m_reply_datas = rest
    BY <1>1, <1>2, CallerTypes DEF Types, ClientTypes, ChannelType
  <1>9. AtRegistry(c)'
    BY <1>1, <1>2, <1>4, <1>5, <1>8, Zenon DEF CallerInv, AtRegistry
  <1>10. Outcome(c)'
    <2>1. /\ call'[c].controlled /\ call'[c].error_code # 0 /\ call'[c].done = 0
          /\ call'[c].id \in channel'[c].ids
      BY <1>1, <1>2, <1>4, <1>8 DEF CallerInv, Pending
    <2>2. call'[c].fresh => Unique(c)'
      BY <1>3, <1>4, <1>8, Zenon DEF Unique, Sent
    <2>3. ASSUME call'[c].fresh
          PROVE  /\ call'[c].error_code \in ServerErrors =>
                      ErrorOf(channel'[c].peer, call'[c].request) # 0
                 /\ call'[c].error_code # ERROR_RPC_CHANNEL_INIT
                 /\ call'[c].error_code = ERROR_FAILED_SERIALIZE =>
                      call'[c].id \in answered'[To(c)']
      <3>1. To(c)' = To(c)
        BY <1>8 DEF To
      <3> QED
        BY <1>2, <1>3, <1>4, <1>8, <2>3, <3>1, ErrorCodes, ErrorsOf
    <2> QED
      BY <2>1, <2>2, <2>3, Zenon DEF Outcome, Ended
  <1>11. RegisteredHeld'
    BY <1>1, <1>2, <1>4, TableStays, RegisteredStays
  <1>12. (\A id \in DOMAIN channel[c].m_reply_datas : channel[c].m_reply_datas[id].msg_id = id)'
    BY <1>3, <1>8
  <1>13. /\ \A d \in Caller \ {c} : SameClient(d)
         /\ \A k \in Connection : SameWire(k)
    BY <1>1, <1>2, <1>6 DEF SameClient, SameWire, Types, ClientTypes
  <1>14. Range(channel'[c].m_reply_datas) \subseteq Replies(c)
    BY <1>3, <1>8
  <1> QED
    BY <1>2, <1>5, <1>6, <1>7, <1>8, <1>9, <1>10, <1>11, <1>12, <1>13, <1>14, QuietStep

LEMMA AnswerStep ==
  ASSUME IInv, NEW c \in Caller, Answer(c) PROVE IInv'
  <1>1. Types /\ Bounded(c) /\ CallerInv(c) /\ RegisteredHeld
    BY DEF IInv
  <1> DEFINE rest == Rest(c)
             body == Reply(c).pb_data
             request == call[c].request
             confirmed == IsRegistration(request) /\ call[c].fresh
  <1>2. /\ pc[c] = "wait" /\ pc' = [pc EXCEPT ![c] = "returned"]
        /\ call[c].id \in DOMAIN channel[c].m_reply_datas /\ Reply(c).err_code = 0
        /\ response' = Parsed(c)
        /\ call' = [call EXCEPT ![c].done = @ + 1]
        /\ registered' = IF confirmed THEN registered \cup {ServiceAndAddress(request)} ELSE registered
        /\ channel' = [channel EXCEPT ![c].m_reply_datas = rest]
        /\ UNCHANGED <<t_msg_id_no, m_mutex, conn, answered, allService, requests, replies>>
    BY DEF Answer, server, wire, ids
  <1>3. /\ body \in Seq(Item) /\ rest \in ReplyDatas /\ Range(rest) \subseteq Replies(c)
        /\ \A id \in DOMAIN rest : rest[id].msg_id = id
    BY <1>1, <1>2, ReplyFound DEF TinyPBProtocol
  <1>4. ASSUME call[c].fresh
        PROVE  /\ ErrorOf(channel[c].peer, request) = 0
               /\ call[c].id \in answered[To(c)]
               /\ Told(body, request)
               /\ IsLookup(request) => ListsKnown(c, body)
    BY <1>1, <1>2, <1>4, ReplyFound
  <1> HIDE DEF rest
  <1>5. call[c].controlled /\ call[c].done = 0 /\ call[c].error_code = 0
    BY <1>1, <1>2 DEF CallerInv, Pending
  <1>6. /\ call'[c] \in CallType /\ call'[c].error_code = 0 /\ call'[c].done = 1
        /\ call'[c].request = request /\ call'[c].id = call[c].id
        /\ call'[c].fresh = call[c].fresh /\ call'[c].controlled
        /\ \A d \in Caller : call'[d].known = call[d].known
    <2>1. call'[c] = [call[c] EXCEPT !.done = 1] /\ call[c] \in CallType
      BY <1>1, <1>2, <1>5 DEF Types, ClientTypes
    <2>2. \A d \in Caller \ {c} : call'[d] = call[d]
      BY <1>1, <1>2 DEF Types, ClientTypes
    <2> QED
      BY <1>5, <2>1, <2>2 DEF CallType
  <1>7. pc'[c] = "returned"
    BY <1>1, <1>2 DEF Types, ClientTypes
  <1>8. /\ DOMAIN response' = Caller /\ \A d \in Caller \ {c} : response'[d] = response[d]
        /\ response'[c] = ParseFromString(ResponsePrototype(request), body)
        /\ Len(response'[c]) = Len(ResponsePrototype(call'[c].request))
    BY <1>1, <1>2, <1>6, ParsedResponse
  <1>9. registered' \subseteq ServiceAddress /\ registered \subseteq registered'
    <2>1. ASSUME confirmed PROVE ServiceAndAddress(request) \in ServiceAddress
      BY <1>4, <2>1, NoError, RegistrationTyped
    <2> QED
      BY <1>1, <1>2, <2>1 DEF Types, ServerTypes
  <1>10. Types'
    <2>1. channel' \in [Caller -> ChannelType]
      <3> DEFINE r == [channel[c] EXCEPT !.m_reply_datas = rest]
      <3>1. channel' = [channel EXCEPT ![c] = r]
        BY <1>2
      <3>2. channel[c] \in ChannelType
        BY <1>1, CallerTypes
      <3>3. r \in ChannelType
        BY <1>3, <3>2 DEF ChannelType
      <3> HIDE DEF r
      <3> QED
        BY <1>1, <3>1, <3>3, Updated DEF Types, ClientTypes
    <2>2. call' \in [Caller -> CallType]
      BY <1>1, <1>2, <1>6 DEF Types, ClientTypes
    <2>3. ClientTypes'
      BY <1>1, <1>2, <1>8, <2>1, <2>2 DEF Types, ClientTypes
    <2> QED
      BY <1>1, <1>2, <1>9, <2>3 DEF Types, ServerTypes, WireTypes
  <1>11. /\ channel'[c].peer = channel[c].peer /\ channel'[c].calls = channel[c].calls
         /\ channel'[c].socket = channel[c].socket /\ channel'[c].ids = channel[c].ids
         /\ channel'[c].m_out_buffer = channel[c].m_out_buffer
         /\ channel'[c].m_reply_datas = rest
    BY <1>1, <1>2, CallerTypes DEF Types, ClientTypes, ChannelType
  <1>12. AtRegistry(c)'
    BY <1>1, <1>2, <1>6, <1>7, <1>11, Zenon DEF CallerInv, AtRegistry
  <1>13. call[c].fresh => ResponseTold(c)'
    <2>1. ASSUME call[c].fresh, IsLookup(request)
          PROVE  LET found == targetserviceipandport(response'[c])
                 IN  /\ found \in Seq(Seq(Byte))
                     /\ IsPrefix(found, Addresses(allService, Target(request)))
                     /\ \A r \in call[c].known : r[1] = Target(request) => r[2] \in Range(found)
      <3> DEFINE found == targetserviceipandport(response'[c])
                 a == Addresses(allService, Target(request))
      <3>1. ResponsePrototype(request) = GetTargetAddrResp
        BY <2>1, NamesOf, Zenon DEF ResponsePrototype
      <3>2. found = targetserviceipandport(ParseFromString(GetTargetAddrResp, body))
        BY <1>8, <3>1
      <3>3. a \in Seq(Seq(Byte)) /\ Lists(body, a)
        BY <1>1, <1>4, <2>1, AddressesType DEF Told
      <3> HIDE DEF found, a, body
      <3>4. /\ found \in Seq(Seq(Byte)) /\ IsPrefix(found, a)
            /\ \A x : (\E i \in 1 .. Len(body) : body[i] = <<3, "string", x>>) => x \in Range(found)
        BY <1>3, <3>2, <3>3, ListFound
      <3>5. \A r \in call[c].known : r[1] = Target(request) => r[2] \in Range(found)
        BY <1>4, <2>1, <3>4, Zenon DEF ListsKnown, body
      <3> QED
        BY <3>4, <3>5 DEF found, a
    <2>2. ASSUME call[c].fresh, IsOrder(request)
          PROVE  response'[c] = ParseFromString(makeOrderResponse, OrderBody(request))
      <3>1. ResponsePrototype(request) = makeOrderResponse
        BY <2>2, NamesOf, Zenon DEF ResponsePrototype
      <3>2. body = OrderBody(request)
        BY <1>4, <2>2 DEF Told
      <3> HIDE DEF body
      <3> QED
        BY <1>8, <3>1, <3>2
    <2> HIDE DEF body
    <2> QED
      BY <1>2, <1>6, <2>1, <2>2, Zenon DEF ResponseTold
  <1>14. Outcome(c)'
    <2>1. call'[c].fresh => call'[c].id \in answered'[To(c)']
      BY <1>2, <1>4, <1>6, <1>11 DEF To
    <2>2. call'[c].fresh => ErrorOf(channel'[c].peer, call'[c].request) = 0
      BY <1>4, <1>6, <1>11
    <2>3. 0 \notin ServerErrors /\ 0 # ERROR_RPC_CHANNEL_INIT /\ 0 # ERROR_FAILED_SERIALIZE
      BY ErrorCodes
    <2> QED
      BY <1>6, <1>13, <2>1, <2>2, <2>3, Zenon DEF Outcome, Ended
  <1>15. RegisteredHeld'
    <2>1. ASSUME NEW r \in registered' PROVE r[2] \in Range(Addresses(allService, r[1]))
      <3>1. CASE r \in registered
        BY <1>1, <3>1 DEF RegisteredHeld
      <3>2. CASE r \notin registered
        <4>1. confirmed /\ r = ServiceAndAddress(request)
          BY <1>2, <2>1, <3>2
        <4> QED
          BY <1>4, <4>1 DEF Told
      <3> QED
        BY <3>1, <3>2
    <2>2. \A d \in Caller : call'[d].known \subseteq registered'
      BY <1>1, <1>6, <1>9 DEF RegisteredHeld
    <2> QED
      BY <1>2, <2>1, <2>2, Zenon DEF RegisteredHeld
  <1>16. (\A id \in DOMAIN channel[c].m_reply_datas : channel[c].m_reply_datas[id].msg_id = id)'
    BY <1>3, <1>11
  <1>17. /\ \A d \in Caller \ {c} : SameClient(d)
         /\ \A k \in Connection : SameWire(k)
    BY <1>1, <1>2, <1>8 DEF SameClient, SameWire, Types, ClientTypes
  <1>18. Range(channel'[c].m_reply_datas) \subseteq Replies(c)
    BY <1>3, <1>11
  <1> HIDE DEF body, confirmed
  <1> QED
    BY <1>2, <1>7, <1>8, <1>10, <1>11, <1>12, <1>14, <1>15, <1>16, <1>17, <1>18, QuietStep

LEMMA GeneratedId ==
  ASSUME NEW last \in Seq(Byte), NEW max, NEW random \in RandomIds
  PROVE  GenMsgID(last, max, random) \in Seq(Byte)
  <1>1. random \in Seq(Byte) /\ Len(random) >= g_msg_id_length /\ g_msg_id_length \in Nat
    BY IdAssumption, LengthAssumption
  <1>2. FirstId(random) \in Seq(Byte)
    <2>1. ASSUME NEW k \in 1 .. g_msg_id_length PROVE ZERO + (random[k] % 10) \in Byte
      <3> DEFINE x == random[k]
      <3>1. k \in 1 .. Len(random)
        BY <1>1
      <3>2. x \in Byte
        BY <1>1, <3>1
      <3> HIDE DEF x
      <3>3. x \in Int
        BY <3>2 DEF Byte
      <3>4. x % 10 \in 0 .. 9
        BY <3>3
      <3> DEFINE y == x % 10
      <3>5. ZERO + y \in Byte
        <4> HIDE DEF y
        <4>1. y \in 0 .. 9
          BY <3>4 DEF y
        <4> QED
          BY <4>1 DEF ZERO, Byte
      <3> QED
        BY <3>5 DEF x
    <2> DEFINE digit(k) == ZERO + (random[k] % 10)
    <2>2. FirstId(random) = [k \in 1 .. g_msg_id_length |-> digit(k)]
      BY DEF FirstId
    <2>3. \A k \in 1 .. g_msg_id_length : digit(k) \in Byte
      BY <2>1
    <2> HIDE DEF digit
    <2> QED
      BY <1>1, <2>2, <2>3
  <1>3. Successor(last) \in Seq(Byte)
    <2> DEFINE k == LastNotNine(last)
               digit(j) == CASE j = k -> (last[j] + (k - 1)) % 256
                             [] j > k /\ k > 0 -> ZERO
                             [] OTHER -> last[j]
    <2>1. Successor(last) = [j \in DOMAIN last |-> digit(j)]
      BY DEF Successor
    <2>2. ASSUME NEW j \in DOMAIN last PROVE digit(j) \in Byte
      <3> DEFINE x == last[j]
      <3>1. j \in Nat /\ x \in Byte
        OBVIOUS
      <3>2. CASE j = k
        <4>1. digit(j) = (x + (j - 1)) % 256
          <5>1. ~(j > k)
            BY <3>1, <3>2
          <5> QED
            BY <3>2, <5>1, Zenon
        <4> HIDE DEF x, digit
        <4> DEFINE y == x + (j - 1)
        <4>2. y \in Int
          BY <3>1 DEF Byte
        <4> HIDE DEF y
        <4>3. y % 256 \in 0 .. 255
          BY <4>2
        <4> QED
          BY <4>1, <4>3 DEF Byte, y
      <3>3. CASE j # k
        <4>1. digit(j) = ZERO \/ digit(j) = x
          BY <3>3, Zenon
        <4> HIDE DEF x, digit
        <4>2. ZERO \in Byte
          BY DEF ZERO, Byte
        <4> QED
          BY <3>1, <4>1, <4>2
      <3> QED
        BY <3>2, <3>3
    <2> HIDE DEF digit
    <2> QED
      BY <2>1, <2>2
  <1> QED
    BY <1>2, <1>3 DEF GenMsgID

(* The orders' peer is asked for no addresses. *)
LEMMA AskedRequest ==
  ASSUME Types, NEW c \in Caller, channel[c].calls < Len(Requests[To(c)]),
         NEW request \in Requests[To(c)][channel[c].calls + 1]
  PROVE  request \in Request /\ (IsLookup(request) => channel[c].peer = REGISTER)
  <1> DEFINE asked == Requests[To(c)]
             n == channel[c].calls
  <1>1. asked \in Seq(SUBSET Request) /\ n \in Nat /\ n < Len(asked)
    BY CallerTypes, RequestsAssumption DEF ChannelType
  <1>2. request \in asked[n + 1]
    OBVIOUS
  <1>3. channel[c].peer = ORDER => asked = Requests[<<c, ORDER>>]
    BY DEF To
  <1> HIDE DEF asked, n
  <1>4. n + 1 \in 1 .. Len(asked) /\ n + 1 \in DOMAIN asked
    BY <1>1
  <1>5. request \in Request
    BY <1>1, <1>2, <1>4
  <1>6. ASSUME channel[c].peer = ORDER PROVE ~IsLookup(request)
    BY <1>2, <1>3, <1>4, <1>6, LookupAssumption
  <1>7. channel[c].peer \in {REGISTER, ORDER}
    BY CallerTypes DEF Peer
  <1> QED
    BY <1>5, <1>6, <1>7

LEMMA CallMethodStep ==
  ASSUME IInv, NEW c \in Caller, CallMethod(c) PROVE IInv'
  <1>1. Types /\ Bounded(c) /\ CallerInv(c) /\ RegisteredHeld
    BY DEF IInv
  <1>2. PICK request \in Requests[To(c)][channel[c].calls + 1],
             user_id \in UserIds[To(c)] \cup {<<>>}, random \in RandomIds :
       LET generated == GenMsgID(t_msg_id_no[c], t_max_msg_id_no[c], random)
           id == IF user_id = <<>> THEN generated ELSE user_id
           message == [msg_id |-> id, method_name |-> request.method_name,
                       err_code |-> 0, err_info |-> <<>>, pb_data |-> request.pb_data]
           error == IF ~channel[c].m_is_init THEN ERROR_RPC_CHANNEL_INIT
                    ELSE IF ~Fits(request.pb_data) THEN ERROR_FAILED_SERIALIZE ELSE 0
       IN  /\ IF user_id = <<>>
              THEN /\ t_msg_id_no' = [t_msg_id_no EXCEPT ![c] = generated]
                   /\ t_max_msg_id_no' = [t_max_msg_id_no EXCEPT
                        ![c] = MaxMsgID(t_msg_id_no[c], t_max_msg_id_no[c])]
              ELSE UNCHANGED ids
           /\ call' = [call EXCEPT ![c] =
                [controlled |-> TRUE, id |-> id, request |-> request,
                 fresh |-> IsFresh(id, channel[c].ids), error_code |-> error, done |-> 0,
                 known |-> registered]]
           /\ response' = [response EXCEPT ![c] = Clear(ResponsePrototype(request))]
           /\ channel' = [channel EXCEPT
                ![c].calls = @ + 1,
                ![c].ids = IF error = 0 THEN @ \cup {id} ELSE @,
                ![c].m_out_buffer = IF error = 0 THEN Append(@, message) ELSE @]
           /\ pc' = [pc EXCEPT ![c] = IF error = 0 THEN "connect" ELSE "returned"]
    BY Zenon DEF CallMethod
  <1>3. /\ pc[c] \in {"idle", "picked"} /\ channel[c].calls < Len(Requests[To(c)])
        /\ UNCHANGED <<m_mutex, conn, answered, allService, requests, replies, registered>>
    BY DEF CallMethod, Ready, server, wire
  <1> DEFINE generated == GenMsgID(t_msg_id_no[c], t_max_msg_id_no[c], random)
             id == IF user_id = <<>> THEN generated ELSE user_id
             message == [msg_id |-> id, method_name |-> request.method_name,
                         err_code |-> 0, err_info |-> <<>>, pb_data |-> request.pb_data]
             error == IF ~channel[c].m_is_init THEN ERROR_RPC_CHANNEL_INIT
                      ELSE IF ~Fits(request.pb_data) THEN ERROR_FAILED_SERIALIZE ELSE 0
             ready == error = 0
  <1>4. request \in Request /\ (IsLookup(request) => channel[c].peer = REGISTER)
    BY <1>1, <1>2, <1>3, AskedRequest
  <1>0. error = 0 \/ error \in {ERROR_RPC_CHANNEL_INIT, ERROR_FAILED_SERIALIZE}
    OBVIOUS
  <1>5. id \in Seq(Byte) /\ generated \in Seq(Byte)
    <2>1. t_msg_id_no[c] \in Seq(Byte)
      BY <1>1 DEF Types, ClientTypes
    <2>2. generated \in Seq(Byte)
      BY <2>1, GeneratedId
    <2>3. user_id \in Seq(Byte)
      <3>1. UserIds[To(c)] \subseteq Seq(Byte) /\ <<>> \in Seq(Byte)
        BY <1>1, CallerTypes, IdAssumption
      <3> QED
        BY <3>1
    <2> QED
      BY <2>2, <2>3
  <1> HIDE DEF id, generated
  <1>6. message \in TinyPBProtocol /\ message.msg_id = id /\ Same(message, request)
    BY <1>4, <1>5 DEF TinyPBProtocol, Request, Same
  <1>7. /\ channel[c] \in ChannelType /\ registered \subseteq ServiceAddress
        /\ DOMAIN channel = Caller /\ DOMAIN call = Caller /\ DOMAIN pc = Caller
        /\ DOMAIN response = Caller
    BY <1>1 DEF Types, ClientTypes, ServerTypes
  <1>8. /\ call' = [call EXCEPT ![c] =
             [controlled |-> TRUE, id |-> id, request |-> request,
              fresh |-> IsFresh(id, channel[c].ids), error_code |-> error, done |-> 0,
              known |-> registered]]
        /\ response' = [response EXCEPT ![c] = Clear(ResponsePrototype(request))]
        /\ channel' = [channel EXCEPT
             ![c].calls = @ + 1,
             ![c].ids = IF ready THEN @ \cup {id} ELSE @,
             ![c].m_out_buffer = IF ready THEN Append(@, message) ELSE @]
        /\ pc' = [pc EXCEPT ![c] = IF ready THEN "connect" ELSE "returned"]
    BY <1>2 DEF id, generated
  <1> HIDE DEF message, error
  <1>9. /\ call'[c].id = id /\ call'[c].request = request /\ call'[c].known = registered
        /\ call'[c].fresh = IsFresh(id, channel[c].ids) /\ call'[c].done = 0
        /\ call'[c].controlled /\ call'[c].error_code = error
        /\ call'[c] \in CallType
    <2>1. IsFresh(id, channel[c].ids) \in BOOLEAN
      BY Zenon DEF IsFresh
    <2>2. error \in Nat
      BY <1>0, ErrorCodes
    <2> QED
      BY <1>4, <1>5, <1>7, <1>8, <2>1, <2>2 DEF CallType
  <1>10. /\ channel'[c].peer = channel[c].peer /\ channel'[c].calls = channel[c].calls + 1
         /\ channel'[c].ids = IF ready THEN channel[c].ids \cup {id} ELSE channel[c].ids
         /\ channel'[c].m_out_buffer =
              IF ready THEN Append(channel[c].m_out_buffer, message) ELSE channel[c].m_out_buffer
         /\ channel'[c].m_reply_datas = channel[c].m_reply_datas
         /\ channel'[c].socket = channel[c].socket /\ channel'[c] \in ChannelType
    <2> DEFINE newIds == IF ready THEN channel[c].ids \cup {id} ELSE channel[c].ids
               newBuffer == IF ready THEN Append(channel[c].m_out_buffer, message)
                            ELSE channel[c].m_out_buffer
    <2>1. newIds \in SUBSET Seq(Byte) /\ newBuffer \in Seq(TinyPBProtocol)
      BY <1>5, <1>6, <1>7 DEF ChannelType
    <2>2. channel'[c] = [channel[c] EXCEPT !.calls = @ + 1, !.ids = newIds, !.m_out_buffer = newBuffer]
      BY <1>7, <1>8
    <2> HIDE DEF newIds, newBuffer
    <2>3. /\ channel'[c].peer = channel[c].peer /\ channel'[c].calls = channel[c].calls + 1
          /\ channel'[c].ids = newIds /\ channel'[c].m_out_buffer = newBuffer
          /\ channel'[c].m_reply_datas = channel[c].m_reply_datas
          /\ channel'[c].socket = channel[c].socket /\ channel'[c] \in ChannelType
      <3> DEFINE n == channel[c].calls + 1
                 ch == channel[c]
                 d == channel'[c]
      <3>1. ch \in ChannelType /\ n \in Nat
        BY <1>7 DEF ChannelType
      <3>2. d = [ch EXCEPT !.calls = n, !.ids = newIds, !.m_out_buffer = newBuffer]
        BY <2>2
      <3> HIDE DEF n, ch, d
      <3>3. /\ d.peer = ch.peer /\ d.calls = n /\ d.ids = newIds /\ d.m_out_buffer = newBuffer
            /\ d.m_reply_datas = ch.m_reply_datas /\ d.socket = ch.socket
        BY <3>1, <3>2 DEF ChannelType
      <3>4. d \in ChannelType
        BY <2>1, <3>1, <3>2 DEF ChannelType
      <3> QED
        BY <3>3, <3>4 DEF n, ch, d
    <2> QED
      BY <2>3 DEF newIds, newBuffer
  <1>11. pc'[c] = (IF ready THEN "connect" ELSE "returned")
    BY <1>7, <1>8
  <1>12. /\ Own(c)' = Own(c) /\ To(c)' = To(c)
         /\ Sent(c)' = IF ready THEN Sent(c) \cup {message} ELSE Sent(c)
    <2>1. channel[c].m_out_buffer \in Seq(TinyPBProtocol)
      BY <1>1, CallerTypes
    <2>2. Range(Append(channel[c].m_out_buffer, message)) = Sent(c) \cup {message}
      BY <1>6, <2>1, RangeAppend DEF Sent
    <2> QED
      BY <1>10, <2>2 DEF Own, To, Sent
  <1>13. Types'
    <2>1. t_msg_id_no' \in [Caller -> Seq(Byte)]
      <3>1. t_msg_id_no' = [t_msg_id_no EXCEPT ![c] = generated] \/ t_msg_id_no' = t_msg_id_no
        BY <1>2 DEF generated, ids
      <3> QED
        BY <1>1, <1>5, <3>1 DEF Types, ClientTypes
    <2>2. channel' \in [Caller -> ChannelType] /\ call' \in [Caller -> CallType]
      BY <1>1, <1>8, <1>9, <1>10 DEF Types, ClientTypes
    <2>3. ClientTypes'
      BY <1>1, <1>7, <1>8, <2>1, <2>2 DEF Types, ClientTypes
    <2> QED
      BY <1>1, <1>3, <2>3 DEF Types, ServerTypes, WireTypes
  <1>14. Bounded(c)'
    <2>1. channel[c].calls \in Nat
      BY <1>7 DEF ChannelType
    <2>2. Len(Requests[To(c)]) \in Nat
      BY <1>1, CallerTypes, RequestsAssumption
    <2>3. channel[c].calls + 1 <= Len(Requests[To(c)])
      BY <1>3, <2>1, <2>2
    <2>4. Len(response'[c]) = Len(ResponsePrototype(call'[c].request))
      <3>1. response'[c] = Clear(ResponsePrototype(request))
        BY <1>7, <1>8
      <3> QED
        BY <1>9, <3>1, ParsedLength
    <2> QED
      BY <1>10, <1>12, <2>3, <2>4 DEF Bounded
  <1>15. CallerInv(c)'
    <2>1. RequestsSent(c)'
      <3>1. \A q \in Sent(c)' : q.msg_id \in channel'[c].ids
        BY <1>1, <1>6, <1>10, <1>12 DEF CallerInv, RequestsSent
      <3>2. ASSUME NEW k \in Connection, Chan(k) = To(c)
            PROVE  /\ Range(requests'[k]) \subseteq Sent(c)'
                   /\ \A q \in Range(conn'[k].todo) : \E m \in Sent(c)' : q = Cut(m)
        BY <1>1, <1>3, <1>12, <3>2 DEF CallerInv, RequestsSent
      <3>3. \A k \in Connection : Chan(k)' = Chan(k)
        BY DEF Chan
      <3> QED
        BY <1>12, <3>1, <3>2, <3>3, Zenon DEF RequestsSent
    <2>2. AnsweredSent(c)'
      BY <1>1, <1>3, <1>10, <1>12, AnsweredStay DEF CallerInv
    <2>3. RepliesSound(c)'
      <3>1. Replies(c)' = Replies(c)
        BY <1>3, <1>10, <1>12 DEF Replies
      <3>2. ASSUME NEW p \in Replies(c), Asking(c)', p.msg_id = CString(id) PROVE FALSE
        <4>1. PICK q \in Sent(c) : p.msg_id = CString(q.msg_id)
          BY <1>1 DEF CallerInv, RepliesSound, SoundReply, Answers
        <4>2. q.msg_id \in channel[c].ids
          BY <1>1 DEF CallerInv, RequestsSent
        <4>3. IsFresh(id, channel[c].ids)
          BY <1>9, <3>2 DEF Asking
        <4> QED
          BY <3>2, <4>1, <4>2, <4>3 DEF IsFresh
      <3>3. (\A i \in DOMAIN channel[c].m_reply_datas : channel[c].m_reply_datas[i].msg_id = i)'
        BY <1>1, <1>10, Zenon DEF CallerInv, RepliesSound
      <3>4. Grows
        BY <1>1, <1>3, TableStays
      <3>5. Sent(c) \subseteq Sent(c)'
        BY <1>12
      <3> QED
        BY <1>1, <1>3, <1>9, <1>12, <3>1, <3>2, <3>3, <3>4, <3>5, RepliesStay DEF CallerInv
    <2>4. Unopened(c)'
      BY <1>1, <1>3, <1>10, UnopenedStay DEF CallerInv, SameWire
    <2>5. AtRegistry(c)'
      BY <1>4, <1>9, <1>10, <1>11, Zenon DEF AtRegistry
    <2>6. Pending(c)'
      <3>1. pc'[c] \in {"connect", "wait"} => ready
        BY <1>11
      <3>2. ASSUME Asking(c)' PROVE Unique(c)'
        <4>1. ready /\ IsFresh(id, channel[c].ids)
          BY <1>9, <1>11, <3>1, <3>2 DEF Asking
        <4>2. ASSUME NEW q \in Sent(c)', CString(q.msg_id) = CString(id) PROVE Same(q, request)
          <5>1. CASE q \in Sent(c)
            <6>1. q.msg_id \in channel[c].ids
              BY <1>1, <5>1 DEF CallerInv, RequestsSent
            <6> QED
              BY <4>1, <4>2, <6>1 DEF IsFresh
          <5>2. CASE q = message
            BY <1>6, <5>2
          <5> QED
            BY <1>12, <4>2, <5>1, <5>2
        <4> QED
          BY <1>9, <4>2, Zenon DEF Unique
      <3> QED
        BY <1>9, <1>10, <3>1, <3>2 DEF Pending
    <2>7. Outcome(c)'
      <3> SUFFICES ASSUME pc'[c] = "returned", call'[c].fresh PROVE Ended(c)'
        BY Zenon DEF Outcome
      <3>1. ~ready /\ error \in {ERROR_RPC_CHANNEL_INIT, ERROR_FAILED_SERIALIZE}
        BY <1>0, <1>11
      <3>2. error # 0 /\ error \notin ServerErrors
        BY <3>1, ErrorCodes
      <3>3. IsFresh(id, channel[c].ids)
        BY <1>9
      <3>4. id \notin channel[c].ids
        BY <3>3 DEF IsFresh
      <3>5. ASSUME NEW q \in Sent(c) PROVE CString(q.msg_id) # CString(id)
        <4>1. q.msg_id \in channel[c].ids
          BY <1>1 DEF CallerInv, RequestsSent
        <4> QED
          BY <3>3, <4>1 DEF IsFresh
      <3>6. Unsent(c)'
        BY <1>9, <1>10, <1>12, <3>1, <3>4, <3>5, Zenon DEF Unsent
      <3> QED
        BY <1>9, <3>2, <3>6, Zenon DEF Ended
    <2> QED
      BY <2>1, <2>2, <2>3, <2>4, <2>5, <2>6, <2>7 DEF CallerInv
  <1>16. RegisteredHeld'
    <2>1. \A d \in Caller : call'[d].known \subseteq registered
      BY <1>1, <1>7, <1>8, <1>9 DEF RegisteredHeld
    <2> QED
      BY <1>1, <1>3, <2>1, Zenon DEF RegisteredHeld
  <1>17. /\ \A d \in Caller \ {c} : SameClient(d)
         /\ \A k \in Connection : SameWire(k)
    BY <1>3, <1>7, <1>8 DEF SameClient, SameWire
  <1> QED
    BY <1>3, <1>13, <1>14, <1>15, <1>16, <1>17, ClientStep

LEMMA NoCallType == NoCall \in CallType
  <1>1. <<>> \in Seq(Byte) /\ <<>> \in Seq(Item)
    OBVIOUS
  <1>2. NoCall.request \in Request
    BY <1>1 DEF NoCall, Request
  <1> QED
    BY <1>1, <1>2 DEF NoCall, CallType

(* The call that leaves nothing: it only uses up one of the channel's.     *)
LEMMA CallUncontrolledStep ==
  ASSUME IInv, NEW c \in Caller, CallUncontrolled(c) PROVE IInv'
  <1>1. Types /\ Bounded(c) /\ CallerInv(c) /\ RegisteredHeld
    BY DEF IInv
  <1>2. /\ pc[c] \in {"idle", "picked"} /\ pc' = [pc EXCEPT ![c] = "returned"]
        /\ channel[c].calls < Len(Requests[To(c)])
        /\ channel' = [channel EXCEPT ![c].calls = @ + 1]
        /\ UNCHANGED <<t_msg_id_no, m_mutex, conn, answered, allService, requests, replies,
                       registered>>
    BY DEF CallUncontrolled, Ready, server, wire, ids
  <1>3. PICK request \in Requests[To(c)][channel[c].calls + 1] :
          /\ call' = [call EXCEPT ![c] =
               [NoCall EXCEPT !.controlled = FALSE, !.request = request, !.known = registered]]
          /\ response' = [response EXCEPT ![c] = Clear(ResponsePrototype(request))]
    BY DEF CallUncontrolled
  <1>4. request \in Request /\ (IsLookup(request) => channel[c].peer = REGISTER)
    BY <1>1, <1>2, <1>3, AskedRequest
  <1> DEFINE k == [NoCall EXCEPT !.controlled = FALSE, !.request = request, !.known = registered]
             r == [channel[c] EXCEPT !.calls = @ + 1]
  <1>5. /\ k \in CallType /\ k.request = request /\ k.known = registered
        /\ ~k.controlled /\ k.error_code = 0 /\ k.done = 0
    <2>1. registered \subseteq ServiceAddress
      BY <1>1 DEF Types, ServerTypes
    <2>2. NoCall \in CallType /\ NoCall.error_code = 0 /\ NoCall.done = 0
      BY NoCallType DEF NoCall
    <2> QED
      BY <1>4, <2>1, <2>2 DEF CallType
  <1>6. /\ r \in ChannelType /\ r.peer = channel[c].peer /\ r.socket = channel[c].socket
        /\ r.calls = channel[c].calls + 1 /\ r.ids = channel[c].ids
        /\ r.m_out_buffer = channel[c].m_out_buffer /\ r.m_reply_datas = channel[c].m_reply_datas
    BY <1>1, CallerTypes DEF ChannelType
  <1>7. /\ call' = [call EXCEPT ![c] = k] /\ channel' = [channel EXCEPT ![c] = r]
        /\ DOMAIN call = Caller /\ DOMAIN channel = Caller /\ DOMAIN response = Caller
        /\ DOMAIN pc = Caller
    BY <1>1, <1>2, <1>3 DEF Types, ClientTypes
  <1> HIDE DEF k, r
  <1>8. /\ call'[c] = k /\ channel'[c] = r /\ pc'[c] = "returned"
        /\ response'[c] = Clear(ResponsePrototype(request))
    BY <1>2, <1>3, <1>7
  <1>9. Types'
    <2>1. call' \in [Caller -> CallType] /\ channel' \in [Caller -> ChannelType]
      BY <1>1, <1>5, <1>6, <1>7, Updated DEF Types, ClientTypes
    <2>2. ClientTypes'
      BY <1>1, <1>2, <1>3, <1>7, <2>1 DEF Types, ClientTypes
    <2> QED
      BY <1>1, <1>2, <2>2 DEF Types, ServerTypes, WireTypes
  <1>10. r.calls <= Len(Requests[To(c)])
    <2>1. channel[c].calls \in Nat /\ Len(Requests[To(c)]) \in Nat
      BY <1>1, CallerTypes, RequestsAssumption DEF ChannelType
    <2> QED
      BY <1>2, <1>6, <2>1
  <1>11. Len(response'[c]) = Len(ResponsePrototype(call'[c].request))
    BY <1>5, <1>8, ParsedLength
  <1>12. AtRegistry(c)'
    BY <1>4, <1>5, <1>6, <1>8, Zenon DEF AtRegistry
  <1>13. Outcome(c)'
    <2>1. 0 \notin ServerErrors /\ 0 # ERROR_RPC_CHANNEL_INIT /\ 0 # ERROR_FAILED_SERIALIZE
      BY ErrorCodes
    <2> QED
      BY <1>5, <1>8, <2>1, Zenon DEF Outcome, Ended
  <1>14. RegisteredHeld'
    <2>1. \A d \in Caller : call'[d].known \subseteq registered
      BY <1>1, <1>5, <1>7 DEF RegisteredHeld
    <2> QED
      BY <1>1, <1>2, <2>1, Zenon DEF RegisteredHeld
  <1>15. (\A id \in DOMAIN channel[c].m_reply_datas : channel[c].m_reply_datas[id].msg_id = id)'
    BY <1>1, <1>6, <1>8, Zenon DEF CallerInv, RepliesSound
  <1>16. /\ \A d \in Caller \ {c} : SameClient(d)
         /\ \A d \in Connection : SameWire(d)
    BY <1>2, <1>3, <1>7 DEF SameClient, SameWire
  <1>17. Range(channel'[c].m_reply_datas) \subseteq Replies(c)
    BY <1>6, <1>8 DEF Replies
  <1> QED
    BY <1>2, <1>6, <1>8, <1>9, <1>10, <1>11, <1>12, <1>13, <1>14, <1>15, <1>16, <1>17, QuietStep

LEMMA NewChannelFields ==
  ASSUME NEW peer \in Peer
  PROVE  /\ NewChannel(peer) \in ChannelType
         /\ NewChannel(peer).peer = peer /\ NewChannel(peer).calls = 0
         /\ NewChannel(peer).socket = 1
         /\ Range(NewChannel(peer).m_out_buffer) = {}
         /\ DOMAIN NewChannel(peer).m_reply_datas = {} /\ Range(NewChannel(peer).m_reply_datas) = {}
  <1>1. NoReplies \in ReplyDatas /\ DOMAIN NoReplies = {} /\ Range(NoReplies) = {}
    <2>1. NoReplies \in [{} -> TinyPBProtocol] /\ DOMAIN NoReplies = {}
      BY DEF NoReplies
    <2> QED
      BY <2>1 DEF ReplyDatas, Range
  <1>2. <<>> \in Seq(TinyPBProtocol)
    OBVIOUS
  <1>3. 1 \in Sockets
    BY SocketsAssumption DEF Sockets
  <1> QED
    BY <1>1, <1>2, <1>3, RangeEmpty DEF NewChannel, ChannelType

LEMMA OpenChannelStep ==
  ASSUME IInv, NEW c \in Caller, OpenChannel(c) PROVE IInv'
  <1>1. Types /\ Bounded(c) /\ CallerInv(c) /\ RegisteredHeld
    BY DEF IInv
  <1>2. /\ pc[c] = "picked" /\ pc' = [pc EXCEPT ![c] = "idle"]
        /\ channel' = [channel EXCEPT ![c] = NewChannel(ORDER)]
        /\ replies' = [replies EXCEPT ![Own(c)] = <<>>]
        /\ UNCHANGED <<call, response, t_msg_id_no, m_mutex, conn, answered, allService,
                       requests, registered>>
    BY DEF OpenChannel, server, ids
  <1> DEFINE k == <<c, ORDER, 1>>
  <1>3. ORDER \in Peer /\ k \in Connection /\ Chan(k) = <<c, ORDER>>
    BY SocketsAssumption DEF Peer, Connection, Sockets, Chan
  <1>4. channel[c].peer = REGISTER /\ Own(c)[2] = REGISTER
    BY <1>1, <1>2, CallerTypes DEF CallerInv, AtRegistry
  <1>5. /\ NewChannel(ORDER) \in ChannelType
        /\ NewChannel(ORDER).peer = ORDER /\ NewChannel(ORDER).calls = 0
        /\ NewChannel(ORDER).socket = 1
        /\ Range(NewChannel(ORDER).m_out_buffer) = {}
        /\ DOMAIN NewChannel(ORDER).m_reply_datas = {} /\ Range(NewChannel(ORDER).m_reply_datas) = {}
    BY <1>3, NewChannelFields
  <1>6. channel'[c] = NewChannel(ORDER) /\ pc'[c] = "idle"
    BY <1>1, <1>2 DEF Types, ClientTypes
  <1>7. Types'
    <2>1. channel' \in [Caller -> ChannelType]
      BY <1>1, <1>2, <1>5 DEF Types, ClientTypes
    <2>2. <<>> \in Seq(TinyPBProtocol)
      OBVIOUS
    <2>3. replies' \in [Connection -> Seq(TinyPBProtocol)]
      BY <1>1, <1>2, <2>2 DEF Types, WireTypes
    <2>4. ClientTypes' /\ ServerTypes'
      BY <1>1, <1>2, <2>1 DEF Types, ClientTypes, ServerTypes
    <2> QED
      BY <1>1, <1>2, <2>3, <2>4 DEF Types, WireTypes
  <1>8. Own(c)' = k /\ To(c)' = <<c, ORDER>> /\ Sent(c)' = {}
    BY <1>5, <1>6 DEF Own, To, Sent
  <1>9. ASSUME NEW j \in Connection, j[1] = c, j[2] = ORDER PROVE Idle(j)'
    <2>1. Idle(j)
      BY <1>1, <1>4, <1>9 DEF CallerInv, Unopened, Later
    <2>2. j # Own(c)
      BY <1>4, <1>9, PeersDiffer
    <2>3. replies'[j] = replies[j]
      BY <1>1, <1>2, <2>2 DEF Types, WireTypes
    <2> QED
      BY <1>2, <2>1, <2>3 DEF Idle
  <1>10. answered'[<<c, ORDER>>] = {}
    BY <1>1, <1>2, <1>4 DEF CallerInv, Unopened
  <1>11. CallerInv(c)'
    <2>1. RequestsSent(c)' /\ AnsweredSent(c)'
      <3>1. ASSUME NEW j \in Connection, Chan(j)' = To(c)'
            PROVE  Range(requests'[j]) = {} /\ Range(conn'[j].todo) = {}
        <4>1. Idle(j)'
          BY <1>8, <1>9, <3>1 DEF Chan
        <4> QED
          BY <4>1, RangeEmpty DEF Idle
      <3>2. RequestsSent(c)'
        BY <1>8, <3>1, Zenon DEF RequestsSent
      <3> QED
        BY <1>8, <1>10, <3>2 DEF AnsweredSent
    <2>2. RepliesSound(c)'
      <3>1. Idle(k)'
        BY <1>3, <1>9
      <3>2. Range(conn'[k].m_out_buffer) = {} /\ Range(replies'[k]) = {}
        BY <3>1, RangeEmpty DEF Idle
      <3> HIDE DEF k
      <3>3. Replies(c)' = {}
        BY <1>5, <1>6, <1>8, <3>2 DEF Replies
      <3> QED
        BY <1>5, <1>6, <3>3 DEF RepliesSound
    <2>3. Unopened(c)'
      <3>1. ASSUME NEW j \in Connection, Later(c, j)' PROVE Idle(j)'
        BY <1>5, <1>6, <1>9, <3>1, PeersDiffer DEF Later
      <3>2. channel'[c].peer # REGISTER
        BY <1>5, <1>6, PeersDiffer
      <3> QED
        BY <3>1, <3>2, Zenon DEF Unopened
    <2>4. AtRegistry(c)' /\ Pending(c)' /\ Outcome(c)'
      BY <1>6 DEF AtRegistry, Pending, Asking, Outcome
    <2> QED
      BY <2>1, <2>2, <2>3, <2>4 DEF CallerInv
  <1>12. Bounded(c)'
    <2>1. Len(Requests[<<c, ORDER>>]) \in Nat
      BY <1>3, RequestsAssumption
    <2> QED
      BY <1>1, <1>2, <1>5, <1>6, <1>8, <2>1 DEF Bounded
  <1>13. RegisteredHeld'
    BY <1>1, <1>2, TableStays, RegisteredStays
  <1>14. /\ \A d \in Caller \ {c} : SameClient(d)
         /\ \A d \in Connection : d[1] # c => SameWire(d)
    BY <1>1, <1>2 DEF SameClient, SameWire, Types, ClientTypes, WireTypes, Own
  <1> QED
    BY <1>2, <1>7, <1>11, <1>12, <1>13, <1>14, ClientStep

-----------------------------------------------------------------------------
(* The steps of the servers' ends.                                         *)

(* A connection that is served is one that its caller's channel has come   *)
(* to.                                                                     *)
LEMMA ServedConnection ==
  ASSUME IInv, NEW k \in Connection, conn[k].pc # "read" \/ requests[k] # <<>>
  PROVE  /\ ~Later(k[1], k)
         /\ channel[k[1]].peer = REGISTER => Chan(k) = To(k[1]) /\ Chan(k) # <<k[1], ORDER>>
  <1>1. k[1] \in Caller /\ k[2] \in Peer
    BY DEF Connection
  <1>2. ~Idle(k)
    BY DEF Idle
  <1>3. ~Later(k[1], k)
    BY <1>1, <1>2 DEF IInv, CallerInv, Unopened
  <1>4. channel[k[1]].peer = REGISTER => k[2] = REGISTER
    BY <1>1, <1>3 DEF Later, Peer
  <1> QED
    BY <1>3, <1>4, PeersDiffer DEF Chan, To

LEMMA ServerStep ==
  ASSUME IInv, NEW k \in Connection, NEW c, c = k[1],
         conn[k].pc # "read" \/ requests[k] # <<>>,
         UNCHANGED client, registered' = registered, Types', Grows,
         \A d \in Connection \ {k} : SameWire(d),
         answered[Chan(k)] \subseteq answered'[Chan(k)],
         \A t \in Caller \X Peer : t # Chan(k) => answered'[t] = answered[t],
         Chan(k) = To(c) => RequestsSent(c)' /\ AnsweredSent(c)' /\ RepliesSound(c)',
         Serving(k)'
  PROVE  IInv'
  <1>1. /\ Types /\ RegisteredHeld /\ \A d \in Caller : Bounded(d) /\ CallerInv(d)
        /\ \A d \in Connection : Serving(d)
    BY DEF IInv
  <1>2. UNCHANGED <<pc, channel, call, response, registered>>
    BY DEF client
  <1>3. c \in Caller /\ Chan(k) = <<c, k[2]>> /\ Chan(k) \in Caller \X Peer
    BY DEF Connection, Chan
  <1>4. \A d \in Caller : SameClient(d)
    BY <1>2 DEF SameClient
  <1>5. ASSUME NEW d \in Caller PROVE CallerInv(d)'
    <2>1. CASE d # c
      <3>1. SameServer(d)
        <4>1. \A j \in Connection : j[1] = d => SameWire(j)
          BY <2>1
        <4>2. \A peer \in Peer : answered'[<<d, peer>>] = answered[<<d, peer>>]
          BY <1>3, <2>1
        <4> QED
          BY <4>1, <4>2, Zenon DEF SameServer
      <3> QED
        BY <1>1, <1>4, <3>1, OthersStay
    <2>2. CASE d = c
      <3>1. \A j \in Connection : Later(c, j) => SameWire(j)
        BY ServedConnection
      <3>2. channel[c].peer = REGISTER => answered'[<<c, ORDER>>] = answered[<<c, ORDER>>]
        <4>1. <<c, ORDER>> \in Caller \X Peer
          BY <1>3 DEF Peer
        <4> QED
          BY <4>1, ServedConnection
      <3>3. To(c) \in Caller \X Peer
        BY <1>1, <1>3, CallerTypes
      <3>4. answered[To(c)] \subseteq answered'[To(c)]
        BY <3>3
      <3>5. Unopened(c)' /\ AtRegistry(c)' /\ Pending(c)' /\ Outcome(c)'
        BY <1>1, <1>3, <1>4, <3>1, <3>2, <3>4, ClientStays
      <3>6. ASSUME Chan(k) # To(c) PROVE RequestsSent(c)' /\ AnsweredSent(c)' /\ RepliesSound(c)'
        <4>1. \A j \in Connection : Chan(j) = To(c) => SameWire(j)
          BY <3>6
        <4>2. Own(c) \in Connection /\ SameWire(Own(c)) /\ answered'[To(c)] = answered[To(c)]
          BY <1>1, <1>3, <3>3, <3>6, <4>1, CallerTypes
        <4>3. RequestsSent(c)'
          BY <1>1, <1>3, <1>4, <4>1, SameFields, RequestsStay DEF CallerInv, SameWire
        <4>4. AnsweredSent(c)'
          BY <1>1, <1>3, <1>4, <4>2, SameFields, AnsweredStay DEF CallerInv
        <4>5. RepliesSound(c)'
          <5>1. Replies(c)' = Replies(c) /\ Asking(c)' = Asking(c) /\ call'[c] = call[c]
            BY <1>2, <1>3, <1>4, <4>2, SameFields DEF Replies, SameWire, Asking
          <5>2. (\A id \in DOMAIN channel[c].m_reply_datas :
                   channel[c].m_reply_datas[id].msg_id = id)'
            BY <1>1, <1>2, <1>3, Zenon DEF CallerInv, RepliesSound
          <5> QED
            BY <1>1, <1>3, <1>4, <4>2, <5>1, <5>2, SameFields, RepliesStay DEF CallerInv
        <4> QED
          BY <4>3, <4>4, <4>5
      <3> QED
        BY <2>2, <3>5, <3>6 DEF CallerInv
    <2> QED
      BY <2>1, <2>2
  <1>6. ASSUME NEW d \in Caller PROVE Bounded(d)'
    BY <1>1, <1>2, Zenon DEF Bounded, To
  <1>7. ASSUME NEW d \in Connection PROVE Serving(d)'
    <2>1. CASE d # k
      BY <1>1, <2>1, Zenon DEF Serving, SameWire
    <2> QED
      BY <2>1
  <1>8. RegisteredHeld'
    BY <1>1, <1>2, RegisteredStays
  <1> QED
    BY <1>5, <1>6, <1>7, <1>8 DEF IInv

(* What the server's end makes of the request at the head of its list. *)
LEMMA ReplyNowIs ==
  ASSUME Types, NEW k \in Connection, conn[k].todo # <<>>
  PROVE  /\ Current(k) \in TinyPBProtocol /\ Current(k) \in Range(conn[k].todo)
         /\ ReplyNow(k) \in TinyPBProtocol /\ ReplyNow(k).msg_id = Current(k).msg_id
         /\ ErrorOf(k[2], Current(k)) # 0 => ReplyNow(k).err_code = ErrorOf(k[2], Current(k))
         /\ ErrorOf(k[2], Current(k)) = 0 =>
              ReplyNow(k).err_code \in {0, ERROR_FAILED_SERIALIZE}
         /\ Runs(k) <=> ErrorOf(k[2], Current(k)) = 0
         /\ ReplyNow(k).err_code = 0 =>
              /\ IsLookup(Current(k)) =>
                   ReplyNow(k).pb_data = ListOf(Addresses(allService, Target(Current(k))))
              /\ IsOrder(Current(k)) => ReplyNow(k).pb_data = OrderBody(Current(k))
  <1> DEFINE q == Current(k)
             p == ReplyNow(k)
             name == MethodName(q.method_name)
             asked == targetservicename(ParseFromString(GetTargetAddrReq, q.pb_data))
             a == Addresses(allService, asked)
  <1>1. q \in TinyPBProtocol /\ q \in Range(conn[k].todo)
    BY ConnectionTypes, RangeTail DEF Current
  <1>2. k[2] \in Peer
    BY DEF Connection
  <1>3. a \in Seq(Seq(Byte)) /\ ListOf(a) \in Seq(Item) /\ <<>> \in Seq(Item)
    BY AddressesType, ListType
  <1>4. ASSUME ErrorOf(REGISTER, q) = 0
        PROVE  /\ name = GET_TARGET_ADDR => RpcRegistry(allService)[name][q.pb_data].pb_data = ListOf(a)
               /\ RpcRegistry(allService)[name][q.pb_data].pb_data \in Seq(Item)
    <2>1. name \in {GET_TARGET_ADDR, REGISTER_SERVER} /\ q.pb_data \in Bodies
      BY <1>4, NoError DEF Methods
    <2>2. CASE name = GET_TARGET_ADDR
      <3>1. RpcRegistry(allService)[GET_TARGET_ADDR][q.pb_data].pb_data = ListOf(a)
        BY <1>3, <2>1, LookupBody
      <3> HIDE DEF name, a
      <3> QED
        BY <1>3, <2>2, <3>1
    <2>3. CASE name = REGISTER_SERVER
      <3>1. RpcRegistry(allService)[REGISTER_SERVER][q.pb_data].pb_data = <<>>
        BY <2>1, RegistrationBody
      <3> HIDE DEF name, a
      <3> QED
        BY <1>3, <2>3, <3>1, PeersDiffer
    <2> QED
      BY <2>1, <2>2, <2>3
  <1>5. ASSUME ErrorOf(ORDER, q) = 0 PROVE OrderBody(q) \in Seq(Item)
    BY <1>5, NoError, OrderAnswer
  <1>6. /\ p \in TinyPBProtocol /\ p.msg_id = q.msg_id
        /\ ErrorOf(k[2], q) # 0 => p.err_code = ErrorOf(k[2], q)
        /\ ErrorOf(k[2], q) = 0 => p.err_code \in {0, ERROR_FAILED_SERIALIZE}
        /\ p.err_code = 0 /\ k[2] = REGISTER =>
             p.pb_data = RpcRegistry(allService)[name][q.pb_data].pb_data
        /\ p.err_code = 0 /\ k[2] = ORDER => p.pb_data = OrderBody(q)
    <2> HIDE DEF q
    <2> QED
      BY <1>1, <1>2, <1>4, <1>5, Dispatched DEF ReplyNow, q
  <1>0. Runs(k) <=> ErrorOf(k[2], q) = 0
    <2>1. Runs(k) <=> p.err_code \notin ServerErrors
      BY DEF Runs
    <2> HIDE DEF p, q
    <2> QED
      BY <1>6, <2>1, ErrorCodes, ErrorsOf
  <1>7. ASSUME p.err_code = 0, IsLookup(q)
        PROVE  p.pb_data = ListOf(Addresses(allService, Target(q)))
    <2>1. name = GET_TARGET_ADDR /\ k[2] = REGISTER /\ ErrorOf(k[2], q) = 0
      <3> HIDE DEF p, q
      <3>1. ErrorOf(k[2], q) = 0
        BY <1>6, <1>7
      <3> QED
        BY <1>7, <3>1, NamesOf, NoError DEF q
    <2>2. asked = Target(q)
      <3>1. RequestPrototype(q) = GetTargetAddrReq
        BY <1>7, NamesOf, Zenon DEF RequestPrototype
      <3> QED
        BY <3>1, Zenon DEF Target, Message
    <2>3. p.pb_data = ListOf(a)
      <3> HIDE DEF p, q, name, a
      <3> QED
        BY <1>4, <1>6, <1>7, <2>1
    <2> QED
      BY <2>2, <2>3
  <1>8. ASSUME p.err_code = 0, IsOrder(q) PROVE p.pb_data = OrderBody(q)
    <2> HIDE DEF p, q
    <2>1. ErrorOf(k[2], q) = 0
      BY <1>6, <1>8
    <2> QED
      BY <1>6, <1>8, <2>1, NamesOf, NoError
  <1> QED
    BY <1>0, <1>1, <1>6, <1>7, <1>8

(* That reply is sound, as soon as what it says is. *)
LEMMA ReplyNowSound ==
  ASSUME IInv, NEW k \in Connection, NEW c \in Caller, Chan(k) = To(c),
         conn[k].todo # <<>>, NEW p, p = ReplyNow(k),
         SameClient(c), Grows,
         Runs(k) => Current(k).msg_id \in answered'[Chan(k)],
         p.err_code = 0 /\ IsRegistration(Current(k)) =>
           ServiceAndAddress(Current(k))[2] \in
             Range(Addresses(allService', ServiceAndAddress(Current(k))[1]))
  PROVE  SoundReply(c, p)'
  <1>1. Types /\ CallerInv(c) /\ RegisteredHeld
    BY DEF IInv
  <1>2. PICK q : q = Current(k)
    OBVIOUS
  <1>3. /\ q \in TinyPBProtocol /\ q \in Range(conn[k].todo)
        /\ p \in TinyPBProtocol /\ p.msg_id = q.msg_id
        /\ ErrorOf(k[2], q) # 0 => p.err_code = ErrorOf(k[2], q)
        /\ ErrorOf(k[2], q) = 0 => p.err_code \in {0, ERROR_FAILED_SERIALIZE} /\ Runs(k)
        /\ p.err_code = 0 =>
             /\ IsLookup(q) => p.pb_data = ListOf(Addresses(allService, Target(q)))
             /\ IsOrder(q) => p.pb_data = OrderBody(q)
    BY <1>1, <1>2, ReplyNowIs
  <1>4. PICK m \in Sent(c) : q = Cut(m)
    BY <1>1, <1>3 DEF CallerInv, RequestsSent
  <1>5. m \in TinyPBProtocol /\ q.msg_id = CString(m.msg_id) /\ Same(q, m)
    BY <1>1, <1>4, CallerTypes, CutFields DEF Same
  <1>6. ASSUME p.err_code = 0, IsLookup(q)
        PROVE  LET a == Addresses(allService, Target(q))
               IN  a \in Seq(Seq(Byte)) /\ p.pb_data = ListOf(a) /\ Lists(p.pb_data, Addresses(allService', Target(q)))
    <2> DEFINE a == Addresses(allService, Target(q))
               b == Addresses(allService', Target(q))
    <2>1. a \in Seq(Seq(Byte)) /\ b \in Seq(Seq(Byte)) /\ Len(a) <= Len(b)
          /\ \A i \in 1 .. Len(a) : b[i] = a[i]
      BY DEF Grows
    <2>2. p.pb_data = ListOf(a)
      BY <1>3, <1>6
    <2> HIDE DEF a, b
    <2>3. ListOf(a) \in Seq(Item) /\ Lists(ListOf(a), a)
      BY <2>1, ListType
    <2>4. Lists(ListOf(a), b)
      BY <2>1, <2>3, ListsGrow
    <2> QED
      BY <2>1, <2>2, <2>4 DEF a, b
  <1>7. p.err_code = 0 => Told(p.pb_data, m)'
    <2>1. ASSUME p.err_code = 0 PROVE Told(p.pb_data, q)'
      <3>1. IsLookup(q) => Lists(p.pb_data, Addresses(allService', Target(q)))
        BY <1>6, <2>1
      <3>2. IsRegistration(q) =>
              ServiceAndAddress(q)[2] \in Range(Addresses(allService', ServiceAndAddress(q)[1]))
        BY <1>2, <2>1
      <3>3. IsOrder(q) => p.pb_data = OrderBody(q)
        BY <1>3, <2>1
      <3> QED
        BY <3>1, <3>2, <3>3, Zenon DEF Told
    <2>2. Told(p.pb_data, q)' => Told(p.pb_data, m)'
      BY <1>5, SameRequest, Zenon DEF Told
    <2> QED
      BY <2>1, <2>2
  <1>8. \E r \in Sent(c)' : Answers(To(c), p, r)'
    <2>1. ErrorOf(To(c)[2], m) = ErrorOf(k[2], q)
      <3>1. To(c)[2] = k[2]
        BY DEF Chan
      <3> QED
        BY <1>5, <3>1, SameRequest
    <2>2. To(c)' = To(c) /\ m \in Sent(c)'
      BY <1>4, SameFields
    <2>3. ErrorOf(k[2], q) = 0 => p.msg_id \in answered'[To(c)]
      BY <1>2, <1>3
    <2>4. p.msg_id = CString(m.msg_id)
      BY <1>3, <1>5
    <2>5. Answers(To(c), p, m)'
      BY <1>3, <1>7, <2>1, <2>2, <2>3, <2>4, Zenon DEF Answers
    <2> QED
      BY <2>2, <2>5, Zenon
  <1>9. ASSUME Asking(c)', IsLookup(call'[c].request), p.msg_id = CString(call'[c].id),
               p.err_code = 0
        PROVE  ListsKnown(c, p.pb_data)'
    <2>1. call'[c] = call[c] /\ Asking(c) /\ Unique(c)
      BY <1>1, <1>9 DEF SameClient, Asking, CallerInv, Pending
    <2>2. Same(m, call[c].request)
      BY <1>3, <1>5, <1>9, <2>1 DEF Unique
    <2>3. Target(q) = Target(call[c].request) /\ IsLookup(q)
      BY <1>5, <1>9, <2>1, <2>2, SameRequest
    <2> DEFINE a == Addresses(allService, Target(q))
    <2>4. a \in Seq(Seq(Byte)) /\ p.pb_data = ListOf(a)
      BY <1>6, <1>9, <2>3
    <2>5. \A r \in call[c].known : r[1] = Target(q) => r[2] \in Range(a)
      BY <1>1 DEF RegisteredHeld
    <2> HIDE DEF a
    <2>6. ASSUME NEW r \in call[c].known, r[1] = Target(q)
          PROVE  \E i \in 1 .. Len(p.pb_data) : p.pb_data[i] = <<3, "string", r[2]>>
      <3>1. PICK i \in DOMAIN a : a[i] = r[2]
        BY <2>5, <2>6 DEF Range
      <3>2. i \in 1 .. Len(a) /\ Len(ListOf(a)) = Len(a) /\ ListOf(a)[i] = <<3, "string", a[i]>>
        <4>1. i \in 1 .. Len(a)
          BY <2>4
        <4> QED
          BY <2>4, <4>1, ListType, Zenon
      <3>3. \E j \in 1 .. Len(ListOf(a)) : ListOf(a)[j] = <<3, "string", r[2]>>
        BY <3>1, <3>2
      <3> QED
        BY <2>4, <3>3, Zenon
    <2> QED
      BY <2>1, <2>3, <2>6, Zenon DEF ListsKnown
  <1> QED
    BY <1>8, <1>9, Zenon DEF SoundReply

LEMMA ServerReadsStep ==
  ASSUME IInv, NEW k \in Connection, ServerReads(k) PROVE IInv'
  <1>1. Types /\ k[1] \in Caller /\ CallerInv(k[1])
    BY DEF IInv, Connection
  <1> DEFINE w == requests[k]
             c == k[1]
  <1>2. PICK n \in 1 .. Len(w) :
          /\ conn' = [conn EXCEPT ![k].todo = Decoded(SubSeq(w, 1, n)), ![k].pc = "excute"]
          /\ requests' = [requests EXCEPT ![k] = SubSeq(@, n + 1, Len(@))]
    BY DEF ServerReads
  <1>3. UNCHANGED client /\ UNCHANGED <<m_mutex, answered, allService, replies, registered>>
    BY DEF ServerReads
  <1> DEFINE head == SubSeq(w, 1, n)
             rest == SubSeq(w, n + 1, Len(w))
  <1>4. w \in Seq(TinyPBProtocol) /\ w # <<>>
    BY <1>1, <1>2, ConnectionTypes
  <1>5. /\ head \in Seq(TinyPBProtocol) /\ Range(head) \subseteq Range(w)
        /\ rest \in Seq(TinyPBProtocol) /\ Range(rest) \subseteq Range(w)
    <2> HIDE DEF w
    <2>1. 1 \in 1 .. Len(w) + 1 /\ n \in 0 .. Len(w) /\ n + 1 \in 1 .. Len(w) + 1 /\ Len(w) \in 0 .. Len(w)
      BY <1>4
    <2> QED
      BY <1>4, <2>1, RangeSubSeq
  <1> DEFINE todo == Decoded(head)
  <1>6. /\ todo \in Seq(TinyPBProtocol)
        /\ DOMAIN todo = DOMAIN head /\ \A j \in DOMAIN head : todo[j] = Cut(head[j])
    BY <1>5, DecodedCut
  <1>7. conn' = [conn EXCEPT ![k].todo = todo, ![k].pc = "excute"] /\ requests' = [requests EXCEPT ![k] = rest]
    BY <1>2
  <1> HIDE DEF head, rest, w, todo
  <1>8. /\ conn'[k] \in ConnType /\ conn'[k].todo = todo /\ conn'[k].pc = "excute"
        /\ conn'[k].m_out_buffer = conn[k].m_out_buffer
    BY <1>1, <1>6, <1>7 DEF Types, ServerTypes, ConnType
  <1>9. Types'
    <2>1. conn' \in [Connection -> ConnType]
      BY <1>1, <1>7, <1>8 DEF Types, ServerTypes
    <2>2. requests' \in [Connection -> Seq(TinyPBProtocol)]
      BY <1>1, <1>5, <1>7 DEF Types, WireTypes
    <2>3. ClientTypes' /\ ServerTypes'
      BY <1>1, <1>3, <2>1 DEF Types, ClientTypes, ServerTypes, client, ids
    <2> QED
      BY <1>1, <1>3, <2>2, <2>3 DEF Types, WireTypes
  <1>10. Grows
    BY <1>1, <1>3, TableStays
  <1>11. \A d \in Connection \ {k} : SameWire(d)
    BY <1>1, <1>3, <1>7 DEF SameWire, Types, ServerTypes, WireTypes
  <1>12. Serving(k)'
    BY <1>8 DEF Serving
  <1>13. ASSUME Chan(k) = To(c) PROVE RequestsSent(c)' /\ AnsweredSent(c)' /\ RepliesSound(c)'
    <2>1. SameClient(c)
      BY <1>3 DEF client, SameClient
    <2>2. /\ RequestsSent(c) /\ To(c)' = To(c) /\ Sent(c)' = Sent(c)
          /\ channel'[c].ids = channel[c].ids
      BY <1>1, <1>13, <2>1, SameFields DEF CallerInv
    <2>3. \A q \in Sent(c)' : q.msg_id \in channel'[c].ids
      BY <2>2 DEF RequestsSent
    <2>4. Range(head) \subseteq Sent(c) /\ Range(rest) \subseteq Sent(c)
      BY <1>5, <1>13, <2>2 DEF RequestsSent, w
    <2>5. requests'[k] = rest
      BY <1>1, <1>7 DEF Types, WireTypes
    <2>6. ASSUME NEW q \in Range(todo) PROVE \E m \in Sent(c)' : q = Cut(m)
      <3>1. PICK j \in DOMAIN todo : q = todo[j]
        BY <2>6 DEF Range
      <3>2. head[j] \in Sent(c)' /\ q = Cut(head[j])
        BY <1>6, <2>2, <2>4, <3>1 DEF Range
      <3> QED
        BY <3>2
    <2>7. RequestsSent(c)'
      <3>1. ASSUME NEW j \in Connection, Chan(j) = To(c)
            PROVE  /\ Range(requests'[j]) \subseteq Sent(c)'
                   /\ \A q \in Range(conn'[j].todo) : \E m \in Sent(c)' : q = Cut(m)
        <4>1. CASE j = k
          BY <1>8, <2>2, <2>4, <2>5, <2>6, <4>1
        <4>2. CASE j # k
          BY <1>11, <2>2, <3>1, <4>2 DEF RequestsSent, SameWire
        <4> QED
          BY <4>1, <4>2
      <3>2. \A j \in Connection : Chan(j)' = Chan(j)
        BY DEF Chan
      <3> QED
        BY <2>2, <2>3, <3>1, <3>2, Zenon DEF RequestsSent
    <2>8. AnsweredSent(c)'
      BY <1>1, <1>3, <2>1, SameFields, AnsweredStay DEF CallerInv
    <2>9. RepliesSound(c)'
      <3>1. Replies(c)' = Replies(c) /\ Asking(c)' = Asking(c) /\ call'[c] = call[c]
        <4>1. /\ \A j \in Connection : conn'[j].m_out_buffer = conn[j].m_out_buffer
              /\ Own(c) \in Connection
          BY <1>1, <1>8, <1>11, CallerTypes DEF SameWire
        <4> QED
          BY <1>3, <2>1, <4>1, SameFields DEF Replies, SameClient, Asking
      <3>2. (\A id \in DOMAIN channel[c].m_reply_datas : channel[c].m_reply_datas[id].msg_id = id)'
        BY <1>1, <2>1, SameFields, Zenon DEF CallerInv, RepliesSound
      <3> QED
        BY <1>1, <1>3, <1>10, <2>1, <3>1, <3>2, SameFields, RepliesStay DEF CallerInv
    <2> QED
      BY <2>7, <2>8, <2>9
  <1>14. requests[k] # <<>>
    BY <1>4 DEF w
  <1> QED
    BY <1>3, <1>9, <1>10, <1>11, <1>12, <1>13, <1>14, ServerStep

(* What a connection keeps when it only takes requests from its list and   *)
(* adds sound replies to its out-buffer.                                   *)
LEMMA ServedStays ==
  ASSUME IInv, NEW c \in Caller, NEW k \in Connection, Chan(k) = To(c), SameClient(c), Grows,
         \A j \in Connection \ {k} : SameWire(j),
         requests'[k] = requests[k], replies'[k] = replies[k],
         Range(conn'[k].todo) \subseteq Range(conn[k].todo),
         answered[To(c)] \subseteq answered'[To(c)],
         \A p \in Range(conn'[k].m_out_buffer) \ Range(conn[k].m_out_buffer) : SoundReply(c, p)'
  PROVE  RequestsSent(c)' /\ RepliesSound(c)'
  <1>1. Types /\ CallerInv(c)
    BY DEF IInv
  <1>2. RequestsSent(c)'
    BY <1>1, SameFields, RequestsStay DEF CallerInv, SameWire
  <1>3. RepliesSound(c)'
    <2>1. \A p \in Replies(c)' : SoundReply(c, p)' \/ p \in Replies(c)
      <3>1. CASE Own(c) = k
        BY <3>1, SameFields DEF Replies
      <3>2. CASE Own(c) # k
        <4>1. SameWire(Own(c))
          BY <1>1, <3>2, CallerTypes
        <4>2. Replies(c)' = Replies(c)
          BY <4>1, SameFields DEF Replies, SameWire
        <4> QED
          BY <4>2
      <3> QED
        BY <3>1, <3>2
    <2>2. Asking(c)' = Asking(c) /\ call'[c] = call[c]
      BY DEF SameClient, Asking
    <2>3. (\A id \in DOMAIN channel[c].m_reply_datas : channel[c].m_reply_datas[id].msg_id = id)'
      BY <1>1, SameFields, Zenon DEF CallerInv, RepliesSound
    <2> QED
      BY <1>1, <2>1, <2>2, <2>3, SameFields, RepliesStay DEF CallerInv
  <1> QED
    BY <1>2, <1>3

LEMMA ExcuteErrorStep ==
  ASSUME IInv, NEW k \in Connection, ExcuteError(k) PROVE IInv'
  <1> DEFINE c == k[1]
  <1>1. Types /\ c \in Caller /\ CallerInv(c)
    BY DEF IInv, Connection
  <1>2. PICK p : p = ReplyNow(k)
    OBVIOUS
  <1>3. /\ conn[k].pc = "excute" /\ conn[k].todo # <<>> /\ ~Runs(k)
        /\ conn' = [conn EXCEPT ![k].m_out_buffer = Append(@, p), ![k].todo = Tail(@)]
        /\ UNCHANGED client /\ UNCHANGED <<m_mutex, answered, allService, requests, replies, registered>>
    BY <1>2 DEF ExcuteError, wire
  <1>4. /\ p \in TinyPBProtocol /\ conn[k] \in ConnType
        /\ conn[k].todo \in Seq(TinyPBProtocol) /\ conn[k].m_out_buffer \in Seq(TinyPBProtocol)
    BY <1>1, <1>2, <1>3, ReplyNowIs, ConnectionTypes
  <1>5. /\ Tail(conn[k].todo) \in Seq(TinyPBProtocol)
        /\ Range(Tail(conn[k].todo)) \subseteq Range(conn[k].todo)
    BY <1>3, <1>4, RangeTail
  <1>6. Range(Append(conn[k].m_out_buffer, p)) = Range(conn[k].m_out_buffer) \cup {p}
    BY <1>4, RangeAppend
  <1>7. /\ conn'[k] \in ConnType /\ conn'[k].pc = "excute"
        /\ conn'[k].todo = Tail(conn[k].todo)
        /\ conn'[k].m_out_buffer = Append(conn[k].m_out_buffer, p)
    <2> DEFINE sent == Append(conn[k].m_out_buffer, p)
               rest == Tail(conn[k].todo)
    <2>1. sent \in Seq(TinyPBProtocol)
      BY <1>4
    <2>2. conn'[k] = [conn[k] EXCEPT !.m_out_buffer = sent, !.todo = rest]
      BY <1>1, <1>3 DEF Types, ServerTypes
    <2> HIDE DEF sent, rest
    <2>3. rest \in Seq(TinyPBProtocol)
      BY <1>5 DEF rest
    <2>4. /\ conn'[k] \in ConnType /\ conn'[k].pc = conn[k].pc /\ conn'[k].todo = rest
          /\ conn'[k].m_out_buffer = sent
      <3>1. PICK r \in ConnType : r = conn[k]
        BY <1>4
      <3>2. PICK e : e = conn'[k]
        OBVIOUS
      <3>3. e = [r EXCEPT !.m_out_buffer = sent, !.todo = rest]
        BY <2>2, <3>1, <3>2
      <3>4. e \in ConnType /\ e.pc = r.pc /\ e.todo = rest /\ e.m_out_buffer = sent
        BY <2>1, <2>3, <3>3 DEF ConnType
      <3> QED
        BY <3>1, <3>2, <3>4
    <2>5. conn[k].pc = "excute"
      BY <1>3
    <2> QED
      BY <2>4, <2>5 DEF sent, rest
  <1>8. Types'
    <2>1. conn' \in [Connection -> ConnType]
      BY <1>1, <1>3, <1>7 DEF Types, ServerTypes
    <2> QED
      BY <1>1, <1>3, <2>1 DEF Types, ClientTypes, ServerTypes, WireTypes, client, ids
  <1>9. Grows
    BY <1>1, <1>3, TableStays
  <1>10. \A d \in Connection \ {k} : SameWire(d)
    BY <1>1, <1>3 DEF SameWire, Types, ServerTypes
  <1>11. Serving(k)'
    BY <1>7 DEF Serving
  <1>0. p.err_code # 0
    BY <1>2, <1>3, ErrorCodes DEF Runs
  <1>12. ASSUME Chan(k) = To(c) PROVE RequestsSent(c)' /\ AnsweredSent(c)' /\ RepliesSound(c)'
    <2>1. SameClient(c)
      BY <1>3 DEF client, SameClient
    <2>2. SoundReply(c, p)'
      BY <1>0, <1>1, <1>2, <1>3, <1>9, <1>12, <2>1, ReplyNowSound
    <2>3. RequestsSent(c)' /\ RepliesSound(c)'
      BY <1>1, <1>3, <1>5, <1>6, <1>7, <1>9, <1>10, <1>12, <2>1, <2>2, ServedStays
    <2>4. AnsweredSent(c)'
      BY <1>1, <1>3, <2>1, SameFields, AnsweredStay DEF CallerInv
    <2> QED
      BY <2>3, <2>4
  <1> QED
    BY <1>3, <1>7, <1>8, <1>9, <1>10, <1>11, <1>12, ServerStep

LEMMA AnsweredIs ==
  ASSUME Types, NEW k \in Connection, conn[k].todo # <<>>, answered' = Answered(k)
  PROVE  /\ answered' \in [Caller \X Peer -> SUBSET Seq(Byte)]
         /\ answered'[Chan(k)] = answered[Chan(k)] \cup {Current(k).msg_id}
         /\ \A t \in Caller \X Peer : t # Chan(k) => answered'[t] = answered[t]
  <1> DEFINE at == Chan(k)
             ran == answered[Chan(k)] \cup {Current(k).msg_id}
  <1>1. Current(k).msg_id \in Seq(Byte)
    BY ReplyNowIs DEF TinyPBProtocol
  <1>2. /\ answered \in [Caller \X Peer -> SUBSET Seq(Byte)]
        /\ at \in Caller \X Peer /\ ran \in SUBSET Seq(Byte)
    BY <1>1, ConnectionTypes DEF Types, ServerTypes
  <1>3. answered' = [answered EXCEPT ![at] = ran]
    BY DEF Answered
  <1> HIDE DEF at, ran
  <1>4. /\ answered' \in [Caller \X Peer -> SUBSET Seq(Byte)] /\ answered'[at] = ran
        /\ \A t \in Caller \X Peer : t # at => answered'[t] = answered[t]
    BY <1>2, <1>3
  <1> QED
    BY <1>4 DEF at, ran

LEMMA AnsweredAdds ==
  ASSUME IInv, NEW c \in Caller, NEW k \in Connection, Chan(k) = To(c), SameClient(c),
         conn[k].todo # <<>>, Runs(k), answered' = Answered(k)
  PROVE  AnsweredSent(c)'
  <1>1. Types /\ CallerInv(c)
    BY DEF IInv
  <1>2. /\ To(c)' = To(c) /\ Sent(c)' = Sent(c) /\ channel'[c].peer = channel[c].peer
        /\ channel[c].peer = k[2]
    BY SameFields DEF Chan, To
  <1>3. PICK q : q = Current(k)
    OBVIOUS
  <1>4. q \in Range(conn[k].todo) /\ ErrorOf(k[2], q) = 0
    BY <1>1, <1>3, ReplyNowIs
  <1>5. PICK m \in Sent(c) : q = Cut(m)
    BY <1>1, <1>4 DEF CallerInv, RequestsSent
  <1>6. q.msg_id = CString(m.msg_id) /\ ErrorOf(k[2], m) = 0
    <2>1. m \in TinyPBProtocol
      BY <1>1, CallerTypes
    <2>2. q.msg_id = CString(m.msg_id) /\ Same(q, m)
      BY <1>5, <2>1, CutFields DEF Same
    <2> QED
      BY <1>4, <2>2, SameRequest
  <1>7. ASSUME NEW id \in answered'[To(c)]
        PROVE  \E r \in Sent(c) : id = CString(r.msg_id) /\ ErrorOf(channel[c].peer, r) = 0
    <2>0. answered'[To(c)] = answered[To(c)] \cup {q.msg_id}
      BY <1>1, <1>3, AnsweredIs
    <2>1. CASE id \in answered[To(c)]
      BY <1>1, <2>1 DEF CallerInv, AnsweredSent
    <2>2. CASE id = q.msg_id
      BY <1>2, <1>6, <2>2
    <2> QED
      BY <1>7, <2>0, <2>1, <2>2
  <1> QED
    BY <1>2, <1>7, Zenon DEF AnsweredSent

(* A method that has run and replied, with what its reply tells of.        *)
LEMMA RepliedStep ==
  ASSUME IInv, NEW k \in Connection, NEW at \in {"excute", "return"},
         NEW todo \in Seq(TinyPBProtocol), Range(todo) \subseteq Range(conn[k].todo),
         conn[k].pc # "read", conn[k].todo # <<>>, Runs(k),
         conn' = [conn EXCEPT ![k].m_out_buffer = Append(@, ReplyNow(k)), ![k].todo = todo,
                              ![k].pc = at],
         answered' = Answered(k), m_mutex' \in Connection \cup {NoOwner},
         UNCHANGED client, UNCHANGED <<requests, replies, registered>>,
         Grows, \A s \in DOMAIN allService' : allService'[s] \in Seq(Seq(Byte)),
         at = "return" => todo # <<>>,
         ReplyNow(k).err_code = 0 /\ IsRegistration(Current(k)) =>
           ServiceAndAddress(Current(k))[2] \in
             Range(Addresses(allService', ServiceAndAddress(Current(k))[1]))
  PROVE  IInv'
  <1> DEFINE c == k[1]
  <1>1. Types /\ c \in Caller /\ CallerInv(c)
    BY DEF IInv, Connection
  <1>2. PICK p : p = ReplyNow(k)
    OBVIOUS
  <1>3. p \in TinyPBProtocol
    BY <1>1, <1>2, ReplyNowIs
  <1>4. /\ conn' \in [Connection -> ConnType]
        /\ conn'[k].pc = at /\ conn'[k].todo = todo
        /\ Range(conn'[k].m_out_buffer) = Range(conn[k].m_out_buffer) \cup {p}
        /\ \A j \in Connection \ {k} : conn'[j] = conn[j]
    <2>1. conn' = [conn EXCEPT ![k].m_out_buffer = Append(@, p), ![k].todo = todo, ![k].pc = at]
      BY <1>2, Zenon
    <2>2. /\ conn \in [Connection -> ConnType] /\ conn[k] \in ConnType
          /\ conn[k].m_out_buffer \in Seq(TinyPBProtocol)
      BY <1>1, ConnectionTypes DEF Types, ServerTypes
    <2> DEFINE sent == Append(conn[k].m_out_buffer, p)
               r == [conn[k] EXCEPT !.m_out_buffer = sent, !.todo = todo, !.pc = at]
    <2>3. sent \in Seq(TinyPBProtocol) /\ Range(sent) = Range(conn[k].m_out_buffer) \cup {p}
      BY <1>3, <2>2, RangeAppend
    <2>4. conn' = [conn EXCEPT ![k] = r]
      BY <2>1, <2>2
    <2> HIDE DEF c, sent
    <2>5. r \in ConnType /\ r.pc = at /\ r.todo = todo /\ r.m_out_buffer = sent
      BY <2>2, <2>3 DEF ConnType
    <2> HIDE DEF r
    <2>6. /\ conn' \in [Connection -> ConnType] /\ conn'[k] = r
          /\ \A j \in Connection \ {k} : conn'[j] = conn[j]
      BY <2>2, <2>4, <2>5, OneConnection
    <2> QED
      BY <2>3, <2>5, <2>6
  <1>5. /\ answered' \in [Caller \X Peer -> SUBSET Seq(Byte)]
        /\ answered'[Chan(k)] = answered[Chan(k)] \cup {Current(k).msg_id}
        /\ \A t \in Caller \X Peer : t # Chan(k) => answered'[t] = answered[t]
    BY <1>1, AnsweredIs
  <1>6. Types'
    <2>1. ServerTypes'
      BY <1>1, <1>4, <1>5 DEF Types, ServerTypes
    <2>2. ClientTypes' /\ WireTypes'
      BY <1>1 DEF Types, ClientTypes, WireTypes, client, ids
    <2> QED
      BY <2>1, <2>2 DEF Types
  <1>7. \A d \in Connection \ {k} : SameWire(d)
    BY <1>4 DEF SameWire
  <1>8. Serving(k)'
    BY <1>4 DEF Serving
  <1>9. ASSUME Chan(k) = To(c) PROVE RequestsSent(c)' /\ AnsweredSent(c)' /\ RepliesSound(c)'
    <2>1. SameClient(c)
      BY DEF client, SameClient
    <2>2. SoundReply(c, p)'
      <3>1. Current(k).msg_id \in answered'[Chan(k)]
        BY <1>5
      <3> HIDE DEF c
      <3> QED
        BY <1>1, <1>2, <1>9, <2>1, <3>1, ReplyNowSound
    <2>3. /\ Range(conn'[k].todo) \subseteq Range(conn[k].todo)
          /\ answered[To(c)] \subseteq answered'[To(c)]
          /\ \A d \in Range(conn'[k].m_out_buffer) \ Range(conn[k].m_out_buffer) : SoundReply(c, d)'
      BY <1>4, <1>5, <1>9, <2>2
    <2>4. RequestsSent(c)' /\ RepliesSound(c)'
      <3> HIDE DEF c
      <3> QED
        BY <1>1, <1>7, <1>9, <2>1, <2>3, ServedStays
    <2>5. AnsweredSent(c)'
      <3> HIDE DEF c
      <3> QED
        BY <1>1, <1>9, <2>1, AnsweredAdds
    <2> QED
      BY <2>4, <2>5
  <1>10. answered[Chan(k)] \subseteq answered'[Chan(k)]
    BY <1>5
  <1> QED
    BY <1>5, <1>6, <1>7, <1>8, <1>9, <1>10, ServerStep

LEMMA ExcuteOrderStep ==
  ASSUME IInv, NEW k \in Connection, ExcuteOrder(k) PROVE IInv'
  <1>1. Types
    BY DEF IInv
  <1>2. /\ conn[k].pc = "excute" /\ conn[k].todo # <<>> /\ k[2] = ORDER /\ Runs(k)
        /\ conn' = [conn EXCEPT ![k].m_out_buffer = Append(@, ReplyNow(k)), ![k].todo = Tail(@)]
        /\ answered' = Answered(k)
        /\ UNCHANGED client /\ UNCHANGED <<m_mutex, allService, requests, replies, registered>>
    BY DEF ExcuteOrder, wire
  <1>3. conn[k].todo \in Seq(TinyPBProtocol) /\ conn[k] \in ConnType
    BY <1>1, ConnectionTypes
  <1>4. /\ Tail(conn[k].todo) \in Seq(TinyPBProtocol)
        /\ Range(Tail(conn[k].todo)) \subseteq Range(conn[k].todo)
    BY <1>2, <1>3, RangeTail
  <1>5. conn' = [conn EXCEPT ![k].m_out_buffer = Append(@, ReplyNow(k)),
                             ![k].todo = Tail(conn[k].todo), ![k].pc = "excute"]
    <2> DEFINE sent == Append(conn[k].m_out_buffer, ReplyNow(k))
               rest == Tail(conn[k].todo)
    <2>1. conn' = [conn EXCEPT ![k] = [conn[k] EXCEPT !.m_out_buffer = sent, !.todo = rest]]
      BY <1>1, <1>2 DEF Types, ServerTypes
    <2> HIDE DEF sent, rest
    <2>2. [conn[k] EXCEPT !.m_out_buffer = sent, !.todo = rest]
            = [conn[k] EXCEPT !.m_out_buffer = sent, !.todo = rest, !.pc = "excute"]
      BY <1>2, <1>3 DEF ConnType
    <2>3. conn' = [conn EXCEPT ![k] = [conn[k] EXCEPT !.m_out_buffer = sent, !.todo = rest,
                                                      !.pc = "excute"]]
      BY <2>1, <2>2
    <2> QED
      BY <1>1, <2>3 DEF Types, ServerTypes, sent, rest
  <1>6. ~IsRegistration(Current(k))
    BY <1>1, <1>2, ReplyNowIs, NamesOf, NoError, PeersDiffer
  <1>7. Grows /\ \A s \in DOMAIN allService' : allService'[s] \in Seq(Seq(Byte))
    BY <1>1, <1>2, TableStays DEF Types, ServerTypes
  <1>8. m_mutex' \in Connection \cup {NoOwner}
    BY <1>1, <1>2 DEF Types, ServerTypes
  <1> QED
    BY <1>2, <1>4, <1>5, <1>6, <1>7, <1>8, RepliedStep

(* What a connection keeps when only its place in the program changes, or  *)
(* the head of its list goes.                                              *)
LEMMA PlaceStep ==
  ASSUME IInv, NEW k \in Connection,
         NEW at \in {"excute", "access"}, NEW todo \in Seq(TinyPBProtocol),
         conn[k].pc # "read",
         conn' = [conn EXCEPT ![k].pc = at, ![k].todo = todo],
         Range(todo) \subseteq Range(conn[k].todo),
         m_mutex' \in Connection \cup {NoOwner}, UNCHANGED client,
         UNCHANGED <<answered, allService, requests, replies, registered>>,
         at = "access" => /\ k[2] = REGISTER /\ todo # <<>>
                          /\ ErrorOf(REGISTER, Head(todo)) = 0
  PROVE  IInv'
  <1> DEFINE c == k[1]
  <1>1. Types /\ c \in Caller /\ CallerInv(c)
    BY DEF IInv, Connection
  <1>2. /\ conn'[k] \in ConnType /\ conn'[k].pc = at /\ conn'[k].todo = todo
        /\ conn'[k].m_out_buffer = conn[k].m_out_buffer
    BY <1>1 DEF Types, ServerTypes, ConnType
  <1>3. Types'
    <2>1. conn' \in [Connection -> ConnType]
      BY <1>1, <1>2 DEF Types, ServerTypes
    <2> QED
      BY <1>1, <2>1 DEF Types, ClientTypes, ServerTypes, WireTypes, client, ids
  <1>4. Grows
    BY <1>1, TableStays
  <1>5. \A d \in Connection \ {k} : SameWire(d)
    BY <1>1 DEF SameWire, Types, ServerTypes
  <1>6. Serving(k)'
    BY <1>2 DEF Serving
  <1>7. ASSUME Chan(k) = To(c) PROVE RequestsSent(c)' /\ AnsweredSent(c)' /\ RepliesSound(c)'
    <2>1. SameClient(c)
      BY DEF client, SameClient
    <2>2. RequestsSent(c)' /\ RepliesSound(c)'
      BY <1>1, <1>2, <1>4, <1>5, <1>7, <2>1, ServedStays
    <2>3. AnsweredSent(c)'
      BY <1>1, <2>1, SameFields, AnsweredStay DEF CallerInv
    <2> QED
      BY <2>2, <2>3
  <1> QED
    BY <1>2, <1>3, <1>4, <1>5, <1>6, <1>7, ServerStep

LEMMA ExcuteMethodStep ==
  ASSUME IInv, NEW k \in Connection, ExcuteMethod(k) PROVE IInv'
  <1>1. Types
    BY DEF IInv
  <1>2. /\ conn[k].pc = "excute" /\ conn[k].todo # <<>> /\ k[2] = REGISTER
        /\ Runs(k) /\ m_mutex' = k
        /\ conn' = [conn EXCEPT ![k].pc = "access"]
        /\ UNCHANGED client /\ UNCHANGED <<answered, allService, requests, replies, registered>>
    BY DEF ExcuteMethod, Construct, wire
  <1>3. conn[k].todo \in Seq(TinyPBProtocol) /\ conn[k] \in ConnType
    BY <1>1, ConnectionTypes
  <1>4. ErrorOf(REGISTER, Head(conn[k].todo)) = 0
    BY <1>1, <1>2, ReplyNowIs DEF Current
  <1>5. conn' = [conn EXCEPT ![k].pc = "access", ![k].todo = conn[k].todo]
    <2>1. [conn[k] EXCEPT !.pc = "access"] = [conn[k] EXCEPT !.pc = "access", !.todo = conn[k].todo]
      BY <1>3 DEF ConnType
    <2> QED
      BY <1>1, <1>2, <2>1 DEF Types, ServerTypes
  <1> QED
    BY <1>2, <1>3, <1>4, <1>5, PlaceStep

LEMMA MethodReturnsStep ==
  ASSUME IInv, NEW k \in Connection, MethodReturns(k) PROVE IInv'
  <1>1. Types /\ Serving(k)
    BY DEF IInv
  <1>2. /\ conn[k].pc = "return" /\ m_mutex' = NoOwner
        /\ conn' = [conn EXCEPT ![k].todo = Tail(@), ![k].pc = "excute"]
        /\ UNCHANGED client /\ UNCHANGED <<answered, allService, requests, replies, registered>>
    BY DEF MethodReturns, Destruct, wire
  <1>3. conn[k].todo \in Seq(TinyPBProtocol) /\ conn[k] \in ConnType /\ conn[k].todo # <<>>
    BY <1>1, <1>2, ConnectionTypes DEF Serving
  <1>4. /\ Tail(conn[k].todo) \in Seq(TinyPBProtocol)
        /\ Range(Tail(conn[k].todo)) \subseteq Range(conn[k].todo)
    BY <1>3, RangeTail
  <1>5. conn' = [conn EXCEPT ![k].pc = "excute", ![k].todo = Tail(conn[k].todo)]
    BY <1>1, <1>2 DEF Types, ServerTypes
  <1> QED
    BY <1>2, <1>3, <1>4, <1>5, PlaceStep

(* push_back, and the entry that operator[] makes, only add to the table.  *)
LEMMA TableGrows ==
  ASSUME Types, NEW service, NEW address \in Seq(Byte),
         allService' = Registered(allService, service, address)
  PROVE  /\ Grows /\ address \in Range(Addresses(allService', service))
         /\ \A s \in DOMAIN allService' : allService'[s] \in Seq(Seq(Byte))
  <1> DEFINE D == DOMAIN allService \cup {service}
  <1>1. /\ DOMAIN allService' = D
        /\ \A s \in D : allService'[s] =
             IF s = service THEN Append(Addresses(allService, s), address) ELSE allService[s]
    BY DEF Registered
  <1>2. ASSUME NEW s
        PROVE  LET a == Addresses(allService, s)
                   b == Addresses(allService', s)
               IN  /\ a \in Seq(Seq(Byte)) /\ b \in Seq(Seq(Byte)) /\ Len(a) <= Len(b)
                   /\ \A i \in 1 .. Len(a) : b[i] = a[i]
                   /\ s = service => address \in Range(b)
    <2> DEFINE a == Addresses(allService, s)
               b == Addresses(allService', s)
    <2>1. a \in Seq(Seq(Byte))
      BY AddressesType
    <2>2. s = service => b = Append(a, address)
      BY <1>1 DEF Addresses
    <2>3. s # service => b = a
      BY <1>1 DEF Addresses
    <2> HIDE DEF a, b
    <2>4. CASE s = service
      <3>1. b = Append(a, address)
        BY <2>2, <2>4
      <3>2. Range(b) = Range(a) \cup {address}
        <4> DEFINE S == Seq(Byte)
        <4>1. a \in Seq(S) /\ address \in S
          BY <2>1
        <4> HIDE DEF S
        <4> QED
          BY <3>1, <4>1, RangeAppend
      <3>3. b \in Seq(Seq(Byte)) /\ Len(b) = Len(a) + 1 /\ Len(a) \in Nat
        BY <2>1, <3>1
      <3>4. \A i \in 1 .. Len(a) : b[i] = a[i]
        BY <2>1, <3>1
      <3> QED
        BY <2>1, <3>2, <3>3, <3>4 DEF a, b
    <2>5. CASE s # service
      <3>1. Len(a) \in Nat
        BY <2>1
      <3> QED
        BY <2>1, <2>3, <2>5, <3>1 DEF a, b
    <2> QED
      BY <2>4, <2>5
  <1>3. ASSUME NEW s \in DOMAIN allService' PROVE allService'[s] \in Seq(Seq(Byte))
    BY <1>2, <1>3 DEF Addresses
  <1> QED
    BY <1>2, <1>3 DEF Grows

LEMMA EntryMade ==
  ASSUME Types, NEW service,
         allService' = [s \in DOMAIN allService \cup {service} |-> Addresses(allService, s)]
  PROVE  Grows /\ \A s \in DOMAIN allService' : allService'[s] \in Seq(Seq(Byte))
  <1>1. ASSUME NEW s PROVE Addresses(allService', s) = Addresses(allService, s)
    <2>1. CASE s \in DOMAIN allService \cup {service}
      BY <2>1 DEF Addresses
    <2>2. CASE s \notin DOMAIN allService \cup {service}
      BY <2>2 DEF Addresses
    <2> QED
      BY <2>1, <2>2
  <1>2. ASSUME NEW s
        PROVE  LET a == Addresses(allService, s)
               IN  a \in Seq(Seq(Byte)) /\ Len(a) <= Len(a)
    <2> DEFINE a == Addresses(allService, s)
    <2>1. a \in Seq(Seq(Byte))
      BY AddressesType
    <2> HIDE DEF a
    <2>2. Len(a) \in Nat
      BY <2>1
    <2> QED
      BY <2>1, <2>2 DEF a
  <1>3. Grows
    BY <1>1, <1>2 DEF Grows
  <1> QED
    BY <1>2, <1>3

LEMMA AccessStep ==
  ASSUME IInv, NEW k \in Connection, Access(k) PROVE IInv'
  <1> DEFINE q == Current(k)
  <1>1. Types /\ Serving(k)
    BY DEF IInv
  <1>2. /\ conn[k].pc = "access" /\ conn[k].todo # <<>> /\ k[2] = REGISTER
        /\ ErrorOf(REGISTER, q) = 0 /\ m_mutex' = NoOwner
        /\ conn' = [conn EXCEPT ![k].m_out_buffer = Append(@, ReplyNow(k)), ![k].pc = "return"]
        /\ answered' = Answered(k)
        /\ UNCHANGED client /\ UNCHANGED <<requests, replies, registered>>
    BY <1>1 DEF Access, Unlock, Serving, wire, Current
  <1>3. Runs(k)
    BY <1>1, <1>2, ReplyNowIs
  <1>4. /\ Grows /\ \A s \in DOMAIN allService' : allService'[s] \in Seq(Seq(Byte))
        /\ IsRegistration(q) =>
             ServiceAndAddress(q)[2] \in Range(Addresses(allService', ServiceAndAddress(q)[1]))
    <2>1. CASE IsRegistration(q)
      <3>1. allService' = Registered(allService, ServiceAndAddress(q)[1], ServiceAndAddress(q)[2])
        BY <2>1 DEF Access
      <3>2. ServiceAndAddress(q)[2] \in Seq(Byte)
        BY <1>2, <2>1, NoError, RegistrationTyped DEF ServiceAddress
      <3> QED
        BY <1>1, <3>1, <3>2, TableGrows
    <2>2. CASE ~IsRegistration(q)
      <3>1. allService' =
              [s \in DOMAIN allService \cup {targetservicename(Message(q))} |-> Addresses(allService, s)]
        BY <2>2 DEF Access
      <3> QED
        BY <1>1, <2>2, <3>1, EntryMade
    <2> QED
      BY <2>1, <2>2
  <1>5. conn[k].todo \in Seq(TinyPBProtocol) /\ conn[k] \in ConnType
    BY <1>1, ConnectionTypes
  <1>6. conn' = [conn EXCEPT ![k].m_out_buffer = Append(@, ReplyNow(k)),
                             ![k].todo = conn[k].todo, ![k].pc = "return"]
    <2> DEFINE sent == Append(conn[k].m_out_buffer, ReplyNow(k))
    <2>1. conn' = [conn EXCEPT ![k] = [conn[k] EXCEPT !.m_out_buffer = sent, !.pc = "return"]]
      BY <1>1, <1>2 DEF Types, ServerTypes
    <2> HIDE DEF sent
    <2>2. [conn[k] EXCEPT !.m_out_buffer = sent, !.pc = "return"]
            = [conn[k] EXCEPT !.m_out_buffer = sent, !.todo = conn[k].todo, !.pc = "return"]
      BY <1>5 DEF ConnType
    <2>3. conn' = [conn EXCEPT ![k] = [conn[k] EXCEPT !.m_out_buffer = sent,
                                                      !.todo = conn[k].todo, !.pc = "return"]]
      BY <2>1, <2>2
    <2> QED
      BY <1>1, <2>3 DEF Types, ServerTypes, sent
  <1> QED
    BY <1>2, <1>3, <1>4, <1>5, <1>6, RepliedStep

LEMMA ServerWritesStep ==
  ASSUME IInv, NEW k \in Connection, ServerWrites(k) PROVE IInv'
  <1> DEFINE c == k[1]
             sent == conn[k].m_out_buffer
             lost == Own(c) # k \/ channel[c].replaced
  <1>1. Types /\ c \in Caller /\ CallerInv(c)
    BY DEF IInv, Connection
  <1>2. /\ conn[k].pc = "excute" /\ conn' = [conn EXCEPT ![k].pc = "read"]
        /\ replies' = [replies EXCEPT ![k] = IF lost THEN @ ELSE @ \o sent]
        /\ UNCHANGED client /\ UNCHANGED <<m_mutex, answered, allService, requests, registered>>
    BY DEF ServerWrites
  <1>3. /\ conn[k] \in ConnType /\ replies[k] \in Seq(TinyPBProtocol) /\ sent \in Seq(TinyPBProtocol)
        /\ replies[k] \o sent \in Seq(TinyPBProtocol)
        /\ Range(replies[k] \o sent) = Range(replies[k]) \cup Range(sent)
    BY <1>1, ConnectionTypes, RangeConcatenation
  <1>4. /\ conn'[k] \in ConnType /\ conn'[k].pc = "read" /\ conn'[k].todo = conn[k].todo
        /\ conn'[k].m_out_buffer = sent
    BY <1>1, <1>2, <1>3 DEF Types, ServerTypes, ConnType
  <1>0. Own(c) # k => lost
    OBVIOUS
  <1> HIDE DEF sent, lost
  <1>5. /\ replies'[k] \in Seq(TinyPBProtocol)
        /\ Range(replies'[k]) \subseteq Range(replies[k]) \cup Range(sent)
        /\ lost => replies'[k] = replies[k]
    BY <1>1, <1>2, <1>3 DEF Types, WireTypes
  <1>6. Types'
    <2>1. conn' \in [Connection -> ConnType]
      BY <1>1, <1>2, <1>4 DEF Types, ServerTypes
    <2>2. replies' \in [Connection -> Seq(TinyPBProtocol)]
      BY <1>1, <1>2, <1>5 DEF Types, WireTypes
    <2> QED
      BY <1>1, <1>2, <2>1, <2>2 DEF Types, ClientTypes, ServerTypes, WireTypes, client, ids
  <1>7. Grows
    BY <1>1, <1>2, TableStays
  <1>8. \A d \in Connection \ {k} : SameWire(d)
    BY <1>1, <1>2 DEF SameWire, Types, ServerTypes, WireTypes
  <1>9. Serving(k)'
    BY <1>4 DEF Serving
  <1>10. ASSUME Chan(k) = To(c) PROVE RequestsSent(c)' /\ AnsweredSent(c)' /\ RepliesSound(c)'
    <2>1. SameClient(c)
      BY <1>2 DEF client, SameClient
    <2>2. RequestsSent(c)'
      <3>1. \A j \in Connection : Chan(j) = To(c) =>
              /\ Range(requests'[j]) \subseteq Range(requests[j]) \cup Sent(c)
              /\ Range(conn'[j].todo) \subseteq Range(conn[j].todo)
        BY <1>2, <1>4, <1>8 DEF SameWire
      <3> QED
        BY <1>1, <2>1, <3>1, SameFields, RequestsStay DEF CallerInv
    <2>3. AnsweredSent(c)'
      BY <1>1, <1>2, <2>1, SameFields, AnsweredStay DEF CallerInv
    <2>4. RepliesSound(c)'
      <3>1. Replies(c)' \subseteq Replies(c)
        <4>1. CASE Own(c) = k
          BY <1>4, <1>5, <2>1, <4>1, SameFields DEF Replies, sent
        <4>2. CASE Own(c) # k
          <5>1. SameWire(Own(c))
            BY <1>1, <1>8, <4>2, CallerTypes
          <5>2. Replies(c)' = Replies(c)
            BY <2>1, <5>1, SameFields DEF Replies, SameWire
          <5> QED
            BY <5>2
        <4> QED
          BY <4>1, <4>2
      <3>2. Asking(c)' = Asking(c) /\ call'[c] = call[c]
        BY <2>1 DEF SameClient, Asking
      <3>3. (\A id \in DOMAIN channel[c].m_reply_datas : channel[c].m_reply_datas[id].msg_id = id)'
        BY <1>1, <2>1, SameFields, Zenon DEF CallerInv, RepliesSound
      <3> QED
        BY <1>1, <1>2, <1>7, <2>1, <3>1, <3>2, <3>3, SameFields, RepliesStay DEF CallerInv
    <2> QED
      BY <2>2, <2>3, <2>4
  <1> QED
    BY <1>2, <1>4, <1>6, <1>7, <1>8, <1>9, <1>10, ServerStep

-----------------------------------------------------------------------------
(* The invariant.                                                          *)

LEMMA InitTypes == Init => Types
  <1> SUFFICES ASSUME Init PROVE Types
    OBVIOUS
  <1>1. <<>> \in Seq(Byte) /\ <<>> \in Seq(Item) /\ <<>> \in Seq(TinyPBProtocol)
    OBVIOUS
  <1>2. NoCall \in CallType
    BY NoCallType
  <1>3. NewChannel(REGISTER) \in ChannelType
    BY NewChannelFields DEF Peer
  <1>4. ClientTypes
    BY <1>2, <1>3, IdAssumption DEF Init, ClientTypes
  <1>5. [pc |-> "read", todo |-> <<>>, m_out_buffer |-> <<>>] \in ConnType
    BY <1>1 DEF ConnType
  <1>6. ServerTypes
    BY <1>5 DEF Init, ServerTypes, NoReplies
  <1>7. WireTypes
    BY <1>1 DEF Init, WireTypes
  <1> QED
    BY <1>4, <1>6, <1>7 DEF Types

LEMMA InitIInv == Init => IInv
  <1> SUFFICES ASSUME Init PROVE IInv
    OBVIOUS
  <1>1. Types
    BY InitTypes
  <1>2. /\ \A c \in Caller : /\ pc[c] = "idle" /\ channel[c] = NewChannel(REGISTER)
                             /\ call[c] = NoCall /\ response[c] = <<>>
        /\ \A k \in Connection : Idle(k)
        /\ \A k \in Caller \X Peer : answered[k] = {}
        /\ registered = {}
    BY DEF Init, Idle
  <1>3. \A k \in Connection : /\ conn[k].pc = "read" /\ conn[k].todo = <<>>
                              /\ conn[k].m_out_buffer = <<>>
                              /\ requests[k] = <<>> /\ replies[k] = <<>>
    BY <1>2 DEF Idle
  <1>4. \A k \in Connection : Serving(k)
    BY <1>3 DEF Serving
  <1>5. NoCall.known = {}
    BY DEF NoCall
  <1>6. RegisteredHeld
    BY <1>2, <1>5 DEF RegisteredHeld
  <1>7. ASSUME NEW c \in Caller PROVE Bounded(c)
    <2>1. channel[c].calls = 0 /\ To(c) \in Caller \X Peer
      BY <1>1, <1>2, CallerTypes, NewChannelFields DEF Peer
    <2>2. Requests[To(c)] \in Seq(SUBSET Request)
      BY <2>1, RequestsAssumption
    <2>3. ResponsePrototype(NoCall.request) = <<>>
      <3>1. NoCall.request.method_name = <<>>
        BY DEF NoCall
      <3>2. \A a, b : FullName(<<a>>, <<b>>) # <<>>
        <4> TAKE a, b
        <4> DEFINE S == {a, b, DOT}
        <4>1. <<a>> \in Seq(S) /\ <<b>> \in Seq(S) /\ <<DOT>> \in Seq(S)
          OBVIOUS
        <4>2. Len(FullName(<<a>>, <<b>>)) = 3
          BY <4>1, ConcatProperties DEF FullName
        <4> QED
          BY <4>2
      <3>3. ~IsLookup(NoCall.request) /\ ~IsRegistration(NoCall.request) /\ ~IsOrder(NoCall.request)
        BY <3>1, <3>2 DEF IsLookup, IsRegistration, IsOrder, REGISTER, GET_TARGET_ADDR,
                          REGISTER_SERVER, ORDER, MAKE_ORDER
      <3> QED
        BY <3>3, Zenon DEF ResponsePrototype
    <2> QED
      BY <1>2, <2>1, <2>2, <2>3 DEF Bounded
  <1>8. ASSUME NEW c \in Caller PROVE CallerInv(c)
    <2>1. Own(c) \in Connection /\ To(c) \in Caller \X Peer /\ <<c, ORDER>> \in Caller \X Peer
      BY <1>1, CallerTypes DEF Peer
    <2>2. /\ Sent(c) = {} /\ DOMAIN channel[c].m_reply_datas = {}
          /\ Range(channel[c].m_reply_datas) = {}
      BY <1>2, NewChannelFields DEF Sent, Peer
    <2>3. /\ \A k \in Connection : /\ Range(requests[k]) = {} /\ Range(replies[k]) = {}
                                   /\ Range(conn[k].todo) = {} /\ Range(conn[k].m_out_buffer) = {}
          /\ answered[To(c)] = {} /\ answered[<<c, ORDER>>] = {}
      BY <1>2, <1>3, <2>1, RangeEmpty
    <2>4. RequestsSent(c) /\ AnsweredSent(c)
      BY <2>2, <2>3 DEF RequestsSent, AnsweredSent
    <2>5. RepliesSound(c)
      BY <2>1, <2>2, <2>3 DEF RepliesSound, Replies
    <2>6. Unopened(c)
      BY <1>2, <2>3, Zenon DEF Unopened
    <2>7. AtRegistry(c) /\ Pending(c) /\ Outcome(c)
      BY <1>2 DEF AtRegistry, Pending, Asking, Outcome
    <2> QED
      BY <2>4, <2>5, <2>6, <2>7 DEF CallerInv
  <1> QED
    BY <1>1, <1>4, <1>6, <1>7, <1>8 DEF IInv

LEMMA StutterStep == ASSUME IInv, UNCHANGED vars PROVE IInv'
  <1>1. /\ Types /\ RegisteredHeld /\ \A d \in Caller : Bounded(d) /\ CallerInv(d)
        /\ \A k \in Connection : Serving(k)
    BY DEF IInv
  <1>2. /\ UNCHANGED <<pc, channel, call, response, m_service_cache, t_msg_id_no, t_max_msg_id_no>>
        /\ UNCHANGED <<m_mutex, conn, answered, allService, requests, replies, registered>>
    BY DEF vars, client, ids, server, wire
  <1>3. Types'
    BY <1>1, <1>2 DEF Types, ClientTypes, ServerTypes, WireTypes
  <1>4. Grows
    BY <1>1, <1>2, TableStays
  <1>5. \A d \in Caller : SameClient(d) /\ SameServer(d)
    BY <1>2 DEF SameClient, SameServer, SameWire
  <1>6. \A d \in Caller : CallerInv(d)'
    BY <1>1, <1>4, <1>5, OthersStay
  <1>7. \A d \in Caller : Bounded(d)'
    BY <1>1, <1>2, Zenon DEF Bounded, To
  <1>8. \A k \in Connection : Serving(k)'
    BY <1>1, <1>2, Zenon DEF Serving
  <1>9. RegisteredHeld'
    BY <1>1, <1>2, <1>4, RegisteredStays
  <1> QED
    BY <1>3, <1>6, <1>7, <1>8, <1>9 DEF IInv

LEMMA Invariance == IInv /\ [Next]_vars => IInv'
  <1> SUFFICES ASSUME IInv, [Next]_vars PROVE IInv'
    OBVIOUS
  <1>1. ASSUME NEW c \in Caller,
               \/ InitChannel(c) \/ CallMethod(c) \/ CallUncontrolled(c)
               \/ Connect(c) \/ ConnectFails(c) \/ PeerCloses(c) \/ Timeout(c)
               \/ Receive(c) \/ AnswerError(c) \/ Answer(c)
               \/ UpdateService(c) \/ Pick(c) \/ OpenChannel(c) \/ GoOn(c)
        PROVE  IInv'
    BY <1>1, InitChannelStep, CallMethodStep, CallUncontrolledStep, ConnectStep, ConnectFailsStep,
       PeerClosesStep, TimeoutStep, ReceiveStep, AnswerErrorStep, AnswerStep, UpdateServiceStep, PickStep, OpenChannelStep,
       GoOnStep, Zenon
  <1>2. ASSUME NEW k \in Connection,
               \/ ServerReads(k) \/ ExcuteError(k) \/ ExcuteOrder(k) \/ ExcuteMethod(k)
               \/ Access(k) \/ MethodReturns(k) \/ ServerWrites(k)
        PROVE  IInv'
    BY <1>2, ServerReadsStep, ExcuteErrorStep, ExcuteOrderStep, ExcuteMethodStep, AccessStep,
       MethodReturnsStep, ServerWritesStep, Zenon
  <1>3. CASE UNCHANGED vars
    BY <1>3, StutterStep
  <1> QED
    BY <1>1, <1>2, <1>3, Zenon DEF Next

THEOREM IInvHolds == Spec => []IInv
  BY InitIInv, Invariance, PTL DEF Spec

(* Each caller's, connection's and call's parts have their types, a        *)
(* channel makes no more calls than it may, and a response has the fields  *)
(* of the method that was called.                                          *)
THEOREM TypeCorrect == Spec => []TypeOK
  <1>1. IInv => TypeOK
    <2> SUFFICES ASSUME IInv PROVE TypeOK
      OBVIOUS
    <2>1. Types
      BY DEF IInv
    <2>2. /\ m_mutex \in Connection \cup {NoOwner}
          /\ pc \in [Caller -> {"idle", "connect", "wait", "returned", "pick", "picked", "undefined"}]
      BY <2>1 DEF Types, ClientTypes, ServerTypes
    <2>3. ASSUME NEW k \in Connection PROVE conn[k].pc \in {"read", "excute", "access", "return"}
      BY <2>1, ConnectionTypes DEF ConnType
    <2>4. ASSUME NEW c \in Caller
          PROVE  /\ channel[c].peer \in Peer /\ channel[c].socket \in Sockets
                 /\ channel[c].calls \in 0 .. Len(Requests[To(c)])
                 /\ call[c].error_code \in Nat /\ call[c].done \in 0 .. 1
                 /\ Len(response[c]) = Len(ResponsePrototype(call[c].request))
                 /\ call[c].id \in Seq(0 .. 255)
      <3>1. /\ channel[c] \in ChannelType /\ call[c] \in CallType /\ channel[c].peer \in Peer
            /\ channel[c].socket \in Sockets /\ To(c) \in Caller \X Peer
        BY <2>1, CallerTypes
      <3>2. /\ channel[c].calls \in Nat /\ channel[c].calls <= Len(Requests[To(c)])
            /\ Len(response[c]) = Len(ResponsePrototype(call[c].request))
        BY <3>1 DEF IInv, Bounded, ChannelType
      <3>3. Len(Requests[To(c)]) \in Nat
        <4>1. Requests[To(c)] \in Seq(SUBSET Request)
          BY <3>1, RequestsAssumption
        <4> QED
          BY <4>1
      <3>4. /\ call[c].error_code \in Nat /\ call[c].done \in 0 .. 1
            /\ call[c].id \in Seq(0 .. 255)
        BY <3>1 DEF CallType, Byte
      <3>5. channel[c].calls \in 0 .. Len(Requests[To(c)])
        BY <3>2, <3>3
      <3> QED
        BY <3>1, <3>2, <3>4, <3>5
    <2> QED
      BY <2>2, <2>3, <2>4, Zenon DEF TypeOK
  <1> QED
    BY <1>1, IInvHolds, PTL

(* A reply on its way back has the id of a request that its own channel    *)
(* sent, unless one of these ids has a zero byte: whatever requests are    *)
(* sent again, and whatever the server does with them, in any order.       *)
THEOREM RepliesFindCalls == Spec => []ReplyFindsCall
  <1>1. IInv => ReplyFindsCall
    <2> SUFFICES ASSUME IInv, NEW c \in Caller, NEW i \in DOMAIN replies[Own(c)]
                 PROVE  \/ replies[Own(c)][i].msg_id \in channel[c].ids
                        \/ \E id \in channel[c].ids : 0 \in Range(id)
      BY DEF ReplyFindsCall
    <2> DEFINE p == replies[Own(c)][i]
    <2>1. Types /\ RequestsSent(c) /\ RepliesSound(c)
      BY DEF IInv, CallerInv
    <2>2. p \in Replies(c)
      BY DEF Replies, Range
    <2>3. PICK q \in Sent(c) : p.msg_id = CString(q.msg_id)
      <3>1. SoundReply(c, p)
        BY <2>1, <2>2 DEF RepliesSound
      <3> QED
        BY <3>1 DEF SoundReply, Answers
    <2>4. q.msg_id \in channel[c].ids
      BY <2>1 DEF RequestsSent
    <2>5. CASE \A k \in DOMAIN q.msg_id : q.msg_id[k] # 0
      BY <2>3, <2>4, <2>5, CStringWhole
    <2>6. CASE \E k \in DOMAIN q.msg_id : q.msg_id[k] = 0
      BY <2>4, <2>6 DEF Range
    <2> QED
      BY <2>5, <2>6
  <1> QED
    BY <1>1, IInvHolds, PTL

(* A call with a controller has one outcome, whatever else is called at    *)
(* the time, however often a connection takes the place of one that the    *)
(* peer has closed, and whatever is then sent again: its closure ran once  *)
(* and its method has run; or there is an error and no closure, and when   *)
(* that is an error of finding or reading the request, or the channel's,   *)
(* the method has not run, neither for this request nor for one that the   *)
(* same id stands for; an error of serialising leaves that open, as the    *)
(* code does, to whether the request was sent.                             *)
THEOREM CallsHaveOneOutcome == Spec => []CallHasOneOutcome
  <1>1. IInv => CallHasOneOutcome
    <2> SUFFICES ASSUME IInv, NEW c \in Caller, pc[c] = "returned", call[c].fresh
                 PROVE  LET k == call[c]
                            ran == k.id \in answered[To(c)]
                        IN  /\ k.error_code = 0 /\ k.done = 0 <=> ~k.controlled
                            /\ k.error_code # 0 => k.done = 0
                            /\ k.done = 1 => ran
                            /\ k.error_code \in ServerErrors \cup {ERROR_RPC_CHANNEL_INIT} => ~ran
                            /\ k.error_code = ERROR_FAILED_SERIALIZE =>
                                 (ran <=> k.id \in channel[c].ids)
      BY Zenon DEF CallHasOneOutcome
    <2> DEFINE k == call[c]
               ran == k.id \in answered[To(c)]
    <2>1. Types /\ RequestsSent(c) /\ AnsweredSent(c) /\ Ended(c)
      BY DEF IInv, CallerInv, Outcome
    <2>2. ASSUME ran
          PROVE  \E q \in Sent(c) : /\ CString(q.msg_id) = CString(k.id)
                                    /\ ErrorOf(channel[c].peer, q) = 0
      <3>1. PICK q \in Sent(c) : k.id = CString(q.msg_id) /\ ErrorOf(channel[c].peer, q) = 0
        BY <2>1, <2>2 DEF AnsweredSent
      <3>2. q.msg_id \in Seq(Byte)
        BY <2>1, CallerTypes DEF TinyPBProtocol
      <3>3. CString(q.msg_id) = CString(k.id)
        BY <3>1, <3>2, CStringTwice
      <3> QED
        BY <3>1, <3>3
    <2>3. ASSUME k.error_code \in ServerErrors PROVE ~ran
      <3>1. Unique(c) /\ ErrorOf(channel[c].peer, k.request) # 0
        BY <2>1, <2>3, Zenon DEF Ended
      <3>2. \A q \in Sent(c) : CString(q.msg_id) = CString(k.id) =>
              ErrorOf(channel[c].peer, q) # 0
        BY <3>1, SameRequest DEF Unique
      <3> QED
        BY <2>2, <3>2
    <2>4. Unsent(c) => ~ran /\ k.id \notin channel[c].ids
      BY <2>2 DEF Unsent
    <2>5. k.error_code = ERROR_RPC_CHANNEL_INIT => ~ran
      BY <2>1, <2>4, Zenon DEF Ended
    <2>6. k.error_code = ERROR_FAILED_SERIALIZE => (ran <=> k.id \in channel[c].ids)
      BY <2>1, <2>4, Zenon DEF Ended
    <2>7. /\ k.error_code = 0 /\ k.done = 0 <=> ~k.controlled
          /\ k.error_code # 0 => k.done = 0
      <3>1. /\ ~k.controlled => k.error_code = 0 /\ k.done = 0
            /\ k.error_code # 0 => k.done = 0
            /\ k.controlled /\ k.error_code = 0 => k.done = 1
        BY <2>1, Zenon DEF Ended
      <3>2. 0 # 1
        OBVIOUS
      <3> QED
        BY <3>1, <3>2
    <2>8. k.done = 1 => ran
      <3>1. k.done = 1 => k.controlled /\ k.error_code = 0
        BY <2>7
      <3>2. k.controlled /\ k.error_code = 0 => ran
        BY <2>1, Zenon DEF Ended
      <3> QED
        BY <3>1, <3>2
    <2> QED
      BY <2>3, <2>5, <2>6, <2>7, <2>8
  <1> QED
    BY <1>1, IInvHolds, PTL

(* A call whose closure ran has no error. *)
LEMMA EndedWell ==
  ASSUME IInv, NEW c \in Caller, pc[c] = "returned", call[c].fresh, call[c].done = 1
  PROVE  /\ call[c].controlled /\ call[c].error_code = 0 /\ ResponseTold(c)
         /\ IsOrder(call[c].request) => ErrorOf(channel[c].peer, call[c].request) = 0
  <1>1. Ended(c)
    BY DEF IInv, CallerInv, Outcome
  <1>2. call[c].done # 0
    OBVIOUS
  <1>3. call[c].controlled /\ call[c].error_code = 0
    BY <1>1, <1>2, Zenon DEF Ended
  <1> QED
    BY <1>1, <1>3, Zenon DEF Ended

(* A lookup whose closure ran gives a beginning of the list of addresses   *)
(* of its service, with all that any caller knew to be registered when the *)
(* lookup began.                                                           *)
THEOREM LookupsAreCurrent == Spec => []LookupIsCurrent
  <1>1. IInv => LookupIsCurrent
    <2> SUFFICES ASSUME IInv, NEW c \in Caller, pc[c] = "returned", IsLookup(call[c].request),
                        call[c].fresh, call[c].done = 1
                 PROVE  LET k == call[c]
                            target == targetservicename(Message(k.request))
                            found == targetserviceipandport(response[c])
                        IN  /\ IsPrefix(found, Addresses(allService, target))
                            /\ \A r \in k.known : r[1] = target => r[2] \in Range(found)
      BY Zenon DEF LookupIsCurrent
    <2>1. ResponseTold(c)
      BY EndedWell
    <2> QED
      BY <2>1, Zenon DEF ResponseTold, Target
  <1> QED
    BY <1>1, IInvHolds, PTL

(* An order whose closure ran has been told an order id, if its own price  *)
(* is 10 or more, and else a refusal.                                      *)
THEOREM OrdersAreTheirOwn == Spec => []OrderIsItsOwn
  <1>1. IInv => OrderIsItsOwn
    <2> SUFFICES ASSUME IInv, NEW c \in Caller, pc[c] = "returned", IsOrder(call[c].request),
                        call[c].fresh, call[c].done = 1
                 PROVE  LET k == call[c]
                            placed == price(Message(k.request)) >= 10
                        IN  /\ placed <=> ret_code(response[c]) = 0
                            /\ placed <=> order_id(response[c]) # <<>>
      BY Zenon DEF OrderIsItsOwn
    <2> DEFINE q == call[c].request
    <2>1. ResponseTold(c) /\ ErrorOf(channel[c].peer, q) = 0
      BY EndedWell
    <2>2. response[c] = ParseFromString(makeOrderResponse, OrderBody(q))
      BY <2>1 DEF ResponseTold
    <2>3. q.pb_data \in Bodies
      BY <2>1, NoError
    <2>4. Message(q) = Order(q)
      <3>1. RequestPrototype(q) = makeOrderRequest
        BY NamesOf, Zenon DEF RequestPrototype
      <3> QED
        BY <3>1, Zenon DEF Message, Order
    <2> QED
      BY <2>2, <2>3, <2>4, OrderAnswer
  <1> QED
    BY <1>1, IInvHolds, PTL
=============================================================================
