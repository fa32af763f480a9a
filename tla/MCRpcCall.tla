----------------------------- MODULE MCRpcCall ------------------------------
(* RpcCall for TLC: two callers register a service, one of them looks it up *)
(* and places an order that is accepted and one that is refused.            *)
EXTENDS RpcCall, TLC

CONSTANTS provider, consumer

(* registerToRegistry, fun1 and fun2 of the programs. *)
Registration(address) ==
  [method_name |-> FullName(REGISTER, REGISTER_SERVER),
   pb_data |-> InternalSerialize(RegisterServerReq,
     set_serviceipandport(set_servicename(Clear(RegisterServerReq), ORDER), address))]
Lookup ==
  [method_name |-> FullName(REGISTER, GET_TARGET_ADDR),
   pb_data |-> InternalSerialize(GetTargetAddrReq,
     set_targetservicename(set_sourceservicename(Clear(GetTargetAddrReq), <<67>>), ORDER))]
Order(value) ==
  [method_name |-> FullName(ORDER, MAKE_ORDER),
   pb_data |-> InternalSerialize(makeOrderRequest,
     set_goods(set_price(Clear(makeOrderRequest), value), <<97>>))]

(* A registration that is longer than a message may be, and one that does   *)
(* not parse.                                                               *)
Longest == Registration(<<2, 2, 2, 2>>)
Refusable ==
  [method_name |-> FullName(REGISTER, REGISTER_SERVER), pb_data |-> <<<<2, Refused, <<>>>>>>]

(* The consumer's longer address, which a second write registers again,     *)
(* makes an answer that is too long.                                        *)
MCRequests ==
  (<<provider, REGISTER>> :> <<{Registration(<<1>>)}>>) @@
  (<<provider, ORDER>> :> <<>>) @@
  (<<consumer, REGISTER>> :>
     <<{Registration(<<2>>), Registration(<<2, 2, 2>>), Longest, Refusable}, {Lookup}>>) @@
  (<<consumer, ORDER>> :> <<{Order(100)}, {Order(5)}>>)

(* An id that the consumer may use for both of its orders, one from        *)
(* /dev/urandom, and the 21st id of a thread whose first ended in 9: the    *)
(* third from there ends in a zero byte.                                    *)
MCUserIds ==
  [k \in {provider, consumer} \X Peer |-> IF k = <<consumer, ORDER>> THEN {<<57, 57>>} ELSE {}]
MCRandomIds == {[k \in 1 .. 20 |-> 8]}
MCEarlierIds == (provider :> <<>>) @@ (consumer :> Append([k \in 1 .. 19 |-> 49], 199))

(* An order may be sent on a second connection. *)
MCClosing == {<<consumer, ORDER>>}
=============================================================================
