----------------------------- MODULE PbMessage ------------------------------
(***************************************************************************)
(* The messages of register_server.proto and order.proto, as the generated *)
(* code serialises, parses, clears and merges them.                        *)
(*                                                                         *)
(* A message is a sequence with the value of each field at its number; its *)
(* schema has the kinds of the fields.  pb_data is a sequence of items     *)
(* <<number, kind, value>>, one per occurrence of a field: tags, lengths   *)
(* and the bytes of values are left out.  An item of kind Refused stands   *)
(* for what makes the parser fail, such as a string that is not UTF-8.     *)
(***************************************************************************)
EXTENDS Integers, Sequences, SequencesExt

CONSTANT INT_MAX   \* the size from which on a message cannot be serialised

Refused == "refused"

Item ==
  (Nat \X {"int32"} \X Int) \cup (Nat \X {"string"} \X Seq(0 .. 255))
    \cup (Nat \X {Refused} \X {<<>>})

RegisterServerReq  == <<"string", "string">>              \* ServiceName, ServiceIPAndPort
RegisterServerResp == <<"int32", "string">>               \* ret_code, res_info
GetTargetAddrReq   == <<"string", "string">>              \* source and target service
GetTargetAddrResp  == <<"int32", "string", "repeated">>   \* ret_code, res_info, addresses
makeOrderRequest   == <<"int32", "string">>               \* price, goods
makeOrderResponse  == <<"int32", "string", "string">>     \* ret_code, res_info, order_id

DefaultValue(kind) == IF kind = "int32" THEN 0 ELSE <<>>

Clear(schema) == [f \in DOMAIN schema |-> DefaultValue(schema[f])]

(* Mutant: a number that is not positive is left out. *)
ItemsPositive(schema, m, f) ==
  IF schema[f] = "repeated"
  THEN [k \in DOMAIN m[f] |-> <<f, "string", m[f][k]>>]
  ELSE IF m[f] = DefaultValue(schema[f]) \/ (schema[f] = "int32" /\ m[f] < 0)
  THEN <<>> ELSE <<<<f, schema[f], m[f]>>>>

(* Fields in the order of their numbers, those with default values left    *)
(* out; a repeated field as one item per element.                          *)
Items(schema, m, f) ==
  IF schema[f] = "repeated"
  THEN [k \in DOMAIN m[f] |-> <<f, "string", m[f][k]>>]
  ELSE IF m[f] = DefaultValue(schema[f]) THEN <<>> ELSE <<<<f, schema[f], m[f]>>>>

(* No message here has more than three fields. *)
InternalSerialize(schema, m) ==
  Items(schema, m, 1) \o Items(schema, m, 2) \o
    (IF 3 \in DOMAIN schema THEN Items(schema, m, 3) ELSE <<>>)

(* A byte for the tag and the number, or one for each of a string. *)
ByteSizeLong(pb_data) ==
  FoldLeft(LAMBDA size, item : size + 1 + (IF item[2] = "string" THEN Len(item[3]) ELSE 0),
           0, pb_data)

Fits(pb_data) == ByteSizeLong(pb_data) <= INT_MAX

(* The string, unless the message is too long. *)
SerializeToString(schema, m) ==
  [serialised |-> Fits(InternalSerialize(schema, m)), pb_data |-> InternalSerialize(schema, m)]

(* The items of a field.  One of an unknown number or of another kind is   *)
(* kept with the unknown fields, which nobody reads.                       *)
ItemsOf(schema, f, pb_data) ==
  LET kind == IF schema[f] = "repeated" THEN "string" ELSE schema[f]
  IN  {k \in DOMAIN pb_data : pb_data[k][1] = f /\ pb_data[k][2] = kind}

(* A field keeps the last of its values; a repeated one adds them all, the *)
(* n-th of them being the one with n places up to its own.                 *)
InternalParse(schema, m, pb_data) ==
  [f \in DOMAIN schema |->
     LET items == ItemsOf(schema, f, pb_data)
         Nth(n) == CHOOSE k \in items : Cardinality({j \in items : j <= k}) = n
     IN  IF schema[f] = "repeated"
         THEN m[f] \o [n \in 1 .. Cardinality(items) |-> pb_data[Nth(n)][3]]
         ELSE IF items = {} THEN m[f] ELSE pb_data[Max(items)][3]]

Parses(pb_data) == \A k \in DOMAIN pb_data : pb_data[k][2] # Refused

(* ParseFromString: the message is cleared first.  Of data that does not   *)
(* parse it keeps what came before.                                        *)
ParseFromString(schema, pb_data) ==
  LET bad == {k \in DOMAIN pb_data : pb_data[k][2] = Refused}
      good == IF bad = {} THEN pb_data ELSE SubSeq(pb_data, 1, Min(bad) - 1)
  IN  InternalParse(schema, Clear(schema), good)
-----------------------------------------------------------------------------
(* The accessors of the fields. *)
servicename(m)      == m[1]
serviceipandport(m) == m[2]
set_servicename(m, value)      == [m EXCEPT ![1] = value]
set_serviceipandport(m, value) == [m EXCEPT ![2] = value]

targetservicename(m) == m[2]
set_sourceservicename(m, value) == [m EXCEPT ![1] = value]
set_targetservicename(m, value) == [m EXCEPT ![2] = value]

targetserviceipandport(m) == m[3]
(* One call for each of the values. *)
add_targetserviceipandport(m, values) == [m EXCEPT ![3] = @ \o values]

price(m) == m[1]
set_price(m, value) == [m EXCEPT ![1] = value]
set_goods(m, value) == [m EXCEPT ![2] = value]

ret_code(m) == m[1]
order_id(m) == m[3]
set_ret_code(m, value) == [m EXCEPT ![1] = value]
set_res_info(m, value) == [m EXCEPT ![2] = value]
set_order_id(m, value) == [m EXCEPT ![3] = value]
=============================================================================
