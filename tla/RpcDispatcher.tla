---------------------------- MODULE RpcDispatcher ----------------------------
(***************************************************************************)
(* rocket::RpcDispatcher (rocket/net/rpc/rpc_dispatcher.cpp): the reply to *)
(* a request, found by its method's name "Service.method".  Names are      *)
(* sequences of bytes.  A service is a function from its methods' names, a *)
(* method a function from the pb_data it can deserialise to what becomes   *)
(* of its response: the pb_data, and whether it could be serialised.       *)
(***************************************************************************)
EXTENDS ErrorCode, Sequences

DOT == 46

(* m_service_map[service_name] = service: the last one registered stays. *)
registerService(m_service_map, service_name, service) ==
  [s \in DOMAIN m_service_map \cup {service_name} |->
     IF s = service_name THEN service ELSE m_service_map[s]]

(* The name is cut at its first dot, and fails without one. *)
Dots(full_name) == {i \in DOMAIN full_name : full_name[i] = DOT}
FirstDot(full_name) ==
  CHOOSE i \in Dots(full_name) : \A j \in Dots(full_name) : i <= j
ServiceName(full_name) == SubSeq(full_name, 1, FirstDot(full_name) - 1)
MethodName(full_name) == SubSeq(full_name, FirstDot(full_name) + 1, Len(full_name))

(* Mutant: a reply has a new id. *)
ReplyToNobody(request) ==
  [msg_id |-> <<0>>, method_name |-> request.method_name,
   err_code |-> 0, err_info |-> <<>>, pb_data |-> <<>>]

(* A reply has the id and the method of its request. *)
ReplyTo(request) == [msg_id |-> request.msg_id, method_name |-> request.method_name,
                     err_code |-> 0, err_info |-> <<>>, pb_data |-> <<>>]

(* err_info says what err_code says: of its text only a letter is kept. *)
setTinyPBError(reply, err_code) ==
  [reply EXCEPT !.err_code = err_code, !.err_info = <<69>>]

(* A request that names no method, or does not parse, is answered with    *)
(* the error; so is one whose method has run but whose response cannot be  *)
(* serialised.                                                             *)
dispatch(m_service_map, request) ==
  LET reply   == ReplyTo(request)
      service == m_service_map[ServiceName(request.method_name)]
      method  == service[MethodName(request.method_name)]
      rsp_msg == method[request.pb_data]
  IN  IF Dots(request.method_name) = {}
      THEN setTinyPBError(reply, ERROR_PARSE_SERVICE_NAME)
      ELSE IF ServiceName(request.method_name) \notin DOMAIN m_service_map
      THEN setTinyPBError(reply, ERROR_SERVICE_NOT_FOUND)
      ELSE IF MethodName(request.method_name) \notin DOMAIN service
      THEN setTinyPBError(reply, ERROR_METHOD_NOT_FOUND)
      ELSE IF request.pb_data \notin DOMAIN method
      THEN setTinyPBError(reply, ERROR_FAILED_DESERIALIZE)
      ELSE IF ~rsp_msg.serialised
      THEN setTinyPBError(reply, ERROR_FAILED_SERIALIZE)
      ELSE [reply EXCEPT !.pb_data = rsp_msg.pb_data]

(* The errors of a request that no method was called for. *)
ServerErrors == {ERROR_SERVICE_NOT_FOUND, ERROR_METHOD_NOT_FOUND,
                 ERROR_PARSE_SERVICE_NAME, ERROR_FAILED_DESERIALIZE}
=============================================================================
