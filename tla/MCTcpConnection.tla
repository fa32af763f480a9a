--------------------------- MODULE MCTcpConnection ---------------------------
(***************************************************************************)
(* TcpConnection with the bytes of the program and a stream of requests,   *)
(* one that succeeds and others that the dispatcher answers with an error. *)
(* MoreRequests are longer together than a buffer of 96 bytes, and no one  *)
(* of them is; FewRequests fit into the 128 bytes of the program.          *)
(***************************************************************************)
EXTENDS TcpConnection, TLC

AllBytes == 0 .. 255

(* "S.m" replies to 7, and to 2, 3 with what cannot be serialised; "T.m" is *)
(* not there, and "m" has no dot.                                           *)
Method == (<<7>> :> [serialised |-> TRUE, pb_data |-> <<8, 9, 10>>]) @@
          (<<2, 3>> :> [serialised |-> FALSE, pb_data |-> <<>>])
OneService == (<<83>> :> (<<109>> :> Method))

Request(id, method_name, pb_data) ==
  [msg_id |-> <<id>>, method_name |-> method_name, err_code |-> 0,
   err_info |-> <<>>, pb_data |-> pb_data]

FewRequests  == <<Request(49, <<83, 46, 109>>, <<7>>), Request(50, <<109>>, <<>>)>>
MoreRequests == <<Request(49, <<83, 46, 109>>, <<7>>), Request(50, <<84, 46, 109>>, <<>>),
                  Request(51, <<109>>, <<>>), Request(52, <<83, 46, 109>>, <<2, 3>>)>>

(* The premise of the theorem on framing, of the requests of a run. *)
ASSUME DecodableAssumption == Decodable
=============================================================================
