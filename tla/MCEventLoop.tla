----------------------------- MODULE MCEventLoop -----------------------------
(***************************************************************************)
(* Instances of EventLoop for TLC: the wakeup descriptor wfd, one socket,  *)
(* and what is asked for and what happens on the socket.                   *)
(***************************************************************************)
EXTENDS EventLoop

CONSTANTS wfd, sock

NoRequests  == {}
AddOrDelete == {<<sock, "ADD">>, <<sock, "DEL">>}

NoArrivals  == {}
InOnly      == {<<sock, "IN">>}
InError     == {<<sock, "IN">>, <<sock, "ERR">>}
=============================================================================
