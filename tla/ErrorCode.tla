------------------------------ MODULE ErrorCode ------------------------------
(***************************************************************************)
(* rocket/common/error_code.h: the codes that a reply or a controller      *)
(* carries.                                                                *)
(***************************************************************************)
EXTENDS Naturals

SYS_ERROR_PREFIX(xx) == 10000000 + xx

ERROR_PEER_CLOSED        == SYS_ERROR_PREFIX(0)
ERROR_FAILED_DESERIALIZE == SYS_ERROR_PREFIX(3)
ERROR_FAILED_SERIALIZE   == SYS_ERROR_PREFIX(4)
ERROR_RPC_CALL_TIMEOUT   == SYS_ERROR_PREFIX(7)
ERROR_SERVICE_NOT_FOUND  == SYS_ERROR_PREFIX(8)
ERROR_METHOD_NOT_FOUND   == SYS_ERROR_PREFIX(9)
ERROR_PARSE_SERVICE_NAME == SYS_ERROR_PREFIX(10)
ERROR_RPC_CHANNEL_INIT   == SYS_ERROR_PREFIX(11)
=============================================================================
