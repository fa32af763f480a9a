----------------------------- MODULE TinyPBCoder -----------------------------
(***************************************************************************)
(* rocket::TinyPBCoder (rocket/net/coder/tinypb_coder.cpp): messages as    *)
(* packages of bytes in a TcpBuffer.                                       *)
(*                                                                         *)
(*   PB_START  pk_len  id_len id  name_len name  err_code  info_len info   *)
(*   data  check_sum  PB_END                                               *)
(*                                                                         *)
(* decode is given byte by byte what it finds in the buffer, the bytes     *)
(* past the write index included: a package that came in part has its      *)
(* length read from there.  What is read outside of the vector is beyond,  *)
(* any byte.                                                               *)
(***************************************************************************)
EXTENDS TcpBuffer

ASSUME CoderAssumption == Byte = 0 .. 255

PB_START == 2
PB_END   == 3

(* htonl of an int32_t, and the same bytes read back where it says so. *)
NetBytes(n) ==
  <<(n \div 16777216) % 256, (n \div 65536) % 256, (n \div 256) % 256, n % 256>>

At(b, i, beyond) == IF i \in 0 .. Len(b.m_buffer) - 1 THEN b.m_buffer[i + 1] ELSE beyond

Signed(byte) == IF byte < 128 THEN byte ELSE byte - 256

getInt32FromNetByte(b, i, beyond) ==
  ((Signed(At(b, i, beyond)) * 256 + At(b, i + 1, beyond)) * 256
     + At(b, i + 2, beyond)) * 256 + At(b, i + 3, beyond)

DefaultMsgId == [k \in 1 .. 9 |-> 48 + k]   \* "123456789"

MsgId(msg) == IF msg.msg_id = <<>> THEN DefaultMsgId ELSE msg.msg_id

PkLen(msg) ==
  2 + 24 + Len(MsgId(msg)) + Len(msg.method_name) + Len(msg.err_info) + Len(msg.pb_data)

Field(bytes) == NetBytes(Len(bytes)) \o bytes

encodeTinyPB(msg) ==
  <<PB_START>> \o NetBytes(PkLen(msg)) \o Field(MsgId(msg)) \o Field(msg.method_name)
    \o NetBytes(msg.err_code) \o Field(msg.err_info)
    \o msg.pb_data \o NetBytes(1) \o <<PB_END>>

(* One message of encode's loop. *)
encode(msg, b) == writeToBuffer(b, encodeTinyPB(msg))
-----------------------------------------------------------------------------
EndIndex(b, i, beyond) == i + getInt32FromNetByte(b, i + 1, beyond) - 1

(* What the loop over the buffer takes for a package, at i. *)
PackageAt(b, i, beyond) ==
  /\ b.m_buffer[i + 1] = PB_START
  /\ i + 1 < b.m_write_index
  /\ EndIndex(b, i, beyond) < b.m_write_index
  /\ At(b, EndIndex(b, i, beyond), beyond) = PB_END

Bytes(b, i, n, beyond) == [k \in 1 .. n |-> At(b, i + k - 1, beyond)]

(* A std::string made from a char array ends at the first zero. *)
CString(bytes) ==
  LET zeros == {k \in DOMAIN bytes : bytes[k] = 0}
  IN  IF zeros = {} THEN bytes
      ELSE SubSeq(bytes, 1, (CHOOSE k \in zeros : \A z \in zeros : k <= z) - 1)

(* memcpy stays in the array of that size, and so does the string made of  *)
(* it: a full one ends only with a zero among what was copied.             *)
FitsArray(b, i, len, size, beyond) ==
  /\ len \in 0 .. size
  /\ len = size => \E k \in 0 .. size - 1 : At(b, i + k, beyond) = 0

(* The fields of the package from start to end.  The checks are made in    *)
(* this order, and drop the message; without those in assumed an array is  *)
(* left, or a string has a negative length.                                *)
Parse(b, start, end, beyond) ==
  LET IntAt(i)    == getInt32FromNetByte(b, i, beyond)
      id_len_at   == start + 5
      id_len      == IntAt(id_len_at)
      name_len_at == id_len_at + 4 + id_len
      name_len    == IntAt(name_len_at)
      err_code_at == name_len_at + 4 + name_len
      info_len_at == err_code_at + 4
      info_len    == IntAt(info_len_at)
      data_len    == IntAt(start + 1) - name_len - id_len - info_len - 2 - 24
      checked     == <<id_len_at < end, name_len_at < end,
                       err_code_at < end, info_len_at < end>>
      assumed     == <<FitsArray(b, id_len_at + 4, id_len, 100, beyond),
                       FitsArray(b, name_len_at + 4, name_len, 512, beyond), TRUE,
                       FitsArray(b, info_len_at + 4, info_len, 512, beyond) /\ data_len >= 0>>
      failed      == {k \in 1 .. 4 : ~(checked[k] /\ assumed[k])}
      first       == CHOOSE k \in failed : \A f \in failed : k <= f
  IN  IF failed # {}
      THEN [kind |-> IF checked[first] THEN "undefined" ELSE "dropped", message |-> <<>>]
      ELSE [kind |-> "message",
            message |->
              [msg_id      |-> CString(Bytes(b, id_len_at + 4, id_len, beyond)),
               method_name |-> CString(Bytes(b, name_len_at + 4, name_len, beyond)),
               err_code    |-> IntAt(err_code_at),
               err_info    |-> CString(Bytes(b, info_len_at + 4, info_len, beyond)),
               pb_data     |-> Bytes(b, info_len_at + 4 + info_len, data_len, beyond)]]

(* Where the loop stops: at the first of them. *)
FirstPackageAt(b, i, beyond) ==
  /\ i \in b.m_read_index .. b.m_write_index - 1
  /\ PackageAt(b, i, beyond)
  /\ \A k \in b.m_read_index .. i - 1 : ~PackageAt(b, k, beyond)

NoPackage(b, beyond) ==
  \A i \in b.m_read_index .. b.m_write_index - 1 : ~PackageAt(b, i, beyond)

(* The read index moves by the length of the package, wherever in the      *)
(* buffer that was found.                                                  *)
Consumed(b, start, end) == moveReadIndex(b, end - start + 1)
=============================================================================
