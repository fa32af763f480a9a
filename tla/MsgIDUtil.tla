----------------------------- MODULE MsgIDUtil ------------------------------
(***************************************************************************)
(* rocket::MsgIDUtil (rocket/common/msg_util.cpp): the ids that GenMsgID   *)
(* makes for one thread, as sequences of bytes.                            *)
(***************************************************************************)
EXTENDS Integers, Sequences

CONSTANT g_msg_id_length   \* 20

ASSUME LengthAssumption == g_msg_id_length \in Nat

NINE == 57
ZERO == 48

(* What is read from /dev/urandom becomes digits. *)
FirstId(random) == [k \in 1 .. g_msg_id_length |-> ZERO + (random[k] % 10)]

(* The last position that is no '9'; the code counts from 0. *)
LastNotNine(id) ==
  LET smaller == {k \in DOMAIN id : id[k] # NINE}
  IN  IF smaller = {} THEN 0 ELSE CHOOSE k \in smaller : \A j \in smaller : j <= k

(* Mutant: the sum is not cut to a byte. *)
SuccessorWide(id) ==
  LET k == LastNotNine(id)
  IN  [j \in DOMAIN id |-> CASE j = k -> id[j] + (k - 1)
                             [] j > k /\ k > 0 -> ZERO
                             [] OTHER -> id[j]]

(* t_msg_id_no[i] += i: the digit goes up by its index, in one byte, and   *)
(* those behind it start again.  An id of nines only stays what it is.     *)
Successor(id) ==
  LET k == LastNotNine(id)
  IN  [j \in DOMAIN id |-> CASE j = k -> (id[j] + (k - 1)) % 256
                             [] j > k /\ k > 0 -> ZERO
                             [] OTHER -> id[j]]

(* The first id, and the one after t_msg_id_no.  t_max_msg_id_no is as     *)
(* many nines as an id has until an id of nines is replaced: then it grows *)
(* past that length and is never met again, and the next such id stays.    *)
GenMsgID(t_msg_id_no, t_max_msg_id_no, random) ==
  IF t_msg_id_no = <<>> \/ t_msg_id_no = t_max_msg_id_no
  THEN FirstId(random)
  ELSE Successor(t_msg_id_no)

MaxMsgID(t_msg_id_no, t_max_msg_id_no) ==
  IF t_msg_id_no = <<>> \/ t_msg_id_no = t_max_msg_id_no
  THEN t_max_msg_id_no \o [k \in 1 .. g_msg_id_length |-> NINE]
  ELSE t_max_msg_id_no
=============================================================================
