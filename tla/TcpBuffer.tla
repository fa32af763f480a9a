------------------------------ MODULE TcpBuffer ------------------------------
(***************************************************************************)
(* rocket::TcpBuffer (rocket/net/tcp/tcp_buffer.cpp): a vector of bytes    *)
(* with a read and a write index.  A buffer is a record, a method that     *)
(* changes it an operator that returns the changed one.  The indices are   *)
(* the vector's, from 0; the sequence m_buffer begins with 1.              *)
(***************************************************************************)
EXTENDS Integers, Sequences

CONSTANT Byte

ASSUME ByteAssumption == 0 \in Byte

Zeros(n) == [i \in 1 .. n |-> 0]

TcpBuffer(size) ==
  [m_buffer |-> Zeros(size), m_read_index |-> 0, m_write_index |-> 0]

readAble(b)  == b.m_write_index - b.m_read_index
writeAble(b) == Len(b.m_buffer) - b.m_write_index

(* What can be read, as a sequence. *)
Readable(b) == SubSeq(b.m_buffer, b.m_read_index + 1, b.m_write_index)

(* A fresh vector of zeros with the first count bytes that can be read. *)
Moved(b, count, size) ==
  [m_buffer |-> SubSeq(b.m_buffer, b.m_read_index + 1, b.m_read_index + count)
                  \o Zeros(size - count),
   m_read_index |-> 0, m_write_index |-> count]

resizeBuffer(b, new_size) ==
  Moved(b, IF new_size < readAble(b) THEN new_size ELSE readAble(b), new_size)

(* Mutant: the bytes are moved, and the write index is not. *)
adjustBufferKeepsIndex(b) ==
  IF b.m_read_index < Len(b.m_buffer) \div 3 THEN b
  ELSE [Moved(b, readAble(b), Len(b.m_buffer)) EXCEPT !.m_write_index = b.m_write_index]

adjustBuffer(b) ==
  IF b.m_read_index < Len(b.m_buffer) \div 3 THEN b
  ELSE Moved(b, readAble(b), Len(b.m_buffer))

(* Both refuse to reach the end of the vector, and log it; as a size_t, a *)
(* negative index is past it.                                             *)
moveReadIndex(b, n) ==
  IF b.m_read_index + n \in 0 .. Len(b.m_buffer) - 1
  THEN adjustBuffer([b EXCEPT !.m_read_index = @ + n]) ELSE b

(* Mutant: an index past the vector is taken. *)
moveWriteIndexUnchecked(b, n) == [b EXCEPT !.m_write_index = @ + n]

moveWriteIndex(b, n) ==
  IF b.m_write_index + n >= Len(b.m_buffer) THEN b
  ELSE [b EXCEPT !.m_write_index = @ + n]

(* Bytes stored from the write index on, as memcpy and read do it. *)
Stored(b, bytes) ==
  [b EXCEPT !.m_buffer =
     SubSeq(@, 1, b.m_write_index) \o bytes
       \o SubSeq(@, b.m_write_index + Len(bytes) + 1, Len(@))]

writeToBuffer(b, bytes) ==
  LET grown == IF Len(bytes) > writeAble(b)
               THEN resizeBuffer(b, (3 * (b.m_write_index + Len(bytes))) \div 2) ELSE b
  IN  [Stored(grown, bytes) EXCEPT !.m_write_index = @ + Len(bytes)]
=============================================================================
