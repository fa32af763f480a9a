------------------------- MODULE TcpConnectionProofs -------------------------
(***************************************************************************)
(* What TcpConnection.tla states of its two buffers, proved for every      *)
(* stream of requests, cut into reads in any way, every table of services  *)
(* and every size of the buffers: the types, with an in-buffer that never  *)
(* fills; the out-buffer that keeps every reply; and, for requests that    *)
(* can be told from their bytes, that each is handled once, in its turn.   *)
(***************************************************************************)
EXTENDS TcpConnection, SequenceTheorems, WellFoundedInduction, TLAPS

-----------------------------------------------------------------------------
(* FlattenSeq of a sequence that gains an element.                         *)

(* Induction up to n, with a set for the formula. *)
LEMMA UpTo ==
  ASSUME NEW n \in Nat, NEW S, n = 0 \/ 1 \in S,
         \A i \in 1 .. n : i \in S /\ i < n => i + 1 \in S
  PROVE  \A i \in 1 .. n : i \in S
  <1> DEFINE R == OpToRel(<, Nat)
             T == {i \in 1 .. n : i \notin S}
  <1>1. R = {p \in Nat \X Nat : p[1] < p[2]}
    BY Zenon DEF OpToRel
  <1>2. IsWellFoundedOn(R, Nat)
    BY NatLessThanWellFounded, Zenon
  <1> HIDE DEF R
  <1>3. SUFFICES ASSUME T # {} PROVE FALSE
    OBVIOUS
  <1>4. T \subseteq Nat
    OBVIOUS
  <1>5. PICK m \in T : \A i \in T : ~(<<i, m>> \in R)
    BY <1>2, <1>3, <1>4, WFMin
  <1>6. m # 1 /\ m - 1 \in 1 .. n /\ m - 1 < n
    OBVIOUS
  <1>7. <<m - 1, m>> \in R
    BY <1>1, <1>6
  <1>8. m - 1 \in S
    BY <1>5, <1>6, <1>7
  <1> QED
    BY <1>6, <1>8

(* What FlattenSeq computes on the way. *)
Steps(M, s, n, f) ==
  /\ DOMAIN f = 1 .. n
  /\ \A i \in 1 .. n : f[i] \in Seq(M)
  /\ f[1] = s[1]
  /\ \A i \in 1 .. n : i # 1 => f[i] = f[i - 1] \o s[i]

LEMMA StepsExist ==
  ASSUME NEW M, NEW s \in Seq(Seq(M))
  PROVE  \A n \in 1 .. Len(s) : \E f : f = [i \in DOMAIN f |-> f[i]] /\ Steps(M, s, n, f)
  <1> DEFINE S == {n \in 1 .. Len(s) : \E f : f = [i \in DOMAIN f |-> f[i]] /\ Steps(M, s, n, f)}
  <1>1. ASSUME 1 \in 1 .. Len(s) PROVE 1 \in S
    <2> DEFINE f == [i \in 1 .. 1 |-> s[i]]
    <2>1. DOMAIN f = 1 .. 1 /\ f = [i \in DOMAIN f |-> f[i]]
      OBVIOUS
    <2>2. f[1] = s[1] /\ f[1] \in Seq(M)
      BY <1>1
    <2> HIDE DEF f
    <2>3. Steps(M, s, 1, f)
      BY <2>1, <2>2 DEF Steps
    <2> QED
      BY <1>1, <2>1, <2>3
  <1>2. ASSUME NEW n \in 1 .. Len(s), n \in S, n < Len(s)
        PROVE  n + 1 \in S
    <2>1. PICK g : Steps(M, s, n, g)
      BY <1>2
    <2> DEFINE f == [i \in 1 .. n + 1 |-> IF i = n + 1 THEN g[n] \o s[i] ELSE g[i]]
    <2>2. n + 1 \in 1 .. Len(s) /\ n + 1 # 1 /\ s[n + 1] \in Seq(M) /\ n \in 1 .. n /\ 1 \in 1 .. n
      BY <1>2
    <2>3. /\ DOMAIN f = 1 .. n + 1 /\ f = [i \in DOMAIN f |-> f[i]]
          /\ f[n + 1] = g[n] \o s[n + 1] /\ \A i \in 1 .. n : f[i] = g[i]
      <3>1. n + 1 \in 1 .. n + 1 /\ \A i \in 1 .. n : i \in 1 .. n + 1 /\ i # n + 1
        OBVIOUS
      <3>2. DOMAIN f = 1 .. n + 1 /\ f = [i \in DOMAIN f |-> f[i]]
        OBVIOUS
      <3>3. f[n + 1] = g[n] \o s[n + 1]
        BY <3>1, Zenon
      <3>4. \A i \in 1 .. n : f[i] = g[i]
        BY <3>1, Zenon
      <3> QED
        BY <3>2, <3>3, <3>4
    <2> HIDE DEF f
    <2>4. g[n] \in Seq(M)
      BY <2>1, <2>2 DEF Steps
    <2>5. f[n + 1] \in Seq(M)
      BY <2>2, <2>3, <2>4, ConcatProperties
    <2>6. ASSUME NEW i \in 1 .. n + 1
          PROVE  f[i] \in Seq(M) /\ (i # 1 => f[i] = f[i - 1] \o s[i])
      <3>1. CASE i = n + 1
        <4>1. i - 1 = n
          BY <3>1
        <4> QED
          BY <2>2, <2>3, <2>5, <3>1, <4>1
      <3>2. CASE i # n + 1
        <4>1. i \in 1 .. n /\ (i # 1 => i - 1 \in 1 .. n)
          BY <3>2
        <4>2. g[i] \in Seq(M) /\ (i # 1 => g[i] = g[i - 1] \o s[i])
          BY <2>1, <4>1 DEF Steps
        <4> QED
          BY <2>3, <4>1, <4>2
      <3> QED
        BY <3>1, <3>2
    <2>7. f[1] = s[1]
      BY <2>1, <2>2, <2>3 DEF Steps
    <2>8. Steps(M, s, n + 1, f)
      BY <2>3, <2>6, <2>7 DEF Steps
    <2> QED
      BY <2>2, <2>3, <2>8
  <1>3. Len(s) \in Nat /\ (Len(s) = 0 \/ 1 \in 1 .. Len(s))
    OBVIOUS
  <1> HIDE DEF S
  <1>4. \A n \in 1 .. Len(s) : n \in S
    BY <1>1, <1>2, <1>3, UpTo
  <1> QED
    BY <1>4 DEF S

LEMMA Flattened ==
  ASSUME NEW M, NEW s \in Seq(Seq(M)), s # <<>>
  PROVE  \E f : Steps(M, s, Len(s), f) /\ FlattenSeq(s) = f[Len(s)]
  <1> DEFINE body(f) == [i \in 1 .. Len(s) |-> IF i = 1 THEN s[i] ELSE f[i - 1] \o s[i]]
             flatten == CHOOSE f : f = body(f)
             S == {i \in 1 .. Len(s) : flatten[i] \in Seq(M)}
  <1>1. /\ Len(s) \in Nat /\ Len(s) # 0 /\ Len(s) \in 1 .. Len(s) /\ 1 \in 1 .. Len(s)
        /\ \A i \in 1 .. Len(s) : s[i] \in Seq(M)
    OBVIOUS
  <1>2. FlattenSeq(s) = flatten[Len(s)]
    BY <1>1 DEF FlattenSeq
  <1>3. \E f : f = body(f)
    <2>1. PICK f : f = [i \in DOMAIN f |-> f[i]] /\ Steps(M, s, Len(s), f)
      BY <1>1, StepsExist
    <2>2. \A i \in 1 .. Len(s) : f[i] = (IF i = 1 THEN s[i] ELSE f[i - 1] \o s[i])
      BY <2>1 DEF Steps
    <2>3. f = [i \in 1 .. Len(s) |-> f[i]]
      BY <2>1 DEF Steps
    <2>4. f = body(f)
      BY <2>2, <2>3
    <2> QED
      BY <2>4
  <1>4. flatten = body(flatten)
    <2> HIDE DEF body
    <2> QED
      BY <1>3
  <1> HIDE DEF flatten
  <1>5. DOMAIN flatten = 1 .. Len(s)
    BY <1>4
  <1>6. \A i \in 1 .. Len(s) : flatten[i] = IF i = 1 THEN s[i] ELSE flatten[i - 1] \o s[i]
    BY <1>4
  <1>7. 1 \in S
    BY <1>1, <1>6
  <1>8. ASSUME NEW i \in 1 .. Len(s), i \in S, i < Len(s)
        PROVE  i + 1 \in S
    <2>1. i + 1 \in 1 .. Len(s) /\ i + 1 # 1 /\ (i + 1) - 1 = i
      BY <1>8
    <2>2. flatten[i + 1] = flatten[(i + 1) - 1] \o s[i + 1]
      BY <1>6, <2>1
    <2>3. flatten[i] \in Seq(M) /\ s[i + 1] \in Seq(M)
      BY <1>1, <1>8, <2>1
    <2>4. flatten[i + 1] \in Seq(M)
      BY <2>1, <2>2, <2>3, ConcatProperties
    <2> QED
      BY <2>1, <2>4
  <1> HIDE DEF S
  <1>9. \A i \in 1 .. Len(s) : i \in S
    BY <1>1, <1>7, <1>8, UpTo
  <1>10. Steps(M, s, Len(s), flatten)
    BY <1>1, <1>5, <1>6, <1>9 DEF Steps, S
  <1> QED
    BY <1>2, <1>10

LEMMA FlattenType ==
  ASSUME NEW M, NEW s \in Seq(Seq(M))
  PROVE  FlattenSeq(s) \in Seq(M) /\ (s = <<>> => FlattenSeq(s) = <<>>)
  <1>1. CASE s = <<>>
    BY <1>1, EmptySeq DEF FlattenSeq
  <1>2. CASE s # <<>>
    <2>1. PICK f : Steps(M, s, Len(s), f) /\ FlattenSeq(s) = f[Len(s)]
      BY <1>2, Flattened
    <2>2. Len(s) \in 1 .. Len(s)
      BY <1>2
    <2> QED
      BY <1>2, <2>1, <2>2 DEF Steps
  <1> QED
    BY <1>1, <1>2

LEMMA FlattenOne ==
  ASSUME NEW M, NEW e \in Seq(M)
  PROVE  FlattenSeq(<<e>>) = e
  <1>1. <<e>> \in Seq(Seq(M)) /\ <<e>> # <<>> /\ Len(<<e>>) = 1 /\ <<e>>[1] = e
    OBVIOUS
  <1>2. PICK f : Steps(M, <<e>>, Len(<<e>>), f) /\ FlattenSeq(<<e>>) = f[Len(<<e>>)]
    BY <1>1, Flattened
  <1> QED
    BY <1>1, <1>2 DEF Steps

(* One more sequence at the end. *)
LEMMA FlattenAppend ==
  ASSUME NEW M, NEW s \in Seq(Seq(M)), NEW e \in Seq(M)
  PROVE  FlattenSeq(Append(s, e)) = FlattenSeq(s) \o e
  <1>1. CASE s = <<>>
    <2>1. Append(s, e) = <<e>>
      BY <1>1
    <2>2. FlattenSeq(s) = <<>>
      BY <1>1, FlattenType
    <2> QED
      BY <2>1, <2>2, FlattenOne, ConcatEmptySeq
  <1>2. CASE s # <<>>
    <2> DEFINE u == Append(s, e)
    <2>1. /\ u \in Seq(Seq(M)) /\ u # <<>> /\ Len(u) = Len(s) + 1 /\ u[Len(u)] = e
          /\ \A i \in 1 .. Len(s) : u[i] = s[i]
      BY AppendProperties
    <2>2. Len(s) \in Nat /\ Len(s) # 0
      BY <1>2
    <2> HIDE DEF u
    <2>3. PICK f : Steps(M, s, Len(s), f) /\ FlattenSeq(s) = f[Len(s)]
      BY <1>2, Flattened
    <2>4. PICK g : Steps(M, u, Len(u), g) /\ FlattenSeq(u) = g[Len(u)]
      BY <2>1, Flattened
    <2>5. Len(s) <= Len(u) /\ Len(s) \in 1 .. Len(s) /\ Len(u) \in 1 .. Len(u) /\ Len(u) # 1
          /\ Len(u) - 1 = Len(s)
      BY <2>1, <2>2
    <2>6. \A i \in 1 .. Len(s) : g[i] = f[i]
      <3> DEFINE S == {i \in 1 .. Len(s) : g[i] = f[i]}
      <3>1. 1 \in 1 .. Len(s) /\ 1 .. Len(s) \subseteq 1 .. Len(u)
        BY <2>2, <2>5
      <3>2. 1 \in S
        BY <2>1, <2>3, <2>4, <3>1 DEF Steps
      <3>3. ASSUME NEW i \in 1 .. Len(s), i \in S, i < Len(s)
            PROVE  i + 1 \in S
        <4>1. i + 1 \in 1 .. Len(s) /\ i + 1 # 1 /\ (i + 1) - 1 = i
          BY <3>3
        <4>2. g[i + 1] = g[(i + 1) - 1] \o u[i + 1]
          BY <2>4, <3>1, <4>1 DEF Steps
        <4>3. f[i + 1] = f[(i + 1) - 1] \o s[i + 1]
          BY <2>3, <4>1 DEF Steps
        <4>4. u[i + 1] = s[i + 1] /\ g[i] = f[i]
          BY <2>1, <3>3, <4>1
        <4>5. g[i + 1] = f[i + 1]
          BY <4>1, <4>2, <4>3, <4>4
        <4> QED
          BY <4>1, <4>5
      <3> HIDE DEF S
      <3>4. \A i \in 1 .. Len(s) : i \in S
        BY <2>2, <3>2, <3>3, UpTo
      <3> QED
        BY <3>4 DEF S
    <2>7. g[Len(u)] = g[Len(u) - 1] \o u[Len(u)]
      BY <2>4, <2>5 DEF Steps
    <2>8. g[Len(s)] = f[Len(s)]
      BY <2>5, <2>6
    <2>9. FlattenSeq(u) = FlattenSeq(s) \o e
      BY <2>1, <2>3, <2>4, <2>5, <2>7, <2>8
    <2> QED
      BY <2>9 DEF u
  <1> QED
    BY <1>1, <1>2
-----------------------------------------------------------------------------
(* Buffers whose indices are in order and in their vector. *)
Sound(b) ==
  /\ b \in Buffer
  /\ b.m_read_index <= b.m_write_index
  /\ b.m_write_index <= Len(b.m_buffer)

LEMMA ZerosType ==
  ASSUME NEW n \in Nat
  PROVE  Zeros(n) \in Seq(Byte) /\ Len(Zeros(n)) = n
  BY ByteAssumption DEF Zeros

(* The first n elements of a sequence, or some in between. *)
LEMMA Part ==
  ASSUME NEW S, NEW s \in Seq(S), NEW m \in Nat, NEW n \in Nat, m >= 1, m <= n + 1, n <= Len(s)
  PROVE  /\ SubSeq(s, m, n) \in Seq(S) /\ Len(SubSeq(s, m, n)) = n - m + 1
         /\ \A i \in 1 .. n - m + 1 : SubSeq(s, m, n)[i] = s[m + i - 1]
  <1>1. \A i \in m .. n : s[i] \in S
    OBVIOUS
  <1> QED
    BY <1>1, SubSeqProperties

(* What was in front of a concatenation. *)
LEMMA Fore ==
  ASSUME NEW S, NEW s \in Seq(S), NEW t \in Seq(S)
  PROVE  SubSeq(s \o t, 1, Len(s)) = s
  <1> DEFINE u == s \o t
             v == SubSeq(u, 1, Len(s))
  <1>1. /\ u \in Seq(S) /\ Len(u) = Len(s) + Len(t) /\ Len(s) \in Nat /\ Len(t) \in Nat
        /\ \A i \in 1 .. Len(s) : u[i] = s[i]
    BY ConcatProperties
  <1> HIDE DEF u
  <1>2. v \in Seq(S) /\ Len(v) = Len(s) /\ \A i \in 1 .. Len(s) : v[i] = u[i]
    BY <1>1, Part
  <1> HIDE DEF v
  <1>3. v = s
    BY <1>1, <1>2, SeqEqual
  <1> QED
    BY <1>3 DEF u, v

(* The vector of a buffer with the indices r and w, moved to a new one. *)
LEMMA MovedBytes ==
  ASSUME NEW s \in Seq(Byte), NEW r \in Nat, NEW w \in Nat, r <= w, w <= Len(s),
         NEW size \in Nat, w - r <= size
  PROVE  LET t == SubSeq(s, r + 1, w) \o Zeros(size - (w - r))
         IN  t \in Seq(Byte) /\ Len(t) = size /\ SubSeq(t, 1, w - r) = SubSeq(s, r + 1, w)
  <1> DEFINE p == SubSeq(s, r + 1, w)
             z == Zeros(size - (w - r))
  <1>1. p \in Seq(Byte) /\ Len(p) = w - r
    BY Part
  <1>2. z \in Seq(Byte) /\ Len(z) = size - (w - r)
    BY ZerosType
  <1> HIDE DEF p, z
  <1>3. p \o z \in Seq(Byte) /\ Len(p \o z) = size
    <2>1. p \o z \in Seq(Byte) /\ Len(p \o z) = Len(p) + Len(z)
      BY <1>1, <1>2, ConcatProperties
    <2> QED
      BY <1>1, <1>2, <2>1
  <1>4. SubSeq(p \o z, 1, w - r) = p
    BY <1>1, <1>2, Fore
  <1> QED
    BY <1>3, <1>4 DEF p, z

(* Bytes stored from the index w on. *)
LEMMA StoredBytes ==
  ASSUME NEW s \in Seq(Byte), NEW w \in Nat, NEW bytes \in Seq(Byte),
         w + Len(bytes) <= Len(s)
  PROVE  LET t == SubSeq(s, 1, w) \o bytes \o SubSeq(s, w + Len(bytes) + 1, Len(s))
         IN  /\ t \in Seq(Byte) /\ Len(t) = Len(s)
             /\ SubSeq(t, 1, w + Len(bytes)) = SubSeq(s, 1, w) \o bytes
  <1> DEFINE p == SubSeq(s, 1, w)
             q == SubSeq(s, w + Len(bytes) + 1, Len(s))
             u == p \o bytes
  <1>1. p \in Seq(Byte) /\ Len(p) = w
    BY Part
  <1>2. q \in Seq(Byte) /\ Len(q) = Len(s) - (w + Len(bytes))
    BY Part
  <1> HIDE DEF p, q
  <1>3. u \in Seq(Byte) /\ Len(u) = w + Len(bytes)
    BY <1>1, ConcatProperties
  <1> HIDE DEF u
  <1>4. u \o q \in Seq(Byte) /\ Len(u \o q) = Len(s)
    <2>1. u \o q \in Seq(Byte) /\ Len(u \o q) = Len(u) + Len(q)
      <3>1. u \in Seq(Byte) /\ q \in Seq(Byte)
        BY <1>2, <1>3
      <3> QED
        BY <3>1, ConcatProperties
    <2> DEFINE k == Len(bytes)
               n == Len(s)
    <2>2. n \in Nat /\ k \in Nat /\ Len(u) = w + k /\ Len(q) = n - (w + k)
      BY <1>2, <1>3
    <2> HIDE DEF k, n
    <2>3. Len(u) + Len(q) = n
      BY <2>2
    <2> QED
      BY <2>1, <2>3 DEF n
  <1>5. SubSeq(u \o q, 1, w + Len(bytes)) = u
    BY <1>2, <1>3, Fore
  <1> QED
    BY <1>4, <1>5 DEF p, q, u

(* The fields of a buffer. *)
LEMMA Fields ==
  ASSUME NEW s \in Seq(Byte), NEW r \in Nat, NEW w \in Nat,
         NEW b, b = [m_buffer |-> s, m_read_index |-> r, m_write_index |-> w]
  PROVE  /\ b \in Buffer /\ b.m_buffer = s /\ b.m_read_index = r /\ b.m_write_index = w
         /\ Readable(b) = SubSeq(s, r + 1, w)
         /\ readAble(b) = w - r /\ writeAble(b) = Len(s) - w
         /\ Sound(b) <=> r <= w /\ w <= Len(s)
  <1>1. b \in Buffer /\ b.m_buffer = s /\ b.m_read_index = r /\ b.m_write_index = w
    BY DEF Buffer
  <1> QED
    BY <1>1, Zenon DEF Readable, readAble, writeAble, Sound

(* A buffer whose read index is 0. *)
LEMMA Rewound ==
  ASSUME NEW s \in Seq(Byte), NEW w \in Nat, w <= Len(s)
  PROVE  LET b == [m_buffer |-> s, m_read_index |-> 0, m_write_index |-> w]
         IN  /\ b.m_buffer = s /\ b.m_read_index = 0 /\ b.m_write_index = w
             /\ Readable(b) = SubSeq(s, 1, w) /\ Sound(b)
  <1> DEFINE b == [m_buffer |-> s, m_read_index |-> 0, m_write_index |-> w]
  <1>1. 0 \in Nat /\ 0 + 1 = 1 /\ 0 <= w
    OBVIOUS
  <1>2. b = [m_buffer |-> s, m_read_index |-> 0, m_write_index |-> w]
    OBVIOUS
  <1> HIDE DEF b
  <1>3. /\ b.m_buffer = s /\ b.m_read_index = 0 /\ b.m_write_index = w
        /\ Readable(b) = SubSeq(s, 0 + 1, w) /\ (Sound(b) <=> 0 <= w /\ w <= Len(s))
    BY <1>1, <1>2, Fields
  <1>4. Readable(b) = SubSeq(s, 1, w)
    BY <1>1, <1>3, Zenon
  <1> QED
    BY <1>1, <1>3, <1>4, Zenon DEF b

LEMMA Shape ==
  ASSUME NEW b \in Buffer
  PROVE  \E s \in Seq(Byte), r \in Nat, w \in Nat :
           b = [m_buffer |-> s, m_read_index |-> r, m_write_index |-> w]
  BY DEF Buffer

(* resizeBuffer to no less than what can be read, and adjustBuffer. *)
LEMMA MovedBuffer ==
  ASSUME NEW b, Sound(b), NEW size \in Nat, readAble(b) <= size
  PROVE  LET c == Moved(b, readAble(b), size)
         IN  /\ Sound(c) /\ Len(c.m_buffer) = size
             /\ c.m_read_index = 0 /\ c.m_write_index = readAble(b)
             /\ Readable(c) = Readable(b)
  <1>1. PICK s \in Seq(Byte), r \in Nat, w \in Nat :
          b = [m_buffer |-> s, m_read_index |-> r, m_write_index |-> w]
    BY Shape DEF Sound
  <1>2. /\ r <= w /\ w <= Len(s) /\ readAble(b) = w - r /\ Readable(b) = SubSeq(s, r + 1, w)
        /\ w - r \in Nat /\ w - r <= size /\ r + (w - r) = w
    BY <1>1, Fields
  <1> DEFINE t == SubSeq(s, r + 1, w) \o Zeros(size - (w - r))
             c == [m_buffer |-> t, m_read_index |-> 0, m_write_index |-> w - r]
  <1>3. Moved(b, readAble(b), size) = c
    <2>1. b.m_buffer = s /\ b.m_read_index = r
      BY <1>1
    <2> QED
      BY <1>2, <2>1 DEF Moved
  <1>4. t \in Seq(Byte) /\ Len(t) = size /\ SubSeq(t, 1, w - r) = SubSeq(s, r + 1, w)
    <2>1. r <= w /\ w <= Len(s) /\ w - r <= size
      BY <1>2
    <2> QED
      BY <2>1, MovedBytes, Zenon
  <1> HIDE DEF t
  <1>5. /\ c.m_buffer = t /\ c.m_read_index = 0 /\ c.m_write_index = w - r
        /\ Readable(c) = SubSeq(t, 1, w - r)
        /\ Sound(c)
    <2>1. w - r \in Nat /\ w - r <= Len(t)
      BY <1>2, <1>4
    <2> QED
      BY <1>4, <2>1, Rewound, Zenon
  <1> HIDE DEF c
  <1> QED
    BY <1>2, <1>3, <1>4, <1>5

(* Bytes stored where there is room for them. *)
LEMMA StoredBuffer ==
  ASSUME NEW b, Sound(b), NEW bytes \in Seq(Byte), Len(bytes) <= writeAble(b)
  PROVE  \E t \in Seq(Byte) :
           /\ Stored(b, bytes) = [m_buffer |-> t, m_read_index |-> b.m_read_index,
                                  m_write_index |-> b.m_write_index]
           /\ Len(t) = Len(b.m_buffer)
           /\ SubSeq(t, 1, b.m_write_index + Len(bytes))
                = SubSeq(b.m_buffer, 1, b.m_write_index) \o bytes
  <1>1. PICK s \in Seq(Byte), r \in Nat, w \in Nat :
          b = [m_buffer |-> s, m_read_index |-> r, m_write_index |-> w]
    BY Shape DEF Sound
  <1>2. w + Len(bytes) <= Len(s)
    BY <1>1, Fields
  <1>3. b.m_buffer = s /\ b.m_read_index = r /\ b.m_write_index = w
    BY <1>1
  <1> DEFINE t == SubSeq(s, 1, w) \o bytes \o SubSeq(s, w + Len(bytes) + 1, Len(s))
  <1>4. /\ t \in Seq(Byte) /\ Len(t) = Len(s)
        /\ SubSeq(t, 1, w + Len(bytes)) = SubSeq(s, 1, w) \o bytes
    BY <1>2, StoredBytes
  <1>5. Stored(b, bytes) = [m_buffer |-> t, m_read_index |-> r, m_write_index |-> w]
    <2>1. Stored(b, bytes) = [b EXCEPT !.m_buffer = t]
      BY <1>3 DEF Stored
    <2> HIDE DEF t
    <2> QED
      BY <1>1, <2>1
  <1> HIDE DEF t
  <1> QED
    BY <1>3, <1>4, <1>5

(* A message written behind the others, in the vector or in one that has   *)
(* grown for it.                                                           *)
LEMMA WriteToBuffer ==
  ASSUME NEW b, Sound(b), b.m_read_index = 0, NEW bytes \in Seq(Byte)
  PROVE  LET c == writeToBuffer(b, bytes)
         IN  /\ Sound(c) /\ c.m_read_index = 0
             /\ Readable(c) = Readable(b) \o bytes
  <1> DEFINE size == (3 * (b.m_write_index + Len(bytes))) \div 2
             g == IF Len(bytes) > writeAble(b) THEN resizeBuffer(b, size) ELSE b
  <1>1. PICK s \in Seq(Byte), w \in Nat :
          /\ b = [m_buffer |-> s, m_read_index |-> 0, m_write_index |-> w]
          /\ b.m_write_index = w /\ w <= Len(s) /\ readAble(b) = w /\ writeAble(b) = Len(s) - w
    <2>1. PICK s \in Seq(Byte), r \in Nat, w \in Nat :
            b = [m_buffer |-> s, m_read_index |-> r, m_write_index |-> w]
      BY Shape DEF Sound
    <2>2. r = 0 /\ b.m_write_index = w
      BY <2>1
    <2> QED
      BY <2>1, <2>2, Fields
  <1>2. Len(bytes) \in Nat /\ size \in Nat /\ w + Len(bytes) <= size /\ ~(size < readAble(b))
    BY <1>1
  <1>3. \E t \in Seq(Byte) :
          /\ g = [m_buffer |-> t, m_read_index |-> 0, m_write_index |-> w]
          /\ w + Len(bytes) <= Len(t) /\ Readable(g) = Readable(b)
    <2>1. CASE Len(bytes) > writeAble(b)
      <3>1. g = Moved(b, readAble(b), size)
        BY <1>2, <2>1 DEF resizeBuffer
      <3>2. readAble(b) <= size
        BY <1>1, <1>2
      <3> HIDE DEF g, size
      <3>3. /\ Sound(g) /\ Len(g.m_buffer) = size /\ g.m_read_index = 0
            /\ g.m_write_index = w /\ Readable(g) = Readable(b)
        BY <1>1, <1>2, <3>1, <3>2, MovedBuffer
      <3>4. PICK t \in Seq(Byte), r \in Nat, v \in Nat :
              g = [m_buffer |-> t, m_read_index |-> r, m_write_index |-> v]
        BY <3>3, Shape DEF Sound
      <3>5. r = 0 /\ v = w /\ Len(t) = size
        BY <3>3, <3>4
      <3> QED
        BY <1>2, <3>3, <3>4, <3>5
    <2>2. CASE ~(Len(bytes) > writeAble(b))
      <3>1. g = b /\ w + Len(bytes) <= Len(s)
        BY <1>1, <2>2
      <3> HIDE DEF g
      <3> QED
        BY <1>1, <3>1
    <2> QED
      BY <2>1, <2>2
  <1>4. writeToBuffer(b, bytes) = [Stored(g, bytes) EXCEPT !.m_write_index = @ + Len(bytes)]
    BY DEF writeToBuffer
  <1> HIDE DEF g, size
  <1>5. PICK t \in Seq(Byte) :
          /\ g = [m_buffer |-> t, m_read_index |-> 0, m_write_index |-> w]
          /\ w + Len(bytes) <= Len(t) /\ Readable(g) = Readable(b)
    BY <1>3
  <1>6. /\ Sound(g) /\ Len(bytes) <= writeAble(g) /\ Readable(g) = SubSeq(t, 1, w)
        /\ g.m_buffer = t /\ g.m_read_index = 0 /\ g.m_write_index = w
    BY <1>5, Fields
  <1>7. PICK u \in Seq(Byte) :
          /\ Stored(g, bytes) = [m_buffer |-> u, m_read_index |-> 0, m_write_index |-> w]
          /\ Len(u) = Len(t) /\ SubSeq(u, 1, w + Len(bytes)) = SubSeq(t, 1, w) \o bytes
    <2>1. \E u \in Seq(Byte) :
            /\ Stored(g, bytes) = [m_buffer |-> u, m_read_index |-> g.m_read_index,
                                   m_write_index |-> g.m_write_index]
            /\ Len(u) = Len(g.m_buffer)
            /\ SubSeq(u, 1, g.m_write_index + Len(bytes))
                 = SubSeq(g.m_buffer, 1, g.m_write_index) \o bytes
      BY <1>6, StoredBuffer, Zenon
    <2> QED
      BY <1>6, <2>1, Zenon
  <1> DEFINE c == [m_buffer |-> u, m_read_index |-> 0, m_write_index |-> w + Len(bytes)]
  <1>8. writeToBuffer(b, bytes) = c
    <2> DEFINE n == Len(bytes)
    <2>1. writeToBuffer(b, bytes) = [Stored(g, bytes) EXCEPT !.m_write_index = @ + n]
      BY <1>4
    <2>2. c = [m_buffer |-> u, m_read_index |-> 0, m_write_index |-> w + n]
      OBVIOUS
    <2> HIDE DEF n, c
    <2> QED
      BY <1>7, <2>1, <2>2
  <1>9. Sound(c) /\ c.m_read_index = 0 /\ Readable(c) = SubSeq(u, 1, w + Len(bytes))
    <2>1. w + Len(bytes) \in Nat /\ w + Len(bytes) <= Len(u)
      BY <1>2, <1>5, <1>7
    <2> QED
      BY <2>1, Rewound, Zenon
  <1> HIDE DEF c
  <1> QED
    BY <1>5, <1>6, <1>7, <1>8, <1>9, Zenon
-----------------------------------------------------------------------------
(* What encode and decode make of bytes are bytes. *)
LEMMA NetBytesType ==
  ASSUME NEW n \in Int
  PROVE  NetBytes(n) \in Seq(Byte)
  <1>1. \A k \in Int : k % 256 \in 0 .. 255
    OBVIOUS
  <1>2. n \div 16777216 \in Int /\ n \div 65536 \in Int /\ n \div 256 \in Int
    OBVIOUS
  <1>3. /\ (n \div 16777216) % 256 \in Byte /\ (n \div 65536) % 256 \in Byte
        /\ (n \div 256) % 256 \in Byte /\ n % 256 \in Byte
    BY <1>1, <1>2, CoderAssumption
  <1> QED
    BY <1>3 DEF NetBytes

LEMMA Joined ==
  ASSUME NEW s \in Seq(Byte), NEW t \in Seq(Byte)
  PROVE  s \o t \in Seq(Byte)
  OBVIOUS

LEMMA FieldType ==
  ASSUME NEW bytes \in Seq(Byte)
  PROVE  Field(bytes) \in Seq(Byte)
  <1>1. NetBytes(Len(bytes)) \in Seq(Byte)
    BY NetBytesType
  <1> QED
    BY <1>1, Joined DEF Field

LEMMA EncodeType ==
  ASSUME NEW msg \in Message
  PROVE  encodeTinyPB(msg) \in Seq(Byte)
  <1> DEFINE id == MsgId(msg)
             method_name == msg.method_name
             err_info == msg.err_info
             pb_data == msg.pb_data
  <1>1. /\ method_name \in Seq(Byte) /\ err_info \in Seq(Byte) /\ pb_data \in Seq(Byte)
        /\ msg.err_code \in Int
    BY DEF Message
  <1>2. id \in Seq(Byte)
    <2>1. DefaultMsgId \in Seq(Byte)
      <3>1. \A k \in 1 .. 9 : 48 + k \in Byte
        BY CoderAssumption
      <3> QED
        BY <3>1 DEF DefaultMsgId
    <2> QED
      BY <2>1 DEF MsgId, Message
  <1> HIDE DEF id, method_name, err_info, pb_data
  <1>3. PkLen(msg) \in Int
    <2>1. Len(id) \in Int /\ Len(method_name) \in Int /\ Len(err_info) \in Int /\ Len(pb_data) \in Int
      BY <1>1, <1>2
    <2> DEFINE a == Len(id)
               b == Len(method_name)
               c == Len(err_info)
               d == Len(pb_data)
    <2>2. PkLen(msg) = 2 + 24 + a + b + c + d
      BY DEF PkLen, id, method_name, err_info, pb_data
    <2>3. a \in Int /\ b \in Int /\ c \in Int /\ d \in Int
      BY <2>1
    <2> HIDE DEF a, b, c, d
    <2> QED
      BY <2>2, <2>3
  <1>4. /\ NetBytes(PkLen(msg)) \in Seq(Byte) /\ NetBytes(msg.err_code) \in Seq(Byte)
        /\ NetBytes(1) \in Seq(Byte)
    <2>1. 1 \in Int
      OBVIOUS
    <2> QED
      BY <1>1, <1>3, <2>1, NetBytesType, Zenon
  <1>5. Field(id) \in Seq(Byte) /\ Field(method_name) \in Seq(Byte) /\ Field(err_info) \in Seq(Byte)
    BY <1>1, <1>2, FieldType
  <1>6. <<PB_START>> \in Seq(Byte) /\ <<PB_END>> \in Seq(Byte)
    <2>1. PB_START \in Byte /\ PB_END \in Byte
      BY CoderAssumption DEF PB_START, PB_END
    <2> QED
      BY <2>1
  <1>7. encodeTinyPB(msg) =
          <<PB_START>> \o NetBytes(PkLen(msg)) \o Field(id) \o Field(method_name)
            \o NetBytes(msg.err_code) \o Field(err_info)
            \o pb_data \o NetBytes(1) \o <<PB_END>>
    BY Zenon DEF encodeTinyPB, id, method_name, err_info, pb_data
  <1>8. <<PB_START>> \o NetBytes(PkLen(msg)) \o Field(id) \o Field(method_name) \in Seq(Byte)
    BY <1>4, <1>5, <1>6, Joined, Zenon
  <1>9. <<PB_START>> \o NetBytes(PkLen(msg)) \o Field(id) \o Field(method_name)
          \o NetBytes(msg.err_code) \o Field(err_info) \in Seq(Byte)
    BY <1>4, <1>5, <1>8, Joined, Zenon
  <1>10. <<PB_START>> \o NetBytes(PkLen(msg)) \o Field(id) \o Field(method_name)
          \o NetBytes(msg.err_code) \o Field(err_info)
          \o pb_data \o NetBytes(1) \o <<PB_END>> \in Seq(Byte)
    BY <1>1, <1>4, <1>6, <1>9, Joined, Zenon
  <1> QED
    BY <1>7, <1>10

LEMMA AtType ==
  ASSUME NEW b \in Buffer, NEW i \in Int, NEW beyond \in Byte
  PROVE  At(b, i, beyond) \in Byte
  <1> DEFINE s == b.m_buffer
  <1>1. s \in Seq(Byte)
    BY DEF Buffer
  <1> HIDE DEF s
  <1>2. i \in 0 .. Len(s) - 1 => s[i + 1] \in Byte
    BY <1>1
  <1>3. At(b, i, beyond) = IF i \in 0 .. Len(s) - 1 THEN s[i + 1] ELSE beyond
    BY Zenon DEF At, s
  <1> QED
    BY <1>2, <1>3

LEMMA IntType ==
  ASSUME NEW b \in Buffer, NEW i \in Int, NEW beyond \in Byte
  PROVE  getInt32FromNetByte(b, i, beyond) \in Int
  <1> DEFINE x == At(b, i, beyond)
             y == At(b, i + 1, beyond)
             z == At(b, i + 2, beyond)
             v == At(b, i + 3, beyond)
  <1>1. x \in Byte /\ y \in Byte /\ z \in Byte /\ v \in Byte
    <2>1. i + 1 \in Int /\ i + 2 \in Int /\ i + 3 \in Int
      OBVIOUS
    <2> QED
      BY <2>1, AtType, Zenon
  <1> HIDE DEF x, y, z, v
  <1>2. x \in Int /\ y \in Int /\ z \in Int /\ v \in Int
    BY <1>1, CoderAssumption
  <1>3. Signed(x) \in Int
    BY <1>2 DEF Signed
  <1>4. getInt32FromNetByte(b, i, beyond) = ((Signed(x) * 256 + y) * 256 + z) * 256 + v
    BY Zenon DEF getInt32FromNetByte, x, y, z, v
  <1> QED
    BY <1>2, <1>3, <1>4

LEMMA BytesType ==
  ASSUME NEW b \in Buffer, NEW i \in Int, NEW n \in Nat, NEW beyond \in Byte
  PROVE  Bytes(b, i, n, beyond) \in Seq(Byte)
  <1>1. \A k \in 1 .. n : At(b, i + k - 1, beyond) \in Byte
    <2> SUFFICES ASSUME NEW k \in 1 .. n PROVE At(b, i + k - 1, beyond) \in Byte
      OBVIOUS
    <2>1. i + k - 1 \in Int
      OBVIOUS
    <2> QED
      BY <2>1, AtType
  <1> QED
    BY <1>1 DEF Bytes

(* A set of numbers has a least one. *)
LEMMA Least ==
  ASSUME NEW T \in SUBSET Nat, T # {}
  PROVE  \E m \in T : \A i \in T : m <= i
  <1> DEFINE R == OpToRel(<, Nat)
  <1>1. R = {p \in Nat \X Nat : p[1] < p[2]}
    BY Zenon DEF OpToRel
  <1>2. IsWellFoundedOn(R, Nat)
    BY NatLessThanWellFounded, Zenon
  <1> HIDE DEF R
  <1>3. PICK m \in T : \A i \in T : ~(<<i, m>> \in R)
    BY <1>2, WFMin
  <1>4. \A i \in T : m <= i
    <2> SUFFICES ASSUME NEW i \in T, ~(m <= i) PROVE FALSE
      OBVIOUS
    <2>1. i \in Nat /\ m \in Nat /\ i < m
      OBVIOUS
    <2>2. <<i, m>> \in R
      BY <1>1, <2>1
    <2> QED
      BY <1>3, <2>2
  <1> QED
    BY <1>4

LEMMA CStringType ==
  ASSUME NEW bytes \in Seq(Byte)
  PROVE  CString(bytes) \in Seq(Byte)
  <1> DEFINE zeros == {k \in DOMAIN bytes : bytes[k] = 0}
             least == CHOOSE k \in zeros : \A z \in zeros : k <= z
  <1>1. CASE zeros = {}
    BY <1>1, Zenon DEF CString
  <1>2. CASE zeros # {}
    <2>1. zeros \in SUBSET Nat /\ zeros \subseteq 1 .. Len(bytes)
      OBVIOUS
    <2> HIDE DEF zeros
    <2>2. \E k \in zeros : \A z \in zeros : k <= z
      BY <1>2, <2>1, Least
    <2>3. least \in zeros
      BY <2>2
    <2> HIDE DEF least
    <2>4. least - 1 \in Nat /\ 1 <= (least - 1) + 1 /\ least - 1 <= Len(bytes)
      BY <2>1, <2>3
    <2>5. SubSeq(bytes, 1, least - 1) \in Seq(Byte)
      BY <2>4, Part
    <2>6. CString(bytes) = SubSeq(bytes, 1, least - 1)
      BY <1>2, Zenon DEF CString, zeros, least
    <2> QED
      BY <2>5, <2>6
  <1> QED
    BY <1>1, <1>2

(* A reply is a message. *)
LEMMA DispatchType ==
  ASSUME NEW request \in Message
  PROVE  dispatch(Services, request) \in Message
  <1> DEFINE reply == ReplyTo(request)
             service == Services[ServiceName(request.method_name)]
             method == service[MethodName(request.method_name)]
  <1>1. <<69>> \in Seq(Byte) /\ <<>> \in Seq(Byte)
    BY CoderAssumption
  <1>2. reply \in Message /\ reply = ReplyTo(request)
    BY <1>1 DEF ReplyTo, Message
  <1> HIDE DEF reply
  <1>3. ASSUME NEW code \in Int PROVE setTinyPBError(reply, code) \in Message
    BY <1>1, <1>2 DEF setTinyPBError, Message
  <1>4. /\ ERROR_PARSE_SERVICE_NAME \in Int /\ ERROR_SERVICE_NOT_FOUND \in Int
        /\ ERROR_METHOD_NOT_FOUND \in Int /\ ERROR_FAILED_DESERIALIZE \in Int
        /\ ERROR_FAILED_SERIALIZE \in Int
    BY DEF ERROR_PARSE_SERVICE_NAME, ERROR_SERVICE_NOT_FOUND, ERROR_METHOD_NOT_FOUND,
           ERROR_FAILED_DESERIALIZE, ERROR_FAILED_SERIALIZE, SYS_ERROR_PREFIX
  <1>5. ASSUME NEW data \in Seq(Byte) PROVE [reply EXCEPT !.pb_data = data] \in Message
    BY <1>2, <1>5 DEF Message
  <1>6. ASSUME ServiceName(request.method_name) \in DOMAIN Services,
               MethodName(request.method_name) \in DOMAIN service,
               request.pb_data \in DOMAIN method
        PROVE  method[request.pb_data].pb_data \in Seq(Byte)
    BY <1>6, ServicesAssumption
  <1> QED
    BY <1>2, <1>3, <1>4, <1>5, <1>6, Zenon DEF dispatch

(* What decode takes for a message is one. *)
LEMMA ParseType ==
  ASSUME NEW b \in Buffer, NEW start \in Int, NEW end \in Int, NEW beyond \in Byte,
         Parse(b, start, end, beyond).kind = "message"
  PROVE  Parse(b, start, end, beyond).message \in Message
  <1> DEFINE IntAt(i)    == getInt32FromNetByte(b, i, beyond)
             id_len_at   == start + 5
             id_len      == IntAt(id_len_at)
             name_len_at == id_len_at + 4 + id_len
             name_len    == IntAt(name_len_at)
             err_code_at == name_len_at + 4 + name_len
             info_len_at == err_code_at + 4
             info_len    == IntAt(info_len_at)
             data_len    == IntAt(start + 1) - name_len - id_len - info_len - 2 - 24
             checked     == <<id_len_at < end, name_len_at < end,
                              err_code_at < end, info_len_at < end>>
             assumed     == <<FitsArray(b, id_len_at + 4, id_len, 100, beyond),
                              FitsArray(b, name_len_at + 4, name_len, 512, beyond), TRUE,
                              FitsArray(b, info_len_at + 4, info_len, 512, beyond) /\ data_len >= 0>>
             failed      == {k \in 1 .. 4 : ~(checked[k] /\ assumed[k])}
             first       == CHOOSE k \in failed : \A f \in failed : k <= f
             message     ==
               [msg_id      |-> CString(Bytes(b, id_len_at + 4, id_len, beyond)),
                method_name |-> CString(Bytes(b, name_len_at + 4, name_len, beyond)),
                err_code    |-> IntAt(err_code_at),
                err_info    |-> CString(Bytes(b, info_len_at + 4, info_len, beyond)),
                pb_data     |-> Bytes(b, info_len_at + 4 + info_len, data_len, beyond)]
  <1>1. Parse(b, start, end, beyond) =
          IF failed # {}
          THEN [kind |-> IF checked[first] THEN "undefined" ELSE "dropped", message |-> <<>>]
          ELSE [kind |-> "message", message |-> message]
    BY Zenon DEF Parse
  <1>2. \A i \in Int : IntAt(i) \in Int
    BY IntType
  <1> HIDE DEF IntAt
  <1>3. id_len_at \in Int /\ id_len \in Int /\ start + 1 \in Int /\ IntAt(start + 1) \in Int
    BY <1>2
  <1> HIDE DEF id_len
  <1>4. name_len_at \in Int /\ name_len \in Int
    BY <1>2, <1>3
  <1> HIDE DEF name_len
  <1>5. err_code_at \in Int /\ info_len_at \in Int /\ info_len \in Int /\ IntAt(err_code_at) \in Int
    BY <1>2, <1>3, <1>4
  <1> HIDE DEF info_len
  <1>6. data_len \in Int
    BY <1>3, <1>4, <1>5
  <1> HIDE DEF data_len, id_len_at, name_len_at, err_code_at, info_len_at
  <1>7. failed = {}
    <2> HIDE DEF checked, failed, first, message
    <2>1. CASE failed # {}
      BY <1>1, <2>1
    <2> QED
      BY <2>1
  <1>8. Parse(b, start, end, beyond).message = message
    <2> HIDE DEF checked, failed, first, message
    <2> QED
      BY <1>1, <1>7
  <1>9. id_len \in Nat /\ name_len \in Nat /\ info_len \in Nat /\ data_len \in Nat
    <2>1. assumed[1] /\ assumed[2] /\ assumed[4]
      <3> HIDE DEF checked, assumed, first, message
      <3>1. \A k \in 1 .. 4 : k \notin failed
        BY <1>7
      <3>2. \A k \in 1 .. 4 : checked[k] /\ assumed[k]
        BY <3>1, Zenon
      <3>3. 1 \in 1 .. 4 /\ 2 \in 1 .. 4 /\ 4 \in 1 .. 4
        OBVIOUS
      <3> QED
        BY <3>2, <3>3, Zenon
    <2>2. /\ assumed[1] = FitsArray(b, id_len_at + 4, id_len, 100, beyond)
          /\ assumed[2] = FitsArray(b, name_len_at + 4, name_len, 512, beyond)
          /\ assumed[4] = (FitsArray(b, info_len_at + 4, info_len, 512, beyond) /\ data_len >= 0)
      OBVIOUS
    <2> HIDE DEF assumed
    <2>3. id_len \in 0 .. 100 /\ name_len \in 0 .. 512 /\ info_len \in 0 .. 512 /\ data_len >= 0
      BY <2>1, <2>2, ZenonT(40) DEF FitsArray
    <2> HIDE DEF checked, failed, first, message
    <2>4. id_len \in Nat
      BY <2>3
    <2>5. name_len \in Nat
      BY <2>3
    <2>6. info_len \in Nat
      BY <2>3
    <2>7. data_len \in Nat
      BY <1>6, <2>3
    <2> QED
      BY <2>4, <2>5, <2>6, <2>7
  <1>10. /\ id_len_at + 4 \in Int /\ name_len_at + 4 \in Int /\ info_len_at + 4 \in Int
         /\ info_len_at + 4 + info_len \in Int
    BY <1>3, <1>4, <1>5
  <1>11. /\ Bytes(b, id_len_at + 4, id_len, beyond) \in Seq(Byte)
         /\ Bytes(b, name_len_at + 4, name_len, beyond) \in Seq(Byte)
         /\ Bytes(b, info_len_at + 4, info_len, beyond) \in Seq(Byte)
         /\ Bytes(b, info_len_at + 4 + info_len, data_len, beyond) \in Seq(Byte)
    BY <1>9, <1>10, BytesType, Zenon
  <1>12. message \in Message
    BY <1>5, <1>11, CStringType DEF Message
  <1> QED
    BY <1>8, <1>12
-----------------------------------------------------------------------------
(* The stream, and what the out-buffer holds. *)
LEMMA EncodedType ==
  ASSUME NEW messages \in Seq(Message)
  PROVE  /\ [k \in DOMAIN messages |-> encodeTinyPB(messages[k])] \in Seq(Seq(Byte))
         /\ Encoded(messages) \in Seq(Byte)
  <1> DEFINE e == [k \in DOMAIN messages |-> encodeTinyPB(messages[k])]
  <1>1. DOMAIN messages = 1 .. Len(messages) /\ \A k \in 1 .. Len(messages) : messages[k] \in Message
    OBVIOUS
  <1>2. \A k \in 1 .. Len(messages) : encodeTinyPB(messages[k]) \in Seq(Byte)
    BY <1>1, EncodeType
  <1>3. e \in Seq(Seq(Byte))
    BY <1>1, <1>2
  <1> HIDE DEF e
  <1> QED
    BY <1>3, FlattenType DEF Encoded, e

LEMMA StreamType == Stream \in Seq(Byte)
  BY RequestsAssumption, EncodedType DEF Stream, Encoded

Replies == [k \in DOMAIN handled |-> dispatch(Services, handled[k])]

LEMMA RepliesType ==
  ASSUME handled \in Seq(Message)
  PROVE  Replies \in Seq(Message)
  <1>1. DOMAIN handled = 1 .. Len(handled) /\ \A k \in 1 .. Len(handled) : handled[k] \in Message
    OBVIOUS
  <1>2. \A k \in 1 .. Len(handled) : dispatch(Services, handled[k]) \in Message
    BY <1>1, DispatchType
  <1> QED
    BY <1>1, <1>2 DEF Replies

LEMMA EncodedAppend ==
  ASSUME NEW messages \in Seq(Message), NEW msg \in Message
  PROVE  Encoded(Append(messages, msg)) = Encoded(messages) \o encodeTinyPB(msg)
  <1> DEFINE e == [k \in DOMAIN messages |-> encodeTinyPB(messages[k])]
             m == Append(messages, msg)
             f == [k \in DOMAIN m |-> encodeTinyPB(m[k])]
  <1>1. e \in Seq(Seq(Byte)) /\ encodeTinyPB(msg) \in Seq(Byte)
    BY EncodedType, EncodeType
  <1>2. f = Append(e, encodeTinyPB(msg))
    <2>1. /\ DOMAIN m = 1 .. Len(messages) + 1 /\ DOMAIN messages = 1 .. Len(messages)
          /\ Len(messages) \in Nat
          /\ m[Len(messages) + 1] = msg /\ \A k \in 1 .. Len(messages) : m[k] = messages[k]
      OBVIOUS
    <2> HIDE DEF m
    <2>2. Len(e) = Len(messages)
      BY <1>1, <2>1
    <2> DEFINE g == Append(e, encodeTinyPB(msg))
    <2>3. /\ g \in Seq(Seq(Byte)) /\ Len(g) = Len(messages) + 1
          /\ g[Len(messages) + 1] = encodeTinyPB(msg)
          /\ \A k \in 1 .. Len(messages) : g[k] = encodeTinyPB(messages[k])
      BY <1>1, <2>1, <2>2, AppendProperties
    <2> HIDE DEF g, e
    <2>4. ASSUME NEW k \in 1 .. Len(messages) + 1 PROVE f[k] = g[k]
      <3>1. f[k] = encodeTinyPB(m[k])
        BY <2>1
      <3>2. CASE k = Len(messages) + 1
        BY <2>1, <2>3, <3>1, <3>2, Zenon
      <3>3. CASE k # Len(messages) + 1
        <4>1. k \in 1 .. Len(messages)
          BY <2>1, <3>3
        <4> QED
          BY <2>1, <2>3, <3>1, <4>1, Zenon
      <3> QED
        BY <3>2, <3>3
    <2>5. DOMAIN g = 1 .. Len(messages) + 1 /\ g = [k \in DOMAIN g |-> g[k]]
      BY <2>3
    <2>6. f = g
      BY <2>1, <2>4, <2>5
    <2> QED
      BY <2>6 DEF g
  <1> HIDE DEF e, f
  <1>3. FlattenSeq(f) = FlattenSeq(e) \o encodeTinyPB(msg)
    BY <1>1, <1>2, FlattenAppend
  <1> QED
    BY <1>3, Zenon DEF Encoded, e, f, m
-----------------------------------------------------------------------------
(* The in-buffer: bytes are stored below its end, and packages are taken   *)
(* out of what was written.                                                *)
Open(b) ==
  /\ b \in Buffer
  /\ Len(b.m_buffer) = BufferSize
  /\ b.m_read_index <= b.m_write_index
  /\ b.m_write_index < BufferSize

LEMMA OpenShape ==
  ASSUME NEW b, Open(b)
  PROVE  \E s \in Seq(Byte), r \in Nat, w \in Nat :
           /\ b = [m_buffer |-> s, m_read_index |-> r, m_write_index |-> w]
           /\ b.m_buffer = s /\ b.m_read_index = r /\ b.m_write_index = w
           /\ Len(s) = BufferSize /\ r <= w /\ w < BufferSize
           /\ readAble(b) = w - r /\ writeAble(b) = BufferSize - w /\ Sound(b)
  <1>1. PICK s \in Seq(Byte), r \in Nat, w \in Nat :
          b = [m_buffer |-> s, m_read_index |-> r, m_write_index |-> w]
    BY Shape DEF Open
  <1>2. b.m_buffer = s /\ b.m_read_index = r /\ b.m_write_index = w
    BY <1>1
  <1>3. Len(s) = BufferSize /\ r <= w /\ w < BufferSize
    BY <1>2 DEF Open
  <1>4. readAble(b) = w - r /\ writeAble(b) = BufferSize - w /\ Sound(b)
    BY <1>1, <1>3, BufferSizeAssumption, Fields
  <1> QED
    BY <1>1, <1>2, <1>3, <1>4

LEMMA OpenFields ==
  ASSUME NEW s \in Seq(Byte), NEW r \in Nat, NEW w \in Nat, Len(s) = BufferSize,
         r <= w, w < BufferSize,
         NEW b, b = [m_buffer |-> s, m_read_index |-> r, m_write_index |-> w]
  PROVE  Open(b)
  <1>1. b \in Buffer /\ b.m_buffer = s /\ b.m_read_index = r /\ b.m_write_index = w
    BY Fields
  <1> QED
    BY <1>1 DEF Open

LEMMA DataOpen ==
  ASSUME NEW b, Open(b), NEW bytes \in Seq(Byte), Len(bytes) <= writeAble(b)
  PROVE  Open(moveWriteIndex(Stored(b, bytes), Len(bytes)))
  <1>1. PICK s \in Seq(Byte), r \in Nat, w \in Nat :
           /\ b = [m_buffer |-> s, m_read_index |-> r, m_write_index |-> w]
           /\ b.m_buffer = s /\ b.m_read_index = r /\ b.m_write_index = w
           /\ Len(s) = BufferSize /\ r <= w /\ w < BufferSize
           /\ readAble(b) = w - r /\ writeAble(b) = BufferSize - w /\ Sound(b)
    BY OpenShape
  <1>2. PICK t \in Seq(Byte) :
          /\ Stored(b, bytes) = [m_buffer |-> t, m_read_index |-> r, m_write_index |-> w]
          /\ Len(t) = BufferSize
    BY <1>1, StoredBuffer
  <1> DEFINE d == [m_buffer |-> t, m_read_index |-> r, m_write_index |-> w]
             k == Len(bytes)
             e == [d EXCEPT !.m_write_index = @ + k]
  <1>3. k \in Nat /\ w + k \in Nat
    OBVIOUS
  <1> HIDE DEF k
  <1>4. e = [m_buffer |-> t, m_read_index |-> r, m_write_index |-> w + k]
    OBVIOUS
  <1>5. Open(d)
    BY <1>1, <1>2, OpenFields
  <1>6. w + k < BufferSize => Open(e)
    <2>1. r <= w + k
      BY <1>1, <1>3
    <2> HIDE DEF e
    <2> QED
      BY <1>2, <1>3, <1>4, <2>1, OpenFields
  <1>7. moveWriteIndex(d, k) = IF w + k >= BufferSize THEN d ELSE e
    <2>1. d.m_write_index = w /\ d.m_buffer = t
      OBVIOUS
    <2> HIDE DEF d
    <2> QED
      BY <1>2, <2>1 DEF moveWriteIndex
  <1>8. BufferSize \in Nat
    BY BufferSizeAssumption
  <1>9. Open(moveWriteIndex(d, k))
    <2> HIDE DEF d, e
    <2> QED
      BY <1>3, <1>5, <1>6, <1>7, <1>8
  <1> QED
    BY <1>2, <1>9 DEF k

LEMMA ConsumedOpen ==
  ASSUME NEW b, Open(b), NEW n \in Int, b.m_read_index + n <= b.m_write_index
  PROVE  Open(moveReadIndex(b, n))
  <1>1. PICK s \in Seq(Byte), r \in Nat, w \in Nat :
           /\ b = [m_buffer |-> s, m_read_index |-> r, m_write_index |-> w]
           /\ b.m_buffer = s /\ b.m_read_index = r /\ b.m_write_index = w
           /\ Len(s) = BufferSize /\ r <= w /\ w < BufferSize
           /\ readAble(b) = w - r /\ writeAble(b) = BufferSize - w /\ Sound(b)
    BY OpenShape
  <1> DEFINE c == [b EXCEPT !.m_read_index = @ + n]
  <1>2. moveReadIndex(b, n) = IF r + n \in 0 .. BufferSize - 1 THEN adjustBuffer(c) ELSE b
    BY <1>1 DEF moveReadIndex
  <1>3. ASSUME r + n \in 0 .. BufferSize - 1 PROVE Open(adjustBuffer(c))
    <2>1. c = [m_buffer |-> s, m_read_index |-> r + n, m_write_index |-> w]
      BY <1>1
    <2>2. r + n \in Nat /\ r + n <= w
      BY <1>1, <1>3
    <2> HIDE DEF c
    <2>3. Open(c)
      BY <1>1, <2>1, <2>2, OpenFields
    <2>4. PICK t \in Seq(Byte), q \in Nat, v \in Nat :
            /\ c = [m_buffer |-> t, m_read_index |-> q, m_write_index |-> v]
            /\ c.m_buffer = t /\ c.m_read_index = q /\ c.m_write_index = v
            /\ Len(t) = BufferSize /\ q <= v /\ v < BufferSize
            /\ readAble(c) = v - q /\ writeAble(c) = BufferSize - v /\ Sound(c)
      BY <2>3, OpenShape
    <2> DEFINE d == Moved(c, readAble(c), BufferSize)
    <2>5. Open(d)
      <3>1. BufferSize \in Nat /\ readAble(c) <= BufferSize /\ readAble(c) \in Nat
            /\ readAble(c) < BufferSize
        BY <2>4, BufferSizeAssumption
      <3>2. /\ Sound(d) /\ Len(d.m_buffer) = BufferSize
            /\ d.m_read_index = 0 /\ d.m_write_index = readAble(c)
        BY <2>4, <3>1, MovedBuffer
      <3> HIDE DEF d
      <3>3. d.m_read_index <= d.m_write_index /\ d.m_write_index < BufferSize
        BY <3>1, <3>2
      <3> QED
        BY <3>2, <3>3 DEF Open, Sound
    <2>6. adjustBuffer(c) = c \/ adjustBuffer(c) = d
      BY <2>4 DEF adjustBuffer
    <2> QED
      BY <2>3, <2>5, <2>6
  <1> QED
    BY <1>2, <1>3

LEMMA ReadOpen ==
  ASSUME TypeOK, NEW n \in 1 .. Len(Stream), Arrived(n), Data(n)
  PROVE  /\ Open(m_in_buffer') /\ pos' \in 0 .. Len(Stream) /\ lost' \in BOOLEAN
         /\ pc' \in {"read", "excute"}
  <1>1. Open(m_in_buffer)
    BY DEF TypeOK, InBufferOpen, Open
  <1>2. ReadBuffer = m_in_buffer
    <2>1. writeAble(m_in_buffer) # 0
      BY <1>1, OpenShape, BufferSizeAssumption
    <2> QED
      BY <2>1 DEF ReadBuffer
  <1>3. pos \in Nat /\ n \in Nat /\ pos + n <= Len(Stream) /\ n <= writeAble(m_in_buffer)
    BY <1>2, StreamType DEF TypeOK, Arrived
  <1> DEFINE bytes == SubSeq(Stream, pos + 1, pos + n)
  <1>4. bytes \in Seq(Byte) /\ Len(bytes) = n
    BY <1>3, StreamType, Part
  <1> HIDE DEF bytes
  <1>5. m_in_buffer' = moveWriteIndex(Stored(m_in_buffer, bytes), n)
    BY <1>2 DEF Data, bytes
  <1>6. Open(m_in_buffer')
    BY <1>1, <1>3, <1>4, <1>5, DataOpen
  <1>7. pos' \in 0 .. Len(Stream)
    BY <1>3, StreamType DEF Data
  <1>8. lost' \in BOOLEAN /\ pc' \in {"read", "excute"}
    BY DEF Data, TypeOK
  <1> QED
    BY <1>6, <1>7, <1>8

LEMMA DecodeOpen ==
  ASSUME TypeOK, NEW beyond \in Beyond, Decode(beyond)
  PROVE  Open(m_in_buffer') /\ result' \in Seq(Message) /\ pc' \in {"undefined", pc}
  <1> DEFINE b == m_in_buffer
  <1>1. Open(b) /\ b \in Buffer /\ beyond \in Byte /\ result \in Seq(Message)
    BY BeyondAssumption DEF TypeOK, InBufferOpen, Open
  <1>2. PICK start \in 0 .. b.m_write_index - 1 :
          /\ FirstPackageAt(b, start, beyond)
          /\ DecodePackage(start, EndIndex(b, start, beyond), beyond)
    BY DEF Decode
  <1> DEFINE end == EndIndex(b, start, beyond)
             parsed == Parse(b, start, end, beyond)
  <1>3. b.m_read_index \in Nat /\ b.m_write_index \in Nat
    BY <1>1 DEF Buffer
  <1>4. /\ start \in Int /\ b.m_read_index <= start /\ end < b.m_write_index
    BY <1>2, <1>3 DEF FirstPackageAt, PackageAt
  <1>5. end \in Int
    <2>1. start + 1 \in Int
      BY <1>4
    <2>2. getInt32FromNetByte(b, start + 1, beyond) \in Int
      BY <1>1, <2>1, IntType
    <2> QED
      BY <1>4, <2>2 DEF EndIndex
  <1>6. /\ pc' = IF parsed.kind = "undefined" THEN "undefined" ELSE pc
        /\ m_in_buffer' = Consumed(b, start, end)
        /\ result' = IF parsed.kind = "message" THEN Append(result, parsed.message) ELSE result
    BY <1>2, Zenon DEF DecodePackage
  <1> HIDE DEF end, b
  <1>7. parsed.kind = "message" => parsed.message \in Message
    BY <1>1, <1>4, <1>5, ParseType
  <1> HIDE DEF parsed
  <1>8. Open(m_in_buffer')
    <2>1. end - start + 1 \in Int /\ b.m_read_index + (end - start + 1) <= b.m_write_index
      BY <1>3, <1>4, <1>5
    <2>2. Open(moveReadIndex(b, end - start + 1))
      BY <1>1, <2>1, ConsumedOpen
    <2> QED
      BY <1>6, <2>2 DEF Consumed
  <1>9. result' \in Seq(Message)
    BY <1>1, <1>6, <1>7
  <1> QED
    BY <1>6, <1>8, <1>9
-----------------------------------------------------------------------------
(* The out-buffer begins with the first reply, whatever was sent. *)
OutBuffer == Sound(m_out_buffer) /\ m_out_buffer.m_read_index = 0

IInv == TypeOK /\ OutBuffer /\ RepliesKept

inVars  == <<m_in_buffer, pos, lost>>
outVars == <<m_out_buffer, handled>>

Types ==
  /\ pc \in Pc
  /\ m_state \in {"Connected", "Closed"} /\ m_stop \in BOOLEAN
  /\ Open(m_in_buffer)
  /\ m_out_buffer \in Buffer
  /\ result \in Seq(Message) /\ handled \in Seq(Message)
  /\ pos \in 0 .. Len(Stream) /\ sent \in 0 .. Len(handled)
  /\ closed \in BOOLEAN /\ lost \in BOOLEAN

LEMMA TypeParts == (TypeOK <=> Types) /\ (TypeOK' <=> Types')
  BY DEF TypeOK, Types, InBufferOpen, Open

LEMMA InitIInv == Init => IInv
<1> SUFFICES ASSUME Init PROVE IInv
  OBVIOUS
<1> DEFINE z == Zeros(BufferSize)
           b == [m_buffer |-> z, m_read_index |-> 0, m_write_index |-> 0]
<1>1. z \in Seq(Byte) /\ Len(z) = BufferSize /\ BufferSize \in Nat /\ 0 < BufferSize
  BY ZerosType, BufferSizeAssumption
<1>2. m_in_buffer = b /\ m_out_buffer = b
  BY Zenon DEF Init, TcpBuffer
<1> HIDE DEF z
<1>3. 0 \in Nat /\ 0 <= 0
  OBVIOUS
<1> HIDE DEF b
<1>4. b = [m_buffer |-> z, m_read_index |-> 0, m_write_index |-> 0]
  BY DEF b
<1>5. Open(b) /\ Sound(b) /\ b \in Buffer /\ b.m_read_index = 0 /\ b.m_write_index = 0
  <2>1. Open(b)
    BY <1>1, <1>3, <1>4, OpenFields
  <2> QED
    BY <1>1, <1>3, <1>4, <2>1, Fields
<1>6. Len(handled) = 0 /\ result \in Seq(Message) /\ handled \in Seq(Message) /\ handled = <<>>
  BY DEF Init
<1>7. TypeOK
  <2>1. pos \in 0 .. Len(Stream) /\ sent \in 0 .. Len(handled)
    BY <1>6, StreamType DEF Init
  <2> QED
    BY <1>2, <1>5, <1>6, <2>1, TypeParts DEF Types, Init, Pc, Suspended, Stopped
<1>8. RepliesKept
  <2>1. Readable(m_out_buffer) = <<>>
    BY <1>2, <1>4, <1>5 DEF Readable
  <2>2. Replies \in Seq(Message) /\ Replies = <<>>
    BY <1>6, RepliesType DEF Replies
  <2> DEFINE e == [k \in DOMAIN Replies |-> encodeTinyPB(Replies[k])]
  <2>3. e \in Seq(Seq(Byte)) /\ e = <<>>
    BY <2>2, EncodedType
  <2> HIDE DEF e
  <2>4. FlattenSeq(e) = <<>>
    BY <2>3, FlattenType
  <2> QED
    BY <2>1, <2>4 DEF RepliesKept, Encoded, Replies, e
<1> QED
  BY <1>2, <1>5, <1>7, <1>8 DEF IInv, OutBuffer

LEMMA ReplyStep ==
  ASSUME IInv, Reply
  PROVE  IInv'
<1> DEFINE request == Head(result)
           reply == dispatch(Services, request)
<1>1. /\ result \in Seq(Message) /\ result # <<>> /\ request \in Message
      /\ Tail(result) \in Seq(Message) /\ handled \in Seq(Message)
      /\ Sound(m_out_buffer) /\ m_out_buffer.m_read_index = 0
  BY DEF IInv, OutBuffer, TypeOK, Reply
<1>2. reply \in Message /\ encodeTinyPB(reply) \in Seq(Byte)
  BY <1>1, DispatchType, EncodeType
<1>3. /\ m_out_buffer' = writeToBuffer(m_out_buffer, encodeTinyPB(reply))
      /\ handled' = Append(handled, request) /\ result' = Tail(result)
      /\ UNCHANGED <<pc, m_state, m_stop, m_in_buffer, pos, closed, sent, lost>>
  BY Zenon DEF Reply, encode
<1> DEFINE e == encodeTinyPB(reply)
<1> HIDE DEF e
<1>4. /\ Sound(m_out_buffer') /\ m_out_buffer'.m_read_index = 0
      /\ Readable(m_out_buffer') = Readable(m_out_buffer) \o e
  <2>1. e \in Seq(Byte) /\ m_out_buffer' = writeToBuffer(m_out_buffer, e)
    BY <1>2, <1>3 DEF e
  <2> QED
    BY <1>1, <2>1, WriteToBuffer
<1>5. Replies' = Append(Replies, reply)
  <2>1. /\ DOMAIN handled = 1 .. Len(handled) /\ Len(handled) \in Nat
        /\ DOMAIN handled' = 1 .. Len(handled) + 1
        /\ handled'[Len(handled) + 1] = request
        /\ \A k \in 1 .. Len(handled) : handled'[k] = handled[k]
    BY <1>1, <1>3
  <2>2. Replies \in Seq(Message) /\ Len(Replies) = Len(handled)
    BY <1>1, <2>1, RepliesType DEF Replies
  <2> DEFINE g == Append(Replies, reply)
  <2>3. /\ g \in Seq(Message) /\ Len(g) = Len(handled) + 1
        /\ g[Len(handled) + 1] = reply
        /\ \A k \in 1 .. Len(handled) : g[k] = Replies[k]
    BY <1>2, <2>2, AppendProperties
  <2>4. \A k \in 1 .. Len(handled) : Replies[k] = dispatch(Services, handled[k])
    BY <2>1 DEF Replies
  <2> HIDE DEF g
  <2> DEFINE f == [k \in DOMAIN handled' |-> dispatch(Services, handled'[k])]
  <2>5. ASSUME NEW k \in 1 .. Len(handled) + 1 PROVE f[k] = g[k]
    <3>1. f[k] = dispatch(Services, handled'[k])
      BY <2>1
    <3>2. CASE k = Len(handled) + 1
      BY <2>1, <2>3, <3>1, <3>2, Zenon
    <3>3. CASE k # Len(handled) + 1
      <4>1. k \in 1 .. Len(handled)
        BY <2>1, <3>3
      <4> QED
        BY <2>1, <2>3, <2>4, <3>1, <4>1, Zenon
    <3> QED
      BY <3>2, <3>3
  <2>6. DOMAIN g = 1 .. Len(handled) + 1 /\ g = [k \in DOMAIN g |-> g[k]]
    BY <2>3
  <2>7. f = g
    BY <2>1, <2>5, <2>6
  <2> QED
    BY <2>7 DEF g, Replies
<1>6. RepliesKept'
  <2>1. Replies \in Seq(Message)
    BY <1>1, RepliesType
  <2>2. Encoded(Replies') = Encoded(Replies) \o e
    BY <1>2, <1>5, <2>1, EncodedAppend DEF e
  <2>3. Readable(m_out_buffer) = Encoded(Replies)
    BY DEF IInv, RepliesKept, Replies
  <2> QED
    BY <1>4, <2>2, <2>3 DEF RepliesKept, Replies
<1>7. TypeOK'
  <2>1. Len(handled') = Len(handled) + 1 /\ handled' \in Seq(Message) /\ Len(handled) \in Nat
    BY <1>1, <1>3
  <2>2. sent' \in 0 .. Len(handled')
    BY <1>3, <2>1 DEF IInv, TypeOK
  <2>3. m_out_buffer' \in Buffer
    BY <1>4 DEF Sound
  <2>4. result' \in Seq(Message) /\ Open(m_in_buffer)
    BY <1>1, <1>3, TypeParts DEF IInv, Types
  <2> QED
    BY <1>3, <2>1, <2>2, <2>3, <2>4, TypeParts DEF IInv, Types
<1> QED
  BY <1>4, <1>6, <1>7 DEF IInv, OutBuffer

(* Only Reply touches the out-buffer and what was handled. *)
LEMMA OutFrame == OutBuffer /\ RepliesKept /\ UNCHANGED outVars => OutBuffer' /\ RepliesKept'
  BY DEF OutBuffer, RepliesKept, outVars

LEMMA TypeStep ==
  ASSUME TypeOK, [Next]_vars, ~Reply
  PROVE  TypeOK' /\ UNCHANGED outVars
<1> USE TypeParts DEF Types, outVars, Pc, Suspended, Stopped
<1>1. ASSUME NEW n \in 1 .. Len(Stream), Read(n) \/ ReadAgain(n) PROVE TypeOK' /\ UNCHANGED outVars
  <2>1. Arrived(n) /\ Data(n)
    BY <1>1 DEF Read, ReadAgain
  <2>2. /\ Open(m_in_buffer') /\ pos' \in 0 .. Len(Stream) /\ lost' \in BOOLEAN
        /\ pc' \in {"read", "excute"}
    BY <2>1, ReadOpen
  <2> QED
    BY <1>1, <2>2 DEF Read, ReadAgain
<1>2. CASE ReadYields
  <2>1. ReadBuffer = m_in_buffer
    <3>1. writeAble(m_in_buffer) # 0
      BY OpenShape, BufferSizeAssumption
    <3> QED
      BY <3>1 DEF ReadBuffer
  <2> QED
    BY <1>2, <2>1 DEF ReadYields
<1>3. CASE ReadReady \/ ReadEnds
  BY <1>3 DEF ReadReady, ReadEnds
<1>4. ASSUME NEW beyond \in Beyond, Decode(beyond) PROVE TypeOK' /\ UNCHANGED outVars
  BY <1>4, DecodeOpen DEF Decode
<1>5. ASSUME NEW beyond \in Beyond, DecodeReturn(beyond) PROVE TypeOK' /\ UNCHANGED outVars
  BY <1>5 DEF DecodeReturn
<1>6. CASE ExcuteReturns \/ WriteNothing \/ WriteYields \/ WriteReady \/ WriteKills
  BY <1>6 DEF ExcuteReturns, WriteNothing, WriteYields, WriteReady, WriteKills, LoopEnds
<1>7. CASE Write \/ WriteAgain
  <2>1. Len(handled) \in 0 .. Len(handled)
    OBVIOUS
  <2> QED
    BY <1>7, <2>1 DEF Write, WriteAgain, LoopEnds
<1>8. CASE PeerCloses
  BY <1>8 DEF PeerCloses
<1>9. CASE UNCHANGED vars
  BY <1>9 DEF vars
<1> QED
  BY <1>1, <1>2, <1>3, <1>4, <1>5, <1>6, <1>7, <1>8, <1>9 DEF Next, Step

LEMMA Invariance == Spec => []IInv
<1>1. IInv /\ [Next]_vars => IInv'
  <2>1. IInv /\ [Next]_vars /\ ~Reply => IInv'
    BY TypeStep, OutFrame DEF IInv
  <2> QED
    BY <2>1, ReplyStep
<1> QED
  BY <1>1, InitIInv, PTL DEF Spec

(* Every variable keeps its type; the in-buffer keeps its size and never   *)
(* fills, so that the growth that onRead asks for is never taken, however  *)
(* the stream is cut and whatever decode finds in it.                      *)
THEOREM TypeCorrect == Spec => []TypeOK
<1>1. IInv => TypeOK
  BY DEF IInv
<1> QED
  BY <1>1, Invariance, PTL

(* The out-buffer holds every reply since the connection began, in order,  *)
(* however often it has grown: onWrite never moves its read index.         *)
THEOREM EveryReplyKept == Spec => []RepliesKept
<1>1. IInv => RepliesKept
  BY DEF IInv
<1> QED
  BY <1>1, Invariance, PTL
-----------------------------------------------------------------------------
(* The bytes of a package, and what decode reads of them.                  *)

(* p is found in e behind its first at bytes. *)
Has(e, at, p) ==
  /\ at + Len(p) <= Len(e)
  /\ \A x \in 1 .. Len(p) : e[at + x] = p[x]

(* What is behind a sequence, and what was in it. *)
LEMMA Joint ==
  ASSUME NEW s \in Seq(Byte), NEW t \in Seq(Byte)
  PROVE  /\ s \o t \in Seq(Byte) /\ Len(s \o t) = Len(s) + Len(t)
         /\ Has(s \o t, 0, s) /\ Has(s \o t, Len(s), t)
         /\ \A at \in Nat, p \in Seq(Byte) : Has(s, at, p) => Has(s \o t, at, p)
  <1> DEFINE u == s \o t
  <1>1. /\ u \in Seq(Byte) /\ Len(u) = Len(s) + Len(t)
        /\ \A i \in 1 .. Len(s) : u[i] = s[i]
        /\ \A i \in 1 .. Len(t) : u[Len(s) + i] = t[i]
    BY ConcatProperties
  <1> HIDE DEF u
  <1>2. Len(s) \in Nat /\ Len(t) \in Nat
    OBVIOUS
  <1>3. Has(u, 0, s) /\ Has(u, Len(s), t)
    BY <1>1, <1>2 DEF Has
  <1>4. ASSUME NEW at \in Nat, NEW p \in Seq(Byte), Has(s, at, p)
        PROVE  Has(u, at, p)
    <2>1. Len(p) \in Nat /\ at + Len(p) <= Len(s) /\ \A x \in 1 .. Len(p) : s[at + x] = p[x]
      BY <1>4 DEF Has
    <2>2. \A x \in 1 .. Len(p) : at + x \in 1 .. Len(s)
      BY <1>2, <2>1
    <2>3. at + Len(p) <= Len(u)
      BY <1>1, <1>2, <2>1
    <2> QED
      BY <1>1, <2>1, <2>2, <2>3 DEF Has
  <1> QED
    BY <1>1, <1>3, <1>4 DEF u

LEMMA NetBytesLength ==
  ASSUME NEW n \in Int
  PROVE  NetBytes(n) \in Seq(Byte) /\ Len(NetBytes(n)) = 4
  <1>1. Len(NetBytes(n)) = 4
    BY DEF NetBytes
  <1> QED
    BY <1>1, NetBytesType

(* htonl and back: the four bytes of an int32_t say what it is. *)
LEMMA NetBytesRead ==
  ASSUME NEW n \in Int, IsInt32(n)
  PROVE  LET s == NetBytes(n)
         IN  ((Signed(s[1]) * 256 + s[2]) * 256 + s[3]) * 256 + s[4] = n
  <1> DEFINE a == n \div 256
             b == n \div 65536
             c == n \div 16777216
  <1>1. n \in Int /\ a \in Int /\ b \in Int /\ c \in Int
    BY SMT DEF IsInt32
  <1>2. n = 256 * a + (n % 256)
    BY SMT, <1>1
  <1>3. a = 256 * b + (a % 256)
    BY SMT, <1>1
  <1>4. b = 256 * c + (b % 256)
    BY SMT, <1>1
  <1>5. c \in -128 .. 127
    BY SMT DEF IsInt32
  <1> DEFINE w == c % 256
             x == b % 256
             y == a % 256
             z == n % 256
  <1>6. NetBytes(n) = <<w, x, y, z>>
    BY DEF NetBytes
  <1> HIDE DEF a, b
  <1>7. Signed(w) = c
    <2> HIDE DEF c
    <2>1. w = IF c >= 0 THEN c ELSE c + 256
      BY <1>5
    <2> HIDE DEF w
    <2> QED
      BY <1>5, <2>1 DEF Signed
  <1>8. x \in Int /\ y \in Int /\ z \in Int
    BY <1>1
  <1> HIDE DEF c, w, x, y, z
  <1>9. /\ NetBytes(n)[1] = w /\ NetBytes(n)[2] = x
        /\ NetBytes(n)[3] = y /\ NetBytes(n)[4] = z
    BY <1>6
  <1>10. ((c * 256 + x) * 256 + y) * 256 + z = n
    BY <1>1, <1>2, <1>3, <1>4, <1>8 DEF x, y, z
  <1> QED
    BY <1>7, <1>9, <1>10

(* One more part behind a package that is as long as said. *)
LEMMA FieldBytes ==
  ASSUME NEW s \in Seq(Byte), NEW bytes \in Seq(Byte)
  PROVE  LET t == s \o Field(bytes)
         IN  /\ t \in Seq(Byte) /\ Len(t) = Len(s) + 4 + Len(bytes)
             /\ Has(t, Len(s), NetBytes(Len(bytes))) /\ Has(t, Len(s) + 4, bytes)
             /\ \A at \in Nat, p \in Seq(Byte) : Has(s, at, p) => Has(t, at, p)
  <1> DEFINE k == NetBytes(Len(bytes))
             f == k \o bytes
             t == s \o f
  <1>1. k \in Seq(Byte) /\ Len(k) = 4 /\ Len(bytes) \in Nat /\ Len(s) \in Nat
    BY NetBytesLength
  <1> HIDE DEF k
  <1>2. /\ f \in Seq(Byte) /\ Len(f) = 4 + Len(bytes)
        /\ Has(f, 4, bytes) /\ \A x \in 1 .. 4 : f[x] = k[x]
    <2>1. /\ f \in Seq(Byte) /\ Len(f) = Len(k) + Len(bytes)
          /\ Has(f, 0, k) /\ Has(f, Len(k), bytes)
      BY <1>1, Joint
    <2>2. \A x \in 1 .. 4 : f[x] = k[x]
      <3>1. \A x \in 1 .. 4 : f[0 + x] = k[x]
        BY <1>1, <2>1 DEF Has
      <3> HIDE DEF f
      <3> QED
        BY <3>1
    <2> QED
      BY <1>1, <2>1, <2>2
  <1> HIDE DEF f
  <1>3. /\ t \in Seq(Byte) /\ Len(t) = Len(s) + (4 + Len(bytes)) /\ Has(t, Len(s), f)
        /\ \A at \in Nat, p \in Seq(Byte) : Has(s, at, p) => Has(t, at, p)
    BY <1>2, Joint
  <1> HIDE DEF t
  <1>4. Has(t, Len(s), k)
    <2>1. \A x \in 1 .. Len(f) : t[Len(s) + x] = f[x]
      BY <1>3 DEF Has
    <2>2. \A x \in 1 .. 4 : x \in 1 .. Len(f)
      BY <1>1, <1>2
    <2>3. \A x \in 1 .. 4 : t[Len(s) + x] = k[x]
      BY <1>2, <2>1, <2>2
    <2> QED
      BY <1>1, <1>3, <2>3 DEF Has
  <1>5. Has(t, Len(s) + 4, bytes)
    <2>1. \A x \in 1 .. Len(bytes) : 4 + x \in 1 .. Len(f) /\ f[4 + x] = bytes[x]
      BY <1>1, <1>2 DEF Has
    <2>2. \A x \in 1 .. Len(f) : t[Len(s) + x] = f[x]
      BY <1>3 DEF Has
    <2>3. \A x \in 1 .. Len(bytes) : t[Len(s) + (4 + x)] = bytes[x]
      BY <2>1, <2>2
    <2>4. \A x \in 1 .. Len(bytes) : Len(s) + (4 + x) = (Len(s) + 4) + x
      BY <1>1
    <2>5. \A x \in 1 .. Len(bytes) : t[(Len(s) + 4) + x] = bytes[x]
      BY <2>3, <2>4
    <2> QED
      BY <1>1, <1>3, <2>5 DEF Has
  <1>6. Len(s) + (4 + Len(bytes)) = Len(s) + 4 + Len(bytes)
    BY <1>1
  <1>7. s \o Field(bytes) = t /\ NetBytes(Len(bytes)) = k
    BY Zenon DEF Field, f, k, t
  <1> QED
    BY <1>3, <1>4, <1>5, <1>6, <1>7, Zenon

(* Where the parts of a package are. *)
Layout(e, msg) ==
  LET name_len_at == 9 + Len(msg.msg_id)
      err_code_at == name_len_at + 4 + Len(msg.method_name)
      info_len_at == err_code_at + 4
      data_at     == info_len_at + 4 + Len(msg.err_info)
  IN  /\ e \in Seq(Byte) /\ Len(e) = data_at + Len(msg.pb_data) + 5
      /\ Has(e, 0, <<PB_START>>) /\ Has(e, 1, NetBytes(Len(e)))
      /\ Has(e, 5, NetBytes(Len(msg.msg_id))) /\ Has(e, 9, msg.msg_id)
      /\ Has(e, name_len_at, NetBytes(Len(msg.method_name)))
      /\ Has(e, name_len_at + 4, msg.method_name)
      /\ Has(e, err_code_at, NetBytes(msg.err_code))
      /\ Has(e, info_len_at, NetBytes(Len(msg.err_info)))
      /\ Has(e, info_len_at + 4, msg.err_info)
      /\ Has(e, data_at, msg.pb_data)
      /\ Has(e, Len(e) - 1, <<PB_END>>)

LEMMA EncodeLayout ==
  ASSUME NEW msg \in Message, msg.msg_id # <<>>
  PROVE  Layout(encodeTinyPB(msg), msg)
  <1> DEFINE id == msg.msg_id
             method_name == msg.method_name
             err_info == msg.err_info
             pb_data == msg.pb_data
             a == Len(id)
             b == Len(method_name)
             c == Len(err_info)
             d == Len(pb_data)
             length == NetBytes(PkLen(msg))
             code == NetBytes(msg.err_code)
             sum == NetBytes(1)
             s1 == <<PB_START>>
             s2 == s1 \o length
             s3 == s2 \o Field(id)
             s4 == s3 \o Field(method_name)
             s5 == s4 \o code
             s6 == s5 \o Field(err_info)
             s7 == s6 \o pb_data
             s8 == s7 \o sum
             s9 == s8 \o <<PB_END>>
  <1>1. /\ id \in Seq(Byte) /\ method_name \in Seq(Byte) /\ err_info \in Seq(Byte)
        /\ pb_data \in Seq(Byte) /\ msg.err_code \in Int
    BY DEF Message
  <1>2. a \in Nat /\ b \in Nat /\ c \in Nat /\ d \in Nat
    BY <1>1
  <1>3. encodeTinyPB(msg) = s9 /\ PkLen(msg) = 26 + a + b + c + d
    <2>1. MsgId(msg) = id
      BY DEF MsgId
    <2>2. encodeTinyPB(msg) = s9
      BY <2>1, Zenon DEF encodeTinyPB
    <2>3. PkLen(msg) = 2 + 24 + a + b + c + d
      BY <2>1, Zenon DEF PkLen
    <2> HIDE DEF a, b, c, d, s9
    <2> QED
      BY <1>2, <2>2, <2>3
  <1>4. /\ length \in Seq(Byte) /\ Len(length) = 4 /\ code \in Seq(Byte) /\ Len(code) = 4
        /\ sum \in Seq(Byte) /\ Len(sum) = 4
    <2>1. PkLen(msg) \in Int /\ 1 \in Int
      BY <1>2, <1>3
    <2> QED
      BY <1>1, <2>1, NetBytesLength
  <1>5. /\ s1 \in Seq(Byte) /\ Len(s1) = 1 /\ <<PB_END>> \in Seq(Byte) /\ Len(<<PB_END>>) = 1
        /\ Has(s1, 0, <<PB_START>>)
    <2>1. PB_START \in Byte /\ PB_END \in Byte
      BY CoderAssumption DEF PB_START, PB_END
    <2> QED
      BY <2>1 DEF Has
  <1> HIDE DEF id, method_name, err_info, pb_data, length, code, sum, s1
  <1>6. /\ s2 \in Seq(Byte) /\ Len(s2) = 5 /\ Has(s2, 1, length)
        /\ \A at \in Nat, p \in Seq(Byte) : Has(s1, at, p) => Has(s2, at, p)
    <2>1. /\ s2 \in Seq(Byte) /\ Len(s2) = Len(s1) + Len(length) /\ Has(s2, Len(s1), length)
          /\ \A at \in Nat, p \in Seq(Byte) : Has(s1, at, p) => Has(s2, at, p)
      BY <1>4, <1>5, Joint
    <2> HIDE DEF s2
    <2> QED
      BY <1>4, <1>5, <2>1
  <1> HIDE DEF s2
  <1>7. /\ s3 \in Seq(Byte) /\ Len(s3) = 9 + a
        /\ Has(s3, 5, NetBytes(a)) /\ Has(s3, 9, id)
        /\ \A at \in Nat, p \in Seq(Byte) : Has(s2, at, p) => Has(s3, at, p)
    <2>1. /\ s3 \in Seq(Byte) /\ Len(s3) = Len(s2) + 4 + a
          /\ Has(s3, Len(s2), NetBytes(a)) /\ Has(s3, Len(s2) + 4, id)
          /\ \A at \in Nat, p \in Seq(Byte) : Has(s2, at, p) => Has(s3, at, p)
      BY <1>1, <1>6, FieldBytes
    <2> HIDE DEF s3, a
    <2> QED
      BY <1>2, <1>6, <2>1
  <1> HIDE DEF s3
  <1>8. /\ s4 \in Seq(Byte) /\ Len(s4) = 13 + a + b
        /\ Has(s4, 9 + a, NetBytes(b)) /\ Has(s4, 13 + a, method_name)
        /\ \A at \in Nat, p \in Seq(Byte) : Has(s3, at, p) => Has(s4, at, p)
    <2>1. /\ s4 \in Seq(Byte) /\ Len(s4) = Len(s3) + 4 + b
          /\ Has(s4, Len(s3), NetBytes(b)) /\ Has(s4, Len(s3) + 4, method_name)
          /\ \A at \in Nat, p \in Seq(Byte) : Has(s3, at, p) => Has(s4, at, p)
      BY <1>1, <1>7, FieldBytes
    <2>2. Len(s3) + 4 = 13 + a
      BY <1>2, <1>7
    <2> HIDE DEF s4, a, b
    <2> QED
      BY <1>2, <1>7, <2>1, <2>2
  <1> HIDE DEF s4
  <1>9. /\ s5 \in Seq(Byte) /\ Len(s5) = 17 + a + b /\ Has(s5, 13 + a + b, code)
        /\ \A at \in Nat, p \in Seq(Byte) : Has(s4, at, p) => Has(s5, at, p)
    <2>1. /\ s5 \in Seq(Byte) /\ Len(s5) = Len(s4) + Len(code) /\ Has(s5, Len(s4), code)
          /\ \A at \in Nat, p \in Seq(Byte) : Has(s4, at, p) => Has(s5, at, p)
      BY <1>4, <1>8, Joint
    <2> HIDE DEF s5, a, b
    <2> QED
      BY <1>2, <1>4, <1>8, <2>1
  <1> HIDE DEF s5
  <1>10. /\ s6 \in Seq(Byte) /\ Len(s6) = 21 + a + b + c
         /\ Has(s6, 17 + a + b, NetBytes(c)) /\ Has(s6, 21 + a + b, err_info)
         /\ \A at \in Nat, p \in Seq(Byte) : Has(s5, at, p) => Has(s6, at, p)
    <2>1. /\ s6 \in Seq(Byte) /\ Len(s6) = Len(s5) + 4 + c
          /\ Has(s6, Len(s5), NetBytes(c)) /\ Has(s6, Len(s5) + 4, err_info)
          /\ \A at \in Nat, p \in Seq(Byte) : Has(s5, at, p) => Has(s6, at, p)
      BY <1>1, <1>9, FieldBytes
    <2>2. Len(s5) + 4 = 21 + a + b
      BY <1>2, <1>9
    <2> HIDE DEF s6, a, b, c
    <2> QED
      BY <1>2, <1>9, <2>1, <2>2
  <1> HIDE DEF s6
  <1>11. /\ s7 \in Seq(Byte) /\ Len(s7) = 21 + a + b + c + d /\ Has(s7, 21 + a + b + c, pb_data)
         /\ \A at \in Nat, p \in Seq(Byte) : Has(s6, at, p) => Has(s7, at, p)
    <2>1. /\ s7 \in Seq(Byte) /\ Len(s7) = Len(s6) + d /\ Has(s7, Len(s6), pb_data)
          /\ \A at \in Nat, p \in Seq(Byte) : Has(s6, at, p) => Has(s7, at, p)
      BY <1>1, <1>10, Joint
    <2> HIDE DEF s7, a, b, c, d
    <2> QED
      BY <1>2, <1>10, <2>1
  <1> HIDE DEF s7
  <1>12. /\ s8 \in Seq(Byte) /\ Len(s8) = 25 + a + b + c + d
         /\ \A at \in Nat, p \in Seq(Byte) : Has(s7, at, p) => Has(s8, at, p)
    <2>1. /\ s8 \in Seq(Byte) /\ Len(s8) = Len(s7) + Len(sum)
          /\ \A at \in Nat, p \in Seq(Byte) : Has(s7, at, p) => Has(s8, at, p)
      BY <1>4, <1>11, Joint
    <2> HIDE DEF s8, a, b, c, d
    <2> QED
      BY <1>2, <1>4, <1>11, <2>1
  <1> HIDE DEF s8
  <1>13. /\ s9 \in Seq(Byte) /\ Len(s9) = 26 + a + b + c + d /\ Has(s9, Len(s9) - 1, <<PB_END>>)
         /\ \A at \in Nat, p \in Seq(Byte) : Has(s8, at, p) => Has(s9, at, p)
    <2>1. /\ s9 \in Seq(Byte) /\ Len(s9) = Len(s8) + Len(<<PB_END>>) /\ Has(s9, Len(s8), <<PB_END>>)
          /\ \A at \in Nat, p \in Seq(Byte) : Has(s8, at, p) => Has(s9, at, p)
      BY <1>5, <1>12, Joint
    <2>2. Len(s8) \in Nat
      BY <1>12
    <2> HIDE DEF s9, a, b, c, d
    <2>3. Len(s9) = Len(s8) + 1
      BY <1>5, <2>1
    <2>4. Len(s9) - 1 = Len(s8)
      BY <2>2, <2>3
    <2>5. Len(s9) = 26 + a + b + c + d
      BY <1>2, <1>12, <2>3
    <2> QED
      BY <2>1, <2>4, <2>5
  <1> HIDE DEF s9
  <1>14. NetBytes(a) \in Seq(Byte) /\ NetBytes(b) \in Seq(Byte) /\ NetBytes(c) \in Seq(Byte)
         /\ <<PB_START>> \in Seq(Byte)
    <2> HIDE DEF a, b, c
    <2> QED
      BY <1>2, <1>5, NetBytesType, SMTT(30) DEF s1
  <1> HIDE DEF a, b, c, d
  <1>15. Has(s9, 0, <<PB_START>>) /\ Has(s9, 1, length) /\ Has(s9, 5, NetBytes(a)) /\ Has(s9, 9, id)
    <2>1. Has(s3, 0, <<PB_START>>) /\ Has(s3, 1, length)
      BY <1>4, <1>5, <1>6, <1>7, <1>14
    <2>2. /\ Has(s6, 0, <<PB_START>>) /\ Has(s6, 1, length)
          /\ Has(s6, 5, NetBytes(a)) /\ Has(s6, 9, id)
      BY <1>1, <1>4, <1>7, <1>8, <1>9, <1>10, <1>14, <2>1
    <2> QED
      BY <1>1, <1>4, <1>11, <1>12, <1>13, <1>14, <2>2
  <1>16. Has(s9, 9 + a, NetBytes(b)) /\ Has(s9, 13 + a, method_name) /\ Has(s9, 13 + a + b, code)
    <2>1. 9 + a \in Nat /\ 13 + a \in Nat /\ 13 + a + b \in Nat
      BY <1>2
    <2>2. Has(s6, 9 + a, NetBytes(b)) /\ Has(s6, 13 + a, method_name) /\ Has(s6, 13 + a + b, code)
      BY <1>1, <1>4, <1>8, <1>9, <1>10, <1>14, <2>1, Zenon
    <2> QED
      BY <1>1, <1>4, <1>11, <1>12, <1>13, <1>14, <2>1, <2>2, Zenon
  <1>17. /\ Has(s9, 17 + a + b, NetBytes(c)) /\ Has(s9, 21 + a + b, err_info)
         /\ Has(s9, 21 + a + b + c, pb_data)
    <2>1. 17 + a + b \in Nat /\ 21 + a + b \in Nat /\ 21 + a + b + c \in Nat
      BY <1>2
    <2> QED
      BY <1>1, <1>10, <1>11, <1>12, <1>13, <1>14, <2>1, Zenon
  <1>18. length = NetBytes(Len(s9))
    BY <1>3, <1>13, Zenon DEF length
  <1>19. Len(s9) = 9 + a + 4 + b + 4 + 4 + c + d + 5
    BY <1>2, <1>13
  <1>20. /\ 9 + a + 4 = 13 + a /\ 9 + a + 4 + b = 13 + a + b
         /\ 9 + a + 4 + b + 4 = 17 + a + b
         /\ 9 + a + 4 + b + 4 + 4 = 21 + a + b
         /\ 9 + a + 4 + b + 4 + 4 + c = 21 + a + b + c
    BY <1>2
  <1>21. Layout(s9, msg)
    BY <1>13, <1>15, <1>16, <1>17, <1>18, <1>19, <1>20, Zenon
    DEF Layout, a, b, c, d, id, method_name, err_info, pb_data, code
  <1> QED
    BY <1>3, <1>21

(* A package is in the vector of a buffer, from start on. *)
Placed(b, start, e) ==
  /\ start + Len(e) <= Len(b.m_buffer)
  /\ \A x \in 1 .. Len(e) : b.m_buffer[start + x] = e[x]

(* What is read from i on. *)
Reads(b, i, p, beyond) == \A x \in 1 .. Len(p) : At(b, i + x - 1, beyond) = p[x]

LEMMA PlacedReads ==
  ASSUME NEW b \in Buffer, NEW start \in Nat, NEW e \in Seq(Byte), Placed(b, start, e),
         NEW at \in Nat, NEW p \in Seq(Byte), Has(e, at, p),
         NEW i, i = start + at, NEW beyond
  PROVE  Reads(b, i, p, beyond)
  <1> SUFFICES ASSUME NEW x \in 1 .. Len(p)
               PROVE  At(b, i + x - 1, beyond) = p[x]
    BY DEF Reads
  <1> DEFINE s == b.m_buffer
             j == i + x - 1
  <1>1. s \in Seq(Byte)
    BY DEF Buffer
  <1>2. Len(s) \in Nat /\ Len(e) \in Nat /\ Len(p) \in Nat
    BY <1>1
  <1>3. /\ start + Len(e) <= Len(s) /\ at + Len(p) <= Len(e)
        /\ \A y \in 1 .. Len(e) : s[start + y] = e[y]
        /\ e[at + x] = p[x]
    BY DEF Placed, Has
  <1> HIDE DEF s
  <1>4. j \in 0 .. Len(s) - 1 /\ j + 1 = start + (at + x) /\ at + x \in 1 .. Len(e)
    BY <1>2, <1>3
  <1>5. s[j + 1] = p[x]
    BY <1>3, <1>4
  <1>6. At(b, j, beyond) = IF j \in 0 .. Len(s) - 1 THEN s[j + 1] ELSE beyond
    BY Zenon DEF At, s
  <1> HIDE DEF j
  <1>7. At(b, j, beyond) = p[x]
    BY <1>4, <1>5, <1>6
  <1> QED
    BY <1>7 DEF j

LEMMA IntRead ==
  ASSUME NEW b \in Buffer, NEW start \in Nat, NEW e \in Seq(Byte), Placed(b, start, e),
         NEW at \in Nat, NEW n \in Int, IsInt32(n), Has(e, at, NetBytes(n)),
         NEW i, i = start + at, NEW beyond
  PROVE  getInt32FromNetByte(b, i, beyond) = n
  <1> DEFINE p == NetBytes(n)
  <1>1. p \in Seq(Byte) /\ Len(p) = 4
    BY NetBytesLength
  <1>2. ((Signed(p[1]) * 256 + p[2]) * 256 + p[3]) * 256 + p[4] = n
    BY NetBytesRead
  <1>3. Has(e, at, p)
    OBVIOUS
  <1> HIDE DEF p
  <1>4. Reads(b, i, p, beyond)
    BY <1>1, <1>3, PlacedReads
  <1>5. i + 1 - 1 = i /\ i + 2 - 1 = i + 1 /\ i + 3 - 1 = i + 2 /\ i + 4 - 1 = i + 3
    OBVIOUS
  <1>6. 1 \in 1 .. 4 /\ 2 \in 1 .. 4 /\ 3 \in 1 .. 4 /\ 4 \in 1 .. 4
    OBVIOUS
  <1>7. /\ At(b, i, beyond) = p[1] /\ At(b, i + 1, beyond) = p[2]
        /\ At(b, i + 2, beyond) = p[3] /\ At(b, i + 3, beyond) = p[4]
    BY <1>1, <1>4, <1>5, <1>6, Zenon DEF Reads
  <1>8. getInt32FromNetByte(b, i, beyond)
          = ((Signed(p[1]) * 256 + p[2]) * 256 + p[3]) * 256 + p[4]
    BY <1>7, SMTT(30) DEF getInt32FromNetByte
  <1> QED
    BY <1>2, <1>8, SMTT(30)

LEMMA BytesRead ==
  ASSUME NEW b \in Buffer, NEW start \in Nat, NEW e \in Seq(Byte), Placed(b, start, e),
         NEW at \in Nat, NEW p \in Seq(Byte), Has(e, at, p),
         NEW i, i = start + at, NEW beyond
  PROVE  Bytes(b, i, Len(p), beyond) = p
  <1>1. Reads(b, i, p, beyond)
    BY PlacedReads
  <1>2. Bytes(b, i, Len(p), beyond) = [k \in 1 .. Len(p) |-> p[k]]
    BY <1>1, Zenon DEF Bytes, Reads
  <1> QED
    BY <1>2

LEMMA CStringKept ==
  ASSUME NEW p \in Seq(Byte), \A k \in DOMAIN p : p[k] # 0
  PROVE  CString(p) = p
  <1>1. {k \in DOMAIN p : p[k] = 0} = {}
    OBVIOUS
  <1> QED
    BY <1>1, Zenon DEF CString

(* Wherever the in-buffer holds a package of encode's, and whatever is     *)
(* around it, decode finds its end, takes it for a package and parses the  *)
(* message that was encoded: no cut of a field, no sign of a length and no *)
(* terminator comes in between, for messages that Kept describes.          *)
THEOREM DecodeInvertsEncode ==
  ASSUME NEW msg \in Message, Kept(msg),
         NEW b \in Buffer, NEW start \in Nat, Placed(b, start, encodeTinyPB(msg)),
         NEW beyond
  PROVE  LET end == start + Len(encodeTinyPB(msg)) - 1
         IN  /\ EndIndex(b, start, beyond) = end
             /\ end < b.m_write_index => PackageAt(b, start, beyond)
             /\ Parse(b, start, end, beyond) = [kind |-> "message", message |-> msg]
  <1> DEFINE e == encodeTinyPB(msg)
             id == msg.msg_id
             method_name == msg.method_name
             err_info == msg.err_info
             pb_data == msg.pb_data
             end == start + Len(e) - 1
             l1 == Len(id)
             l2 == Len(method_name)
             l3 == Len(err_info)
             l4 == Len(pb_data)
  <1>1. /\ id \in Seq(Byte) /\ method_name \in Seq(Byte) /\ err_info \in Seq(Byte)
        /\ pb_data \in Seq(Byte) /\ msg.err_code \in Int
    BY DEF Message
  <1>2. /\ l1 \in Nat /\ l2 \in Nat /\ l3 \in Nat /\ l4 \in Nat
        /\ l1 # 0 /\ l1 < 100 /\ l2 < 512 /\ l3 < 512
        /\ id # <<>> /\ IsInt32(msg.err_code) /\ IsInt32(PkLen(msg))
    <2>1. /\ id # <<>> /\ l1 < 100 /\ l2 < 512 /\ l3 < 512
          /\ IsInt32(msg.err_code) /\ IsInt32(PkLen(msg))
      BY Zenon DEF Kept
    <2> QED
      BY <1>1, <2>1
  <1>3. CString(id) = id /\ CString(method_name) = method_name /\ CString(err_info) = err_info
    BY <1>1, CStringKept DEF Kept
  <1>4. Layout(e, msg)
    BY <1>2, EncodeLayout
  <1>5. /\ e \in Seq(Byte) /\ Len(e) = 26 + l1 + l2 + l3 + l4
        /\ Has(e, 0, <<PB_START>>) /\ Has(e, 1, NetBytes(Len(e)))
        /\ Has(e, 5, NetBytes(l1)) /\ Has(e, 9, id)
        /\ Has(e, 9 + l1, NetBytes(l2)) /\ Has(e, 13 + l1, method_name)
        /\ Has(e, 13 + l1 + l2, NetBytes(msg.err_code))
        /\ Has(e, 17 + l1 + l2, NetBytes(l3)) /\ Has(e, 21 + l1 + l2, err_info)
        /\ Has(e, 21 + l1 + l2 + l3, pb_data)
        /\ Has(e, Len(e) - 1, <<PB_END>>)
    <2>1. /\ e \in Seq(Byte) /\ Len(e) = 9 + l1 + 4 + l2 + 4 + 4 + l3 + l4 + 5
          /\ Has(e, 0, <<PB_START>>) /\ Has(e, 1, NetBytes(Len(e)))
          /\ Has(e, 5, NetBytes(l1)) /\ Has(e, 9, id)
          /\ Has(e, 9 + l1, NetBytes(l2)) /\ Has(e, 9 + l1 + 4, method_name)
          /\ Has(e, 9 + l1 + 4 + l2, NetBytes(msg.err_code))
          /\ Has(e, 9 + l1 + 4 + l2 + 4, NetBytes(l3)) /\ Has(e, 9 + l1 + 4 + l2 + 4 + 4, err_info)
          /\ Has(e, 9 + l1 + 4 + l2 + 4 + 4 + l3, pb_data)
          /\ Has(e, Len(e) - 1, <<PB_END>>)
      BY <1>4, Zenon DEF Layout
    <2> HIDE DEF e, l1, l2, l3, l4, id, method_name, err_info, pb_data
    <2>2. /\ 9 + l1 + 4 = 13 + l1 /\ 9 + l1 + 4 + l2 = 13 + l1 + l2
          /\ 9 + l1 + 4 + l2 + 4 = 17 + l1 + l2
          /\ 9 + l1 + 4 + l2 + 4 + 4 = 21 + l1 + l2
          /\ 9 + l1 + 4 + l2 + 4 + 4 + l3 = 21 + l1 + l2 + l3
          /\ 9 + l1 + 4 + l2 + 4 + 4 + l3 + l4 + 5 = 26 + l1 + l2 + l3 + l4
      BY <1>2
    <2> QED
      BY <2>1, <2>2, Zenon
  <1>6. PkLen(msg) = Len(e)
    <2>1. MsgId(msg) = id
      BY <1>2 DEF MsgId
    <2>2. PkLen(msg) = 2 + 24 + l1 + l2 + l3 + l4
      BY <2>1, Zenon DEF PkLen
    <2> HIDE DEF l1, l2, l3, l4, e
    <2> QED
      BY <1>2, <1>5, <2>2
  <1>7. Placed(b, start, e)
    OBVIOUS
  <1> HIDE DEF e, l1, l2, l3, l4, id, method_name, err_info, pb_data
  <1> DEFINE IntAt(i) == getInt32FromNetByte(b, i, beyond)
             L == Len(e)
  <1>8. L \in Nat /\ IsInt32(L) /\ L = 26 + l1 + l2 + l3 + l4
    BY <1>2, <1>5, <1>6
  <1> HIDE DEF L
  <1>9. IsInt32(l1) /\ IsInt32(l2) /\ IsInt32(l3)
    BY <1>2 DEF IsInt32
  <1>10. /\ IntAt(start + 1) = L /\ IntAt(start + 5) = l1
         /\ IntAt(start + (9 + l1)) = l2 /\ IntAt(start + (13 + l1 + l2)) = msg.err_code
         /\ IntAt(start + (17 + l1 + l2)) = l3
    <2>1. /\ 1 \in Nat /\ 5 \in Nat /\ 9 + l1 \in Nat /\ 13 + l1 + l2 \in Nat
          /\ 17 + l1 + l2 \in Nat
          /\ L \in Int /\ l1 \in Int /\ l2 \in Int /\ l3 \in Int
      BY <1>2, <1>8
    <2>2. IntAt(start + 1) = L
      <3>1. Has(e, 1, NetBytes(L))
        BY <1>5 DEF L
      <3> QED
        BY <1>5, <1>7, <1>8, <2>1, <3>1, IntRead, SMTT(30)
    <2>3. IntAt(start + 5) = l1
      BY <1>5, <1>7, <1>9, <2>1, IntRead, SMTT(30)
    <2>4. IntAt(start + (9 + l1)) = l2
      BY <1>5, <1>7, <1>9, <2>1, IntRead, SMTT(30)
    <2>5. IntAt(start + (13 + l1 + l2)) = msg.err_code
      <3> DEFINE code == msg.err_code
                 at == 13 + l1 + l2
      <3>1. code \in Int /\ IsInt32(code) /\ Has(e, at, NetBytes(code)) /\ at \in Nat
        BY <1>1, <1>2, <1>5, <2>1
      <3> HIDE DEF code, at
      <3>2. IntAt(start + at) = code
        BY <1>5, <1>7, <3>1, IntRead, SMTT(30)
      <3> QED
        BY <3>2 DEF code, at
    <2>6. IntAt(start + (17 + l1 + l2)) = l3
      BY <1>5, <1>7, <1>9, <2>1, IntRead, SMTT(30)
    <2> QED
      BY <2>2, <2>3, <2>4, <2>5, <2>6
  <1>11. /\ Bytes(b, start + 9, l1, beyond) = id
         /\ Bytes(b, start + (13 + l1), l2, beyond) = method_name
         /\ Bytes(b, start + (21 + l1 + l2), l3, beyond) = err_info
         /\ Bytes(b, start + (21 + l1 + l2 + l3), l4, beyond) = pb_data
    <2>1. /\ 9 \in Nat /\ 13 + l1 \in Nat /\ 21 + l1 + l2 \in Nat /\ 21 + l1 + l2 + l3 \in Nat
      BY <1>2
    <2>2. Bytes(b, start + 9, Len(id), beyond) = id
      BY <1>1, <1>5, <1>7, <2>1, BytesRead, SMTT(30)
    <2>3. Bytes(b, start + (13 + l1), Len(method_name), beyond) = method_name
      BY <1>1, <1>5, <1>7, <2>1, BytesRead, SMTT(30)
    <2>4. Bytes(b, start + (21 + l1 + l2), Len(err_info), beyond) = err_info
      BY <1>1, <1>5, <1>7, <2>1, BytesRead, SMTT(30)
    <2>5. Bytes(b, start + (21 + l1 + l2 + l3), Len(pb_data), beyond) = pb_data
      BY <1>1, <1>5, <1>7, <2>1, BytesRead, SMTT(30)
    <2> QED
      BY <2>2, <2>3, <2>4, <2>5, Zenon DEF l1, l2, l3, l4
  <1>12. EndIndex(b, start, beyond) = end
    BY <1>8, <1>10 DEF EndIndex, L
  <1>13. ASSUME end < b.m_write_index PROVE PackageAt(b, start, beyond)
    <2>1. /\ b.m_buffer[start + 1] = PB_START /\ At(b, end, beyond) = PB_END
      <3>1. <<PB_START>> \in Seq(Byte) /\ <<PB_END>> \in Seq(Byte)
        BY CoderAssumption DEF PB_START, PB_END
      <3>2. e[1] = PB_START
        <4>1. e[0 + 1] = <<PB_START>>[1]
          <5>1. \A x \in 1 .. Len(<<PB_START>>) : e[0 + x] = <<PB_START>>[x]
            BY <1>5 DEF Has
          <5>2. 1 \in 1 .. Len(<<PB_START>>)
            OBVIOUS
          <5> QED
            BY <5>1, <5>2
        <4> QED
          BY <4>1
      <3>3. b.m_buffer[start + 1] = e[1]
        <4>1. 1 \in 1 .. Len(e)
          BY <1>2, <1>5
        <4> QED
          BY <1>7, <4>1 DEF Placed
      <3>4. Reads(b, end, <<PB_END>>, beyond)
        <4>1. L - 1 \in Nat /\ Has(e, L - 1, <<PB_END>>) /\ end = start + (L - 1)
          BY <1>2, <1>5, <1>8 DEF L
        <4> QED
          BY <1>5, <1>7, <3>1, <4>1, PlacedReads
      <3>5. end + 1 - 1 = end /\ 1 \in 1 .. Len(<<PB_END>>) /\ <<PB_END>>[1] = PB_END
        BY <1>8 DEF L
      <3>6. At(b, end, beyond) = PB_END
        <4>1. At(b, end + 1 - 1, beyond) = <<PB_END>>[1]
          BY <3>4, <3>5, Zenon DEF Reads
        <4> QED
          BY <3>5, <4>1, Zenon
      <3> QED
        BY <3>2, <3>3, <3>6, Zenon
    <2>2. start + 1 < b.m_write_index
      <3>1. b.m_write_index \in Nat /\ start + 1 < end
        BY <1>2, <1>8 DEF Buffer, L
      <3> QED
        BY <1>8, <1>13, <3>1 DEF L
    <2> QED
      BY <1>12, <1>13, <2>1, <2>2, Zenon DEF PackageAt
  <1>14. Parse(b, start, end, beyond) = [kind |-> "message", message |-> msg]
    <2> DEFINE id_len_at   == start + 5
               id_len      == IntAt(id_len_at)
               name_len_at == id_len_at + 4 + id_len
               name_len    == IntAt(name_len_at)
               err_code_at == name_len_at + 4 + name_len
               info_len_at == err_code_at + 4
               info_len    == IntAt(info_len_at)
               data_len    == IntAt(start + 1) - name_len - id_len - info_len - 2 - 24
               checked     == <<id_len_at < end, name_len_at < end,
                                err_code_at < end, info_len_at < end>>
               assumed     == <<FitsArray(b, id_len_at + 4, id_len, 100, beyond),
                                FitsArray(b, name_len_at + 4, name_len, 512, beyond), TRUE,
                                FitsArray(b, info_len_at + 4, info_len, 512, beyond) /\ data_len >= 0>>
               failed      == {k \in 1 .. 4 : ~(checked[k] /\ assumed[k])}
               first       == CHOOSE k \in failed : \A f \in failed : k <= f
               message     ==
                 [msg_id      |-> CString(Bytes(b, id_len_at + 4, id_len, beyond)),
                  method_name |-> CString(Bytes(b, name_len_at + 4, name_len, beyond)),
                  err_code    |-> IntAt(err_code_at),
                  err_info    |-> CString(Bytes(b, info_len_at + 4, info_len, beyond)),
                  pb_data     |-> Bytes(b, info_len_at + 4 + info_len, data_len, beyond)]
    <2>1. Parse(b, start, end, beyond) =
            IF failed # {}
            THEN [kind |-> IF checked[first] THEN "undefined" ELSE "dropped", message |-> <<>>]
            ELSE [kind |-> "message", message |-> message]
      BY Zenon DEF Parse
    <2>2. id_len = l1 /\ id_len_at + 4 = start + 9
      BY <1>10
    <2> HIDE DEF id_len
    <2>3. name_len_at = start + (9 + l1) /\ name_len_at + 4 = start + (13 + l1)
      BY <1>2, <2>2
    <2> HIDE DEF name_len_at
    <2>4. name_len = l2
      BY <1>10, <2>3, Zenon
    <2> HIDE DEF name_len
    <2>5. err_code_at = start + (13 + l1 + l2) /\ info_len_at = start + (17 + l1 + l2)
      BY <1>2, <2>3, <2>4
    <2> HIDE DEF err_code_at, info_len_at
    <2>6. info_len = l3 /\ IntAt(err_code_at) = msg.err_code
      BY <1>10, <2>5, Zenon
    <2> HIDE DEF info_len
    <2>7. /\ info_len_at + 4 = start + (21 + l1 + l2)
          /\ info_len_at + 4 + info_len = start + (21 + l1 + l2 + l3)
      BY <1>2, <2>5, <2>6
    <2>8. data_len = l4
      <3>1. IntAt(start + 1) = L
        BY <1>10
      <3> HIDE DEF IntAt
      <3> QED
        BY <1>2, <1>8, <2>2, <2>4, <2>6, <3>1
    <2> HIDE DEF data_len, IntAt
    <2>9. \A k \in 1 .. 4 : checked[k]
      <3>1. id_len_at < end /\ name_len_at < end /\ err_code_at < end /\ info_len_at < end
        BY <1>2, <1>8, <2>3, <2>5 DEF L
      <3>2. /\ checked[1] = (id_len_at < end) /\ checked[2] = (name_len_at < end)
            /\ checked[3] = (err_code_at < end) /\ checked[4] = (info_len_at < end)
        OBVIOUS
      <3> HIDE DEF checked, id_len_at, end
      <3>3. checked[1] /\ checked[2] /\ checked[3] /\ checked[4]
        BY <3>1, <3>2, Zenon
      <3> QED
        BY <3>3
    <2>10. \A k \in 1 .. 4 : assumed[k]
      <3>1. /\ id_len \in 0 .. 100 /\ name_len \in 0 .. 512 /\ info_len \in 0 .. 512
            /\ id_len # 100 /\ name_len # 512 /\ info_len # 512 /\ data_len >= 0
        BY <1>2, <2>2, <2>4, <2>6, <2>8
      <3>2. /\ assumed[1] = FitsArray(b, id_len_at + 4, id_len, 100, beyond)
            /\ assumed[2] = FitsArray(b, name_len_at + 4, name_len, 512, beyond)
            /\ assumed[3] = TRUE
            /\ assumed[4] = (FitsArray(b, info_len_at + 4, info_len, 512, beyond) /\ data_len >= 0)
        OBVIOUS
      <3> HIDE DEF assumed, id_len_at
      <3>3. /\ FitsArray(b, id_len_at + 4, id_len, 100, beyond)
            /\ FitsArray(b, name_len_at + 4, name_len, 512, beyond)
            /\ FitsArray(b, info_len_at + 4, info_len, 512, beyond)
        BY <3>1, Zenon DEF FitsArray
      <3>4. assumed[1] /\ assumed[2] /\ assumed[3] /\ assumed[4]
        BY <3>1, <3>2, <3>3, ZenonT(40)
      <3> HIDE DEF end
      <3> QED
        BY <3>4
    <2>11. failed = {}
      <3> HIDE DEF checked, assumed
      <3> QED
        BY <2>9, <2>10
    <2>12. message = msg
      <3>1. message = [msg_id |-> id, method_name |-> method_name, err_code |-> msg.err_code,
                       err_info |-> err_info, pb_data |-> pb_data]
        BY <1>3, <1>11, <2>2, <2>3, <2>4, <2>5, <2>6, <2>7, <2>8, Zenon
      <3> HIDE DEF message
      <3> QED
        BY <3>1 DEF Message, id, method_name, err_info, pb_data
    <2> HIDE DEF failed, message, checked, first
    <2> QED
      BY <2>1, <2>11, <2>12, Zenon
  <1> QED
    BY <1>12, <1>13, <1>14, Zenon DEF e
-----------------------------------------------------------------------------
(* The stream: where a request begins in it.                               *)

Upto(k) == Encoded(SubSeq(Requests, 1, k))

(* One more element of the front of a sequence. *)
LEMMA NextPart ==
  ASSUME NEW S, NEW s \in Seq(S), NEW k \in 0 .. Len(s) - 1
  PROVE  /\ SubSeq(s, 1, k) \in Seq(S) /\ s[k + 1] \in S
         /\ SubSeq(s, 1, k + 1) = Append(SubSeq(s, 1, k), s[k + 1])
  <1> DEFINE p == SubSeq(s, 1, k)
             q == SubSeq(s, 1, k + 1)
             x == s[k + 1]
  <1>1. k \in Nat /\ k + 1 \in Nat /\ k <= Len(s) /\ k + 1 <= Len(s) /\ x \in S
    OBVIOUS
  <1>2. /\ p \in Seq(S) /\ Len(p) = k
        /\ \A i \in 1 .. k : p[i] = s[i]
    <2>1. p \in Seq(S) /\ Len(p) = k - 1 + 1 /\ \A i \in 1 .. k - 1 + 1 : p[i] = s[1 + i - 1]
      BY <1>1, Part
    <2> HIDE DEF p
    <2> QED
      BY <1>1, <2>1
  <1>3. /\ q \in Seq(S) /\ Len(q) = k + 1
        /\ \A i \in 1 .. k + 1 : q[i] = s[i]
    <2>1. /\ q \in Seq(S) /\ Len(q) = (k + 1) - 1 + 1
          /\ \A i \in 1 .. (k + 1) - 1 + 1 : q[i] = s[1 + i - 1]
      BY <1>1, Part
    <2> HIDE DEF q
    <2> QED
      BY <1>1, <2>1
  <1> HIDE DEF p, q, x
  <1> DEFINE a == Append(p, x)
  <1>4. /\ a \in Seq(S) /\ Len(a) = k + 1 /\ a[k + 1] = x
        /\ \A i \in 1 .. k : a[i] = p[i]
    BY <1>1, <1>2, AppendProperties
  <1> HIDE DEF a
  <1>5. \A i \in 1 .. k + 1 : a[i] = q[i]
    BY <1>1, <1>2, <1>3, <1>4 DEF x
  <1>6. a = q
    BY <1>1, <1>3, <1>4, <1>5, SeqEqual
  <1> QED
    BY <1>1, <1>2, <1>6 DEF a, p, q, x

LEMMA UptoStep ==
  ASSUME NEW k \in 0 .. Len(Requests) - 1
  PROVE  /\ Requests[k + 1] \in Message
         /\ Upto(k) \in Seq(Byte) /\ encodeTinyPB(Requests[k + 1]) \in Seq(Byte)
         /\ Upto(k + 1) = Upto(k) \o encodeTinyPB(Requests[k + 1])
  <1> DEFINE p == SubSeq(Requests, 1, k)
             msg == Requests[k + 1]
  <1>1. p \in Seq(Message) /\ msg \in Message /\ SubSeq(Requests, 1, k + 1) = Append(p, msg)
    BY RequestsAssumption, NextPart
  <1> HIDE DEF p, msg
  <1>2. Encoded(Append(p, msg)) = Encoded(p) \o encodeTinyPB(msg) /\ Encoded(p) \in Seq(Byte)
    BY <1>1, EncodedAppend, EncodedType
  <1>3. encodeTinyPB(msg) \in Seq(Byte)
    BY <1>1, EncodeType
  <1> QED
    BY <1>1, <1>2, <1>3, Zenon DEF Upto, p, msg

LEMMA UptoEnds ==
  /\ Upto(0) = <<>> /\ Upto(Len(Requests)) = Stream
  /\ \A k \in 0 .. Len(Requests) : Upto(k) \in Seq(Byte)
  <1>1. Requests \in Seq(Message) /\ Len(Requests) \in Nat
    BY RequestsAssumption
  <1>2. Upto(0) = <<>>
    <2> DEFINE e == [k \in DOMAIN <<>> |-> encodeTinyPB(<<>>[k])]
    <2>1. SubSeq(Requests, 1, 0) = <<>>
      BY <1>1
    <2>2. e \in Seq(Seq(Byte)) /\ e = <<>>
      OBVIOUS
    <2> HIDE DEF e
    <2>3. FlattenSeq(e) = <<>>
      BY <2>2, FlattenType
    <2> QED
      BY <2>1, <2>3 DEF Upto, Encoded, e
  <1>3. Upto(Len(Requests)) = Stream
    <2>1. SubSeq(Requests, 1, Len(Requests)) = Requests
      BY <1>1
    <2> QED
      BY <2>1 DEF Upto, Encoded, Stream
  <1>4. ASSUME NEW k \in 0 .. Len(Requests) PROVE Upto(k) \in Seq(Byte)
    <2>1. CASE k = Len(Requests)
      BY <1>3, <2>1, StreamType
    <2>2. CASE k # Len(Requests)
      <3>1. k \in 0 .. Len(Requests) - 1
        BY <1>1, <2>2
      <3> QED
        BY <3>1, UptoStep
    <2> QED
      BY <2>1, <2>2
  <1> QED
    BY <1>2, <1>3, <1>4

LEMMA HasItself ==
  ASSUME NEW s \in Seq(Byte)
  PROVE  Has(s, 0, s) /\ Has(s, 0, <<>>)
  BY DEF Has

LEMMA HasWithin ==
  ASSUME NEW s \in Seq(Byte), NEW t \in Seq(Byte), NEW p \in Seq(Byte), NEW at \in Nat,
         Has(s, 0, t), Has(t, at, p)
  PROVE  Has(s, at, p)
  <1>1. Len(s) \in Nat /\ Len(t) \in Nat /\ Len(p) \in Nat
    OBVIOUS
  <1>2. /\ Len(t) <= Len(s) /\ \A x \in 1 .. Len(t) : s[x] = t[x]
    <2>1. /\ 0 + Len(t) <= Len(s) /\ \A x \in 1 .. Len(t) : s[0 + x] = t[x]
      BY DEF Has
    <2> QED
      BY <1>1, <2>1
  <1>3. at + Len(p) <= Len(t) /\ \A x \in 1 .. Len(p) : t[at + x] = p[x]
    BY DEF Has
  <1>4. \A x \in 1 .. Len(p) : at + x \in 1 .. Len(t)
    BY <1>1, <1>3
  <1> QED
    BY <1>1, <1>2, <1>3, <1>4, SMTT(30) DEF Has

(* What is encoded later is behind what is encoded earlier. *)
LEMMA UptoGrows ==
  ASSUME NEW k \in 0 .. Len(Requests), NEW m \in 0 .. k
  PROVE  Has(Upto(k), 0, Upto(m))
  <1> DEFINE N == Len(Requests)
             S == {i \in 1 .. N : \A j \in 0 .. i : Has(Upto(i), 0, Upto(j))}
  <1>1. N \in Nat
    BY RequestsAssumption
  <1>2. \A i \in 0 .. N : Has(Upto(i), 0, Upto(i)) /\ Has(Upto(i), 0, Upto(0))
    BY UptoEnds, HasItself
  <1>3. N = 0 \/ 1 \in S
    <2> SUFFICES ASSUME N # 0 PROVE 1 \in S
      OBVIOUS
    <2>1. 1 \in 1 .. N /\ 1 \in 0 .. N /\ \A j \in 0 .. 1 : j = 0 \/ j = 1
      BY <1>1
    <2> HIDE DEF N
    <2>2. \A j \in 0 .. 1 : Has(Upto(1), 0, Upto(j))
      BY <1>2, <2>1
    <2> QED
      BY <2>1, <2>2
  <1>4. ASSUME NEW i \in 1 .. N, i \in S, i < N PROVE i + 1 \in S
    <2>1. i \in 0 .. N - 1 /\ i + 1 \in 1 .. N /\ i + 1 \in 0 .. N /\ i \in Nat
      BY <1>1, <1>4
    <2>2. /\ Upto(i) \in Seq(Byte) /\ encodeTinyPB(Requests[i + 1]) \in Seq(Byte)
          /\ Upto(i + 1) = Upto(i) \o encodeTinyPB(Requests[i + 1])
      BY <2>1, UptoStep
    <2>3. \A p \in Seq(Byte) : Has(Upto(i), 0, p) => Has(Upto(i + 1), 0, p)
      <3> DEFINE u == Upto(i)
                 e == encodeTinyPB(Requests[i + 1])
      <3>1. u \in Seq(Byte) /\ e \in Seq(Byte) /\ Upto(i + 1) = u \o e
        BY <2>2
      <3> HIDE DEF u, e
      <3>2. \A at \in Nat, p \in Seq(Byte) : Has(u, at, p) => Has(u \o e, at, p)
        BY <3>1, Joint
      <3>3. 0 \in Nat
        OBVIOUS
      <3> QED
        BY <3>1, <3>2, <3>3, Zenon DEF u
    <2>4. ASSUME NEW j \in 0 .. i + 1 PROVE Has(Upto(i + 1), 0, Upto(j))
      <3>1. CASE j = i + 1
        BY <1>2, <2>1, <3>1
      <3>2. CASE j # i + 1
        <4>1. j \in 0 .. i /\ j \in 0 .. N
          BY <1>1, <2>1, <3>2
        <4>2. Has(Upto(i), 0, Upto(j))
          BY <1>4, <4>1
        <4>3. Upto(j) \in Seq(Byte)
          BY <4>1, UptoEnds
        <4> QED
          BY <2>3, <4>2, <4>3
      <3> QED
        BY <3>1, <3>2
    <2> QED
      BY <2>1, <2>4
  <1> HIDE DEF S
  <1>5. \A i \in 1 .. N : i \in S
    BY <1>1, <1>3, <1>4, UpTo
  <1>6. CASE k = 0
    <2>1. m = 0 /\ k \in 0 .. N
      BY <1>6
    <2> QED
      BY <1>2, <1>6, <2>1
  <1>7. CASE k # 0
    <2>1. k \in 1 .. N
      BY <1>1, <1>7
    <2> QED
      BY <1>5, <2>1 DEF S
  <1> QED
    BY <1>6, <1>7

LEMMA RequestPlace ==
  ASSUME NEW k \in 0 .. Len(Requests) - 1
  PROVE  LET e == encodeTinyPB(Requests[k + 1])
         IN  /\ Requests[k + 1] \in Message /\ e \in Seq(Byte)
             /\ Len(Upto(k)) \in Nat /\ Len(Upto(k + 1)) = Len(Upto(k)) + Len(e)
             /\ Has(Stream, Len(Upto(k)), e)
  <1> DEFINE e == encodeTinyPB(Requests[k + 1])
             u == Upto(k)
             v == Upto(k + 1)
  <1>1. Requests[k + 1] \in Message /\ u \in Seq(Byte) /\ e \in Seq(Byte) /\ v = u \o e
    BY UptoStep
  <1>2. /\ Len(Requests) \in Nat /\ Len(Requests) \in 0 .. Len(Requests)
        /\ k + 1 \in 0 .. Len(Requests)
    BY RequestsAssumption
  <1>3. Has(Stream, 0, v)
    BY <1>2, UptoGrows, UptoEnds
  <1> HIDE DEF u, v, e
  <1>4. v \in Seq(Byte) /\ Len(v) = Len(u) + Len(e) /\ Has(v, Len(u), e) /\ Len(u) \in Nat
    BY <1>1, Joint
  <1>5. Has(Stream, Len(u), e)
    BY <1>1, <1>3, <1>4, StreamType, HasWithin
  <1> QED
    BY <1>1, <1>4, <1>5 DEF u, v, e
-----------------------------------------------------------------------------
(* The bytes of the in-buffer, while none was lost.                        *)

(* What can be read is the stream behind its first at bytes. *)
Follows(b, at) ==
  \A x \in 1 .. readAble(b) : b.m_buffer[b.m_read_index + x] = Stream[at + x]

(* Nothing has been written behind the write index. *)
Clean(b) == \A i \in b.m_write_index + 1 .. BufferSize : b.m_buffer[i] = 0

(* What is behind the first m of a sequence, up to n. *)
LEMMA Segment ==
  ASSUME NEW S, NEW s \in Seq(S), NEW m \in Nat, NEW n \in Nat, m <= n, n <= Len(s),
         NEW p, p = SubSeq(s, m + 1, n)
  PROVE  /\ p \in Seq(S) /\ Len(p) = n - m
         /\ \A i \in 1 .. n - m : p[i] = s[m + i]
  <1>1. m + 1 \in Nat /\ m + 1 >= 1 /\ m + 1 <= n + 1
    OBVIOUS
  <1>2. /\ p \in Seq(S) /\ Len(p) = n - (m + 1) + 1
        /\ \A i \in 1 .. n - (m + 1) + 1 : p[i] = s[(m + 1) + i - 1]
    BY <1>1, Part, Zenon
  <1>3. Len(p) = n - m
    BY <1>2
  <1>4. ASSUME NEW i \in 1 .. n - m PROVE p[i] = s[m + i]
    <2>1. i \in 1 .. n - (m + 1) + 1 /\ (m + 1) + i - 1 = m + i
      OBVIOUS
    <2>2. p[i] = s[(m + 1) + i - 1]
      BY <1>2, <2>1
    <2> QED
      BY <2>1, <2>2
  <1> QED
    BY <1>2, <1>3, <1>4

LEMMA StoredPlaces ==
  ASSUME NEW s \in Seq(Byte), NEW w \in Nat, NEW bytes \in Seq(Byte),
         w + Len(bytes) <= Len(s)
  PROVE  LET t == SubSeq(s, 1, w) \o bytes \o SubSeq(s, w + Len(bytes) + 1, Len(s))
         IN  /\ t \in Seq(Byte) /\ Len(t) = Len(s)
             /\ \A i \in 1 .. w : t[i] = s[i]
             /\ \A i \in 1 .. Len(bytes) : t[w + i] = bytes[i]
             /\ \A i \in w + Len(bytes) + 1 .. Len(s) : t[i] = s[i]
  <1> DEFINE n == Len(s)
             k == Len(bytes)
             p == SubSeq(s, 1, w)
             q == SubSeq(s, w + k + 1, n)
             u == p \o bytes
             t == u \o q
  <1>1. n \in Nat /\ k \in Nat /\ w + k <= n
    OBVIOUS
  <1>2. p \in Seq(Byte) /\ Len(p) = w /\ \A i \in 1 .. w : p[i] = s[i]
    <2>1. /\ p \in Seq(Byte) /\ Len(p) = w - 1 + 1
          /\ \A i \in 1 .. w - 1 + 1 : p[i] = s[1 + i - 1]
      BY <1>1, Part
    <2> HIDE DEF p
    <2> QED
      BY <2>1
  <1>3. /\ q \in Seq(Byte) /\ Len(q) = n - (w + k)
        /\ \A i \in 1 .. n - (w + k) : q[i] = s[w + k + i]
    <2> DEFINE m == w + k
    <2>1. m \in Nat /\ m <= n /\ q = SubSeq(s, m + 1, n) /\ n <= Len(s)
      BY <1>1
    <2> HIDE DEF q, n, m
    <2>2. q \in Seq(Byte) /\ Len(q) = n - m /\ \A i \in 1 .. n - m : q[i] = s[m + i]
      BY <1>1, <2>1, Segment
    <2> QED
      BY <2>2 DEF m
  <1> HIDE DEF n, k, p, q
  <1>4. /\ u \in Seq(Byte) /\ Len(u) = w + k
        /\ \A i \in 1 .. w : u[i] = s[i]
        /\ \A i \in 1 .. k : u[w + i] = bytes[i]
    <2>1. /\ u \in Seq(Byte) /\ Len(u) = Len(p) + Len(bytes)
          /\ Has(u, 0, p) /\ Has(u, Len(p), bytes)
      BY <1>2, Joint
    <2> HIDE DEF u
    <2>2. /\ \A x \in 1 .. w : u[0 + x] = p[x]
          /\ \A x \in 1 .. k : u[w + x] = bytes[x]
      BY <1>2, <2>1 DEF Has, k
    <2> QED
      BY <1>1, <1>2, <2>1, <2>2 DEF k
  <1> HIDE DEF u
  <1>5. /\ t \in Seq(Byte) /\ Len(t) = n
        /\ \A i \in 1 .. w + k : t[i] = u[i]
        /\ \A i \in w + k + 1 .. n : t[i] = s[i]
    <2>1. /\ t \in Seq(Byte) /\ Len(t) = Len(u) + Len(q)
          /\ Has(t, 0, u) /\ Has(t, Len(u), q)
      BY <1>3, <1>4, Joint
    <2> HIDE DEF t
    <2>2. /\ \A x \in 1 .. w + k : t[0 + x] = u[x]
          /\ \A x \in 1 .. n - (w + k) : t[w + k + x] = q[x]
      BY <1>3, <1>4, <2>1 DEF Has
    <2>3. \A x \in 1 .. n - (w + k) : t[w + k + x] = s[w + k + x]
      BY <1>3, <2>2
    <2>4. ASSUME NEW i \in w + k + 1 .. n PROVE t[i] = s[i]
      <3>1. i - (w + k) \in 1 .. n - (w + k) /\ w + k + (i - (w + k)) = i
        BY <1>1
      <3> QED
        BY <2>3, <3>1
    <2>5. \A i \in 1 .. w + k : t[i] = u[i]
      BY <2>2
    <2> QED
      BY <1>1, <1>3, <1>4, <2>1, <2>4, <2>5
  <1> HIDE DEF t
  <1>6. \A i \in 1 .. w : t[i] = s[i]
    BY <1>1, <1>4, <1>5
  <1>7. ASSUME NEW i \in 1 .. k PROVE t[w + i] = bytes[i]
    <2>1. w + i \in 1 .. w + k
      BY <1>1
    <2>2. t[w + i] = u[w + i]
      BY <1>5, <2>1
    <2>3. u[w + i] = bytes[i]
      BY <1>4, Zenon
    <2> QED
      BY <2>2, <2>3
  <1> QED
    BY <1>5, <1>6, <1>7, Zenon DEF t, u, p, q, n, k

(* The next n bytes of the stream. *)
LEMMA StreamPart ==
  ASSUME NEW p \in Nat, NEW n \in Nat, p + n <= Len(Stream)
  PROVE  LET bytes == SubSeq(Stream, p + 1, p + n)
         IN  /\ bytes \in Seq(Byte) /\ Len(bytes) = n
             /\ \A x \in 1 .. n : bytes[x] = Stream[p + x]
  <1> DEFINE st == Stream
             m == p + n
             bytes == SubSeq(st, p + 1, m)
  <1>1. st \in Seq(Byte) /\ m \in Nat /\ p <= m /\ m <= Len(st) /\ m - p = n
    BY StreamType
  <1> HIDE DEF st, m
  <1>2. bytes \in Seq(Byte) /\ Len(bytes) = m - p /\ \A x \in 1 .. m - p : bytes[x] = st[p + x]
    BY <1>1, Segment
  <1> HIDE DEF bytes
  <1> QED
    BY <1>1, <1>2 DEF st, m, bytes

(* A read that leaves room behind it goes on with the stream. *)
LEMMA DataFollows ==
  ASSUME NEW b, Open(b), Clean(b), NEW at \in Nat, Follows(b, at),
         NEW p \in Nat, p = at + readAble(b), NEW n \in Nat, p + n <= Len(Stream),
         n < writeAble(b),
         NEW c, c = moveWriteIndex(Stored(b, SubSeq(Stream, p + 1, p + n)), n)
  PROVE  /\ c.m_read_index = b.m_read_index /\ readAble(c) = readAble(b) + n
         /\ Follows(c, at) /\ Clean(c)
  <1> DEFINE bytes == SubSeq(Stream, p + 1, p + n)
  <1>1. PICK s \in Seq(Byte), r \in Nat, w \in Nat :
           /\ b = [m_buffer |-> s, m_read_index |-> r, m_write_index |-> w]
           /\ b.m_buffer = s /\ b.m_read_index = r /\ b.m_write_index = w
           /\ Len(s) = BufferSize /\ r <= w /\ w < BufferSize
           /\ readAble(b) = w - r /\ writeAble(b) = BufferSize - w /\ Sound(b)
    BY OpenShape
  <1>2. bytes \in Seq(Byte) /\ Len(bytes) = n /\ \A x \in 1 .. n : bytes[x] = Stream[p + x]
    BY StreamPart
  <1> HIDE DEF bytes
  <1>3. BufferSize \in Nat /\ w + n < BufferSize /\ p = at + (w - r)
    BY <1>1, BufferSizeAssumption
  <1> DEFINE t == SubSeq(s, 1, w) \o bytes \o SubSeq(s, w + Len(bytes) + 1, Len(s))
             d == [m_buffer |-> t, m_read_index |-> r, m_write_index |-> w + n]
  <1>4. /\ t \in Seq(Byte) /\ Len(t) = BufferSize
        /\ \A i \in 1 .. w : t[i] = s[i]
        /\ \A i \in 1 .. n : t[w + i] = bytes[i]
        /\ \A i \in w + n + 1 .. BufferSize : t[i] = s[i]
    <2>1. w + Len(bytes) <= Len(s)
      BY <1>1, <1>2, <1>3, SMTT(30)
    <2>2. /\ t \in Seq(Byte) /\ Len(t) = Len(s)
          /\ \A i \in 1 .. w : t[i] = s[i]
          /\ \A i \in 1 .. Len(bytes) : t[w + i] = bytes[i]
          /\ \A i \in w + Len(bytes) + 1 .. Len(s) : t[i] = s[i]
      BY <1>2, <2>1, StoredPlaces
    <2> HIDE DEF t
    <2> QED
      BY <1>1, <1>2, <2>2
  <1>5. Stored(b, bytes) = [m_buffer |-> t, m_read_index |-> r, m_write_index |-> w]
    <2>1. Stored(b, bytes) = [b EXCEPT !.m_buffer = t]
      BY <1>1 DEF Stored
    <2> HIDE DEF t
    <2> QED
      BY <1>1, <2>1
  <1> HIDE DEF t
  <1>6. c = d
    <2> DEFINE f == [m_buffer |-> t, m_read_index |-> r, m_write_index |-> w]
    <2>1. c = moveWriteIndex(f, n)
      BY <1>5 DEF bytes
    <2>2. /\ f.m_write_index = w /\ f.m_buffer = t
          /\ [f EXCEPT !.m_write_index = @ + n] = d
      OBVIOUS
    <2> HIDE DEF f, d
    <2>3. ~(f.m_write_index + n >= Len(f.m_buffer))
      BY <1>3, <1>4, <2>2
    <2> QED
      BY <2>1, <2>2, <2>3, Zenon DEF moveWriteIndex
  <1>7. c.m_buffer = t /\ c.m_read_index = r /\ c.m_write_index = w + n
    BY <1>6
  <1> HIDE DEF d
  <1>8. readAble(c) = (w + n) - r
    BY <1>7 DEF readAble
  <1>9. Follows(c, at)
    <2> SUFFICES ASSUME NEW x \in 1 .. (w + n) - r PROVE t[r + x] = Stream[at + x]
      BY <1>7, <1>8 DEF Follows
    <2>1. CASE x <= w - r
      <3>1. r + x \in 1 .. w /\ x \in 1 .. w - r
        BY <1>1, <2>1
      <3>2. s[r + x] = Stream[at + x]
        BY <1>1, <3>1 DEF Follows
      <3> QED
        BY <1>4, <3>1, <3>2
    <2>2. CASE ~(x <= w - r)
      <3> DEFINE y == x - (w - r)
      <3>1. y \in 1 .. n /\ w + y = r + x /\ p + y = at + x
        BY <1>1, <1>3, <2>2
      <3> HIDE DEF y
      <3>2. t[w + y] = Stream[p + y]
        BY <1>2, <1>4, <3>1
      <3> QED
        BY <3>1, <3>2
    <2> QED
      BY <2>1, <2>2
  <1>10. Clean(c)
    <2> SUFFICES ASSUME NEW i \in w + n + 1 .. BufferSize PROVE t[i] = 0
      BY <1>7 DEF Clean
    <2>1. i \in w + 1 .. BufferSize
      BY <1>3
    <2>2. s[i] = 0
      BY <1>1, <2>1 DEF Clean
    <2> QED
      BY <1>4, <2>2
  <1>11. readAble(c) = readAble(b) + n
    BY <1>1, <1>8
  <1> QED
    BY <1>1, <1>7, <1>9, <1>10, <1>11

(* The read index moves over bytes that were read. *)
LEMMA ConsumeFollows ==
  ASSUME NEW b, Open(b), Clean(b), NEW at \in Nat, Follows(b, at),
         NEW n \in Nat, n <= readAble(b), NEW c, c = moveReadIndex(b, n),
         NEW next, next = at + n
  PROVE  readAble(c) = readAble(b) - n /\ Follows(c, next) /\ Clean(c)
  <1>1. PICK s \in Seq(Byte), r \in Nat, w \in Nat :
           /\ b = [m_buffer |-> s, m_read_index |-> r, m_write_index |-> w]
           /\ b.m_buffer = s /\ b.m_read_index = r /\ b.m_write_index = w
           /\ Len(s) = BufferSize /\ r <= w /\ w < BufferSize
           /\ readAble(b) = w - r /\ writeAble(b) = BufferSize - w /\ Sound(b)
    BY OpenShape
  <1> DEFINE q == r + n
             d == [m_buffer |-> s, m_read_index |-> q, m_write_index |-> w]
  <1>2. BufferSize \in Nat /\ q \in Nat /\ q <= w /\ q = r + n /\ next \in Nat
    BY <1>1, BufferSizeAssumption
  <1>3. \A x \in 1 .. w - q : s[q + x] = Stream[next + x]
    <2> SUFFICES ASSUME NEW x \in 1 .. w - q PROVE s[q + x] = Stream[next + x]
      OBVIOUS
    <2> DEFINE y == n + x
    <2>1. y \in 1 .. w - r /\ r + y = q + x /\ at + y = next + x
      BY <1>1, <1>2
    <2> HIDE DEF y, q
    <2>2. s[r + y] = Stream[at + y]
      BY <1>1, <2>1 DEF Follows
    <2> QED
      BY <2>1, <2>2
  <1>4. \A i \in w + 1 .. BufferSize : s[i] = 0
    BY <1>1 DEF Clean
  <1>5. [b EXCEPT !.m_read_index = @ + n] = d
    BY <1>1
  <1>6. c = adjustBuffer(d)
    <2>1. b.m_read_index + n \in 0 .. Len(b.m_buffer) - 1
      BY <1>1, <1>2
    <2> QED
      BY <1>5, <2>1, Zenon DEF moveReadIndex
  <1>7. /\ d.m_buffer = s /\ d.m_read_index = q /\ d.m_write_index = w
        /\ readAble(d) = w - q
    BY DEF readAble
  <1> HIDE DEF q, d
  <1> DEFINE k == w - q
  <1>8. k \in Nat /\ k <= w /\ k < BufferSize /\ q + k = w /\ k = (w - r) - n
    BY <1>1, <1>2
  <1>9. CASE c = d
    <2>1. readAble(c) = k
      BY <1>7, <1>9
    <2>2. Follows(c, next) /\ Clean(c)
      BY <1>3, <1>4, <1>7, <1>9 DEF Follows, Clean
    <2> QED
      BY <1>1, <1>8, <2>1, <2>2
  <1>10. CASE c = Moved(d, readAble(d), BufferSize)
    <2> DEFINE p == SubSeq(s, q + 1, w)
               z == Zeros(BufferSize - k)
               t == p \o z
    <2>1. p \in Seq(Byte) /\ Len(p) = k /\ \A i \in 1 .. k : p[i] = s[q + i]
      <3>1. q \in Nat /\ w \in Nat /\ q <= w /\ w <= Len(s) /\ s \in Seq(Byte)
            /\ p = SubSeq(s, q + 1, w)
        BY <1>1, <1>2
      <3> HIDE DEF p
      <3> QED
        BY <3>1, Segment
    <2>2. c = [m_buffer |-> t, m_read_index |-> 0, m_write_index |-> k]
      <3>1. readAble(d) = k /\ q + k = w
        BY <1>7, <1>8
      <3> QED
        BY <1>7, <1>10, <3>1, Zenon DEF Moved
    <2> HIDE DEF p, k
    <2>3. /\ z \in Seq(Byte) /\ Len(z) = BufferSize - k
          /\ \A i \in 1 .. BufferSize - k : z[i] = 0
      <3>1. BufferSize - k \in Nat
        BY <1>2, <1>8
      <3> QED
        BY <3>1, ZerosType DEF Zeros
    <2> HIDE DEF z
    <2>4. /\ t \in Seq(Byte) /\ Has(t, 0, p) /\ Has(t, Len(p), z)
      BY <2>1, <2>3, Joint
    <2> HIDE DEF t
    <2>5. /\ \A i \in 1 .. k : t[0 + i] = p[i]
          /\ \A i \in 1 .. BufferSize - k : t[k + i] = z[i]
      BY <2>1, <2>3, <2>4 DEF Has
    <2>6. c.m_buffer = t /\ c.m_read_index = 0 /\ c.m_write_index = k
      BY <2>2
    <2>7. readAble(c) = k
      BY <1>8, <2>6 DEF readAble
    <2>8. Follows(c, next)
      <3> SUFFICES ASSUME NEW x \in 1 .. k PROVE t[0 + x] = Stream[next + x]
        BY <2>6, <2>7 DEF Follows
      <3>1. t[0 + x] = p[x] /\ p[x] = s[q + x]
        BY <2>1, <2>5, Zenon
      <3>2. s[q + x] = Stream[next + x]
        BY <1>3 DEF k
      <3> QED
        BY <3>1, <3>2
    <2>9. Clean(c)
      <3> SUFFICES ASSUME NEW i \in k + 1 .. BufferSize PROVE t[i] = 0
        BY <2>6 DEF Clean
      <3> DEFINE j == i - k
      <3>1. j \in 1 .. BufferSize - k /\ k + j = i
        BY <1>2, <1>8
      <3> HIDE DEF j
      <3>2. z[j] = 0
        BY <2>3, <3>1
      <3>3. t[k + j] = z[j]
        BY <2>5, <3>1, Zenon
      <3> QED
        BY <3>1, <3>2, <3>3
    <2> QED
      BY <1>1, <1>8, <2>7, <2>8, <2>9
  <1>11. c = d \/ c = Moved(d, readAble(d), BufferSize)
    <2>1. Len(d.m_buffer) = BufferSize
      BY <1>1, <1>7
    <2> QED
      BY <1>6, <2>1, Zenon DEF adjustBuffer
  <1> QED
    BY <1>9, <1>10, <1>11

(* A package of no length is dropped before anything of it is read. *)
LEMMA ParseDropped ==
  ASSUME NEW b, NEW start \in Int, NEW end, end = start - 1, NEW beyond
  PROVE  Parse(b, start, end, beyond).kind = "dropped"
  <1> DEFINE IntAt(i)    == getInt32FromNetByte(b, i, beyond)
             id_len_at   == start + 5
             id_len      == IntAt(id_len_at)
             name_len_at == id_len_at + 4 + id_len
             name_len    == IntAt(name_len_at)
             err_code_at == name_len_at + 4 + name_len
             info_len_at == err_code_at + 4
             info_len    == IntAt(info_len_at)
             data_len    == IntAt(start + 1) - name_len - id_len - info_len - 2 - 24
             checked     == <<id_len_at < end, name_len_at < end,
                              err_code_at < end, info_len_at < end>>
             assumed     == <<FitsArray(b, id_len_at + 4, id_len, 100, beyond),
                              FitsArray(b, name_len_at + 4, name_len, 512, beyond), TRUE,
                              FitsArray(b, info_len_at + 4, info_len, 512, beyond) /\ data_len >= 0>>
             failed      == {k \in 1 .. 4 : ~(checked[k] /\ assumed[k])}
             first       == CHOOSE k \in failed : \A f \in failed : k <= f
             message     ==
               [msg_id      |-> CString(Bytes(b, id_len_at + 4, id_len, beyond)),
                method_name |-> CString(Bytes(b, name_len_at + 4, name_len, beyond)),
                err_code    |-> IntAt(err_code_at),
                err_info    |-> CString(Bytes(b, info_len_at + 4, info_len, beyond)),
                pb_data     |-> Bytes(b, info_len_at + 4 + info_len, data_len, beyond)]
  <1>1. Parse(b, start, end, beyond) =
          IF failed # {}
          THEN [kind |-> IF checked[first] THEN "undefined" ELSE "dropped", message |-> <<>>]
          ELSE [kind |-> "message", message |-> message]
    BY Zenon DEF Parse
  <1>2. ~checked[1]
    <2>1. ~(id_len_at < end)
      OBVIOUS
    <2>2. checked[1] = (id_len_at < end)
      OBVIOUS
    <2> HIDE DEF checked
    <2> QED
      BY <2>1, <2>2, Zenon
  <1> HIDE DEF checked, assumed, message
  <1>3. 1 \in failed /\ \A f \in failed : 1 <= f /\ f \in Int
    BY <1>2
  <1> HIDE DEF failed
  <1>4. first = 1
    <2>1. first \in failed /\ \A f \in failed : first <= f
      BY <1>3
    <2> HIDE DEF first
    <2> QED
      BY <1>3, <2>1
  <1> HIDE DEF first
  <1> QED
    BY <1>1, <1>2, <1>3, <1>4

(* The first bytes of a package. *)
LEMMA Header ==
  ASSUME NEW msg \in Message, Kept(msg), NEW e, e = encodeTinyPB(msg)
  PROVE  /\ e \in Seq(Byte) /\ Len(e) >= 26
         /\ e[1] = PB_START
         /\ ((Signed(e[2]) * 256 + e[3]) * 256 + e[4]) * 256 + e[5] = Len(e)
  <1> DEFINE p == NetBytes(Len(e))
  <1>1. Layout(e, msg) /\ IsInt32(PkLen(msg)) /\ msg.msg_id # <<>>
    BY EncodeLayout DEF Kept
  <1>2. /\ e \in Seq(Byte) /\ Has(e, 0, <<PB_START>>) /\ Has(e, 1, p)
    BY <1>1, Zenon DEF Layout
  <1> DEFINE l1 == Len(msg.msg_id)
             l2 == Len(msg.method_name)
             l3 == Len(msg.err_info)
             l4 == Len(msg.pb_data)
  <1>3. /\ Len(e) = 9 + l1 + 4 + l2 + 4 + 4 + l3 + l4 + 5
        /\ PkLen(msg) = 2 + 24 + l1 + l2 + l3 + l4
    <2>1. MsgId(msg) = msg.msg_id
      BY <1>1 DEF MsgId
    <2> QED
      BY <1>1, <2>1, Zenon DEF Layout, PkLen
  <1>4. l1 \in Nat /\ l2 \in Nat /\ l3 \in Nat /\ l4 \in Nat
    BY DEF Message
  <1> HIDE DEF l1, l2, l3, l4
  <1>5. Len(e) = PkLen(msg) /\ Len(e) >= 26 /\ Len(e) \in Int
    BY <1>3, <1>4
  <1>6. p \in Seq(Byte) /\ Len(p) = 4
    BY <1>5, NetBytesLength
  <1>7. ((Signed(p[1]) * 256 + p[2]) * 256 + p[3]) * 256 + p[4] = Len(e)
    BY <1>1, <1>5, NetBytesRead
  <1> HIDE DEF p
  <1>8. e[2] = p[1] /\ e[3] = p[2] /\ e[4] = p[3] /\ e[5] = p[4]
    <2>1. \A x \in 1 .. 4 : e[1 + x] = p[x]
      BY <1>2, <1>6 DEF Has
    <2>2. 1 \in 1 .. 4 /\ 2 \in 1 .. 4 /\ 3 \in 1 .. 4 /\ 4 \in 1 .. 4
      OBVIOUS
    <2>3. e[1 + 1] = p[1] /\ e[1 + 2] = p[2] /\ e[1 + 3] = p[3] /\ e[1 + 4] = p[4]
      BY <2>1, <2>2, Zenon
    <2>4. 1 + 1 = 2 /\ 1 + 2 = 3 /\ 1 + 3 = 4 /\ 1 + 4 = 5
      OBVIOUS
    <2> QED
      BY <2>3, <2>4, Zenon
  <1>9. e[1] = PB_START
    <2>1. \A x \in 1 .. Len(<<PB_START>>) : e[0 + x] = <<PB_START>>[x]
      BY <1>2 DEF Has
    <2>2. 1 \in 1 .. Len(<<PB_START>>) /\ 0 + 1 = 1 /\ <<PB_START>>[1] = PB_START
      OBVIOUS
    <2> QED
      BY <2>1, <2>2, Zenon
  <1>10. ((Signed(e[2]) * 256 + e[3]) * 256 + e[4]) * 256 + e[5] = Len(e)
    BY <1>7, <1>8, SMTT(30)
  <1> QED
    BY <1>2, <1>5, <1>9, <1>10, Zenon

(* The vector s has the first n bytes of e behind r, and nothing after.    *)
PartOf(s, r, n, e) ==
  /\ \A x \in 1 .. n : s[r + x] = e[x]
  /\ \A i \in r + n + 1 .. BufferSize : s[i] = 0

(* What may be found behind the read index of a buffer that holds the      *)
(* first n bytes of a package.                                             *)
LEMMA PartBehind ==
  ASSUME NEW s \in Seq(Byte), NEW r \in Nat, NEW n \in Nat, NEW w, w = r + n,
         Len(s) = BufferSize, w < BufferSize, NEW e, PartOf(s, r, n, e),
         NEW d, d = PartAt(e, r, n)
  PROVE  /\ d \in Buffer /\ Len(d.m_buffer) = BufferSize /\ d.m_write_index = w
         /\ \A i \in 1 .. r : d.m_buffer[i] = PB_END
         /\ \A i \in r + 1 .. BufferSize : d.m_buffer[i] = s[i]
  <1>0. /\ \A x \in 1 .. n : s[r + x] = e[x]
        /\ \A i \in w + 1 .. BufferSize : s[i] = 0
    BY Zenon DEF PartOf
  <1> DEFINE value(i) == IF i <= r THEN PB_END ELSE IF i <= r + n THEN e[i - r] ELSE 0
             t == [i \in 1 .. BufferSize |-> value(i)]
  <1>1. d = [m_buffer |-> t, m_read_index |-> r, m_write_index |-> w]
    BY DEF PartAt
  <1>2. BufferSize \in Nat /\ w \in Nat /\ r <= w
    BY BufferSizeAssumption
  <1>3. ASSUME NEW i \in 1 .. r PROVE i \in 1 .. BufferSize /\ value(i) = PB_END
    BY <1>2
  <1>4. ASSUME NEW i \in r + 1 .. BufferSize PROVE i \in 1 .. BufferSize /\ value(i) = s[i]
    <2>1. i \in 1 .. BufferSize /\ ~(i <= r)
      BY <1>2
    <2>2. CASE i <= w
      <3> DEFINE x == i - r
      <3>1. x \in 1 .. n /\ r + x = i
        BY <1>2, <2>1, <2>2
      <3>2. value(i) = e[x]
        BY <2>1, <2>2
      <3> HIDE DEF x, value
      <3>3. s[r + x] = e[x]
        BY <1>0, <3>1
      <3> QED
        BY <2>1, <3>1, <3>2, <3>3
    <2>3. CASE ~(i <= w)
      <3>1. i \in w + 1 .. BufferSize
        BY <1>2, <2>1, <2>3
      <3>2. value(i) = 0
        BY <2>1, <2>3
      <3> HIDE DEF value
      <3> QED
        BY <1>0, <2>1, <3>1, <3>2
    <2> QED
      BY <2>2, <2>3
  <1>5. \A i \in 1 .. BufferSize : value(i) \in Byte
    <2> SUFFICES ASSUME NEW i \in 1 .. BufferSize PROVE value(i) \in Byte
      OBVIOUS
    <2>1. PB_END \in Byte
      BY CoderAssumption DEF PB_END
    <2>2. s[i] \in Byte
      OBVIOUS
    <2>3. i \in 1 .. r \/ i \in r + 1 .. BufferSize
      BY <1>2
    <2> HIDE DEF value
    <2> QED
      BY <1>3, <1>4, <2>1, <2>2, <2>3
  <1> HIDE DEF value
  <1>6. t \in Seq(Byte) /\ Len(t) = BufferSize
    BY <1>2, <1>5
  <1>7. \A i \in 1 .. r : t[i] = PB_END
    BY <1>3
  <1>8. \A i \in r + 1 .. BufferSize : t[i] = s[i]
    BY <1>4
  <1> HIDE DEF t
  <1>9. d \in Buffer /\ d.m_buffer = t /\ d.m_write_index = w
    BY <1>1, <1>2, <1>6 DEF Buffer
  <1> QED
    BY <1>6, <1>7, <1>8, <1>9

(* A length of at most 4, of which the first three bytes are read as they  *)
(* are, is its last byte.                                                  *)
LEMMA ShortLength ==
  ASSUME NEW x \in Byte, NEW y \in Byte, NEW z \in Byte, NEW v \in Byte,
         Signed(x) >= 0, NEW n, n = ((Signed(x) * 256 + y) * 256 + z) * 256 + v, n <= 4
  PROVE  n \in 0 .. 4 /\ x = 0 /\ y = 0 /\ z = 0
  <1>1. x \in Int /\ y \in Int /\ z \in Int /\ v \in Int /\ y >= 0 /\ z >= 0 /\ v >= 0 /\ x >= 0
        /\ x < 256
    BY CoderAssumption
  <1>2. Signed(x) = x
    BY <1>1 DEF Signed
  <1> QED
    BY <1>1, <1>2

(* The length of a package is positive, and so is its first byte. *)
LEMMA LengthSign ==
  ASSUME NEW x \in Byte, NEW y \in Byte, NEW z \in Byte, NEW v \in Byte,
         ((Signed(x) * 256 + y) * 256 + z) * 256 + v >= 0
  PROVE  Signed(x) >= 0
  <1>1. x \in Int /\ y \in Int /\ z \in Int /\ v \in Int /\ y < 256 /\ z < 256 /\ v < 256
    BY CoderAssumption
  <1>2. Signed(x) \in Int
    BY <1>1 DEF Signed
  <1> QED
    BY <1>1, <1>2

(* What is taken for a package behind the read index r is so whatever is   *)
(* in front of r, if that may be PB_END.                                   *)
LEMMA PackageMoves ==
  ASSUME NEW b \in Buffer, NEW d \in Buffer, NEW r \in Nat, NEW beyond \in Byte,
         Len(b.m_buffer) = BufferSize, Len(d.m_buffer) = BufferSize,
         b.m_write_index < BufferSize, d.m_write_index = b.m_write_index,
         \A i \in 1 .. r : d.m_buffer[i] = PB_END,
         \A i \in r + 1 .. BufferSize : d.m_buffer[i] = b.m_buffer[i],
         NEW start \in Nat, r <= start, PackageAt(b, start, beyond)
  PROVE  PackageAt(d, start, beyond)
  <1> DEFINE s == b.m_buffer
             t == d.m_buffer
             w == b.m_write_index
  <1>1. /\ BufferSize \in Nat /\ w \in Nat /\ w < BufferSize
        /\ Len(s) = BufferSize /\ Len(t) = BufferSize
        /\ \A i \in 1 .. r : t[i] = PB_END
        /\ \A i \in r + 1 .. BufferSize : t[i] = s[i]
    BY BufferSizeAssumption DEF Buffer
  <1>2. \A i : /\ At(b, i, beyond) = IF i \in 0 .. Len(s) - 1 THEN s[i + 1] ELSE beyond
               /\ At(d, i, beyond) = IF i \in 0 .. Len(t) - 1 THEN t[i + 1] ELSE beyond
    BY Zenon DEF At
  <1>3. /\ s[start + 1] = PB_START /\ start + 1 < w
        /\ EndIndex(b, start, beyond) < w
        /\ At(b, EndIndex(b, start, beyond), beyond) = PB_END
    BY Zenon DEF PackageAt
  <1>4. d.m_write_index = w
    OBVIOUS
  <1>5. EndIndex(b, start, beyond) \in Int
    <2>1. start + 1 \in Int
      OBVIOUS
    <2>2. getInt32FromNetByte(b, start + 1, beyond) \in Int
      BY <2>1, IntType
    <2> QED
      BY <2>2 DEF EndIndex
  <1> HIDE DEF s, t, w
  <1>6. ASSUME NEW i \in Int, r <= i PROVE At(d, i, beyond) = At(b, i, beyond)
    <2>1. CASE i \in 0 .. BufferSize - 1
      <3>1. i + 1 \in r + 1 .. BufferSize
        BY <1>6, <2>1
      <3>2. t[i + 1] = s[i + 1]
        BY <1>1, <3>1
      <3> QED
        BY <1>1, <1>2, <2>1, <3>2
    <2>2. CASE i \notin 0 .. BufferSize - 1
      BY <1>1, <1>2, <2>2
    <2> QED
      BY <2>1, <2>2
  <1>7. EndIndex(d, start, beyond) = EndIndex(b, start, beyond)
    <2> DEFINE i == start + 1
    <2>1. i \in Int /\ i + 1 \in Int /\ i + 2 \in Int /\ i + 3 \in Int
          /\ r <= i /\ r <= i + 1 /\ r <= i + 2 /\ r <= i + 3
      OBVIOUS
    <2> HIDE DEF i
    <2>2. /\ At(d, i, beyond) = At(b, i, beyond)
          /\ At(d, i + 1, beyond) = At(b, i + 1, beyond)
          /\ At(d, i + 2, beyond) = At(b, i + 2, beyond)
          /\ At(d, i + 3, beyond) = At(b, i + 3, beyond)
      BY <1>6, <2>1, Zenon
    <2>3. getInt32FromNetByte(d, i, beyond) = getInt32FromNetByte(b, i, beyond)
      BY <2>2, Zenon DEF getInt32FromNetByte
    <2> QED
      BY <2>3, Zenon DEF EndIndex, i
  <1>8. At(d, EndIndex(b, start, beyond), beyond) = PB_END
    <2> DEFINE end == EndIndex(b, start, beyond)
    <2> SUFFICES At(d, end, beyond) = PB_END
      OBVIOUS
    <2>1. end \in Int /\ At(b, end, beyond) = PB_END
      BY <1>3, <1>5
    <2> HIDE DEF end
    <2>2. CASE r <= end
      BY <1>6, <2>1, <2>2
    <2>3. CASE ~(r <= end)
      <3>1. CASE end \in 0 .. BufferSize - 1
        <4>1. end + 1 \in 1 .. r
          BY <2>1, <2>3, <3>1
        <4>2. t[end + 1] = PB_END
          BY <1>1, <4>1
        <4> QED
          BY <1>1, <1>2, <3>1, <4>2
      <3>2. CASE end \notin 0 .. BufferSize - 1
        BY <1>1, <1>2, <2>1, <3>2
      <3> QED
        BY <3>1, <3>2
    <2> QED
      BY <2>2, <2>3
  <1>9. t[start + 1] = PB_START
    <2>1. start + 1 \in r + 1 .. BufferSize
      BY <1>1, <1>3
    <2> QED
      BY <1>1, <1>3, <2>1
  <1> QED
    BY <1>3, <1>4, <1>7, <1>8, <1>9, Zenon DEF PackageAt, t

(* A package that is there in part is found with no length, or not at all. *)
LEMMA PartDropped ==
  ASSUME NEW b, Open(b), Clean(b), NEW msg \in Message, Kept(msg), Unambiguous(msg),
         NEW e, e = encodeTinyPB(msg), readAble(b) < Len(e),
         \A x \in 1 .. readAble(b) : b.m_buffer[b.m_read_index + x] = e[x],
         NEW beyond \in Beyond, NEW start, FirstPackageAt(b, start, beyond)
  PROVE  start = b.m_read_index /\ EndIndex(b, start, beyond) = start - 1
  <1>1. PICK s \in Seq(Byte), r \in Nat, w \in Nat :
           /\ b = [m_buffer |-> s, m_read_index |-> r, m_write_index |-> w]
           /\ b.m_buffer = s /\ b.m_read_index = r /\ b.m_write_index = w
           /\ Len(s) = BufferSize /\ r <= w /\ w < BufferSize
           /\ readAble(b) = w - r /\ writeAble(b) = BufferSize - w /\ Sound(b)
    BY OpenShape
  <1> DEFINE n == w - r
  <1>2. /\ e \in Seq(Byte) /\ Len(e) >= 26 /\ Len(e) \in Nat /\ e[1] = PB_START
        /\ ((Signed(e[2]) * 256 + e[3]) * 256 + e[4]) * 256 + e[5] = Len(e)
    BY Header
  <1>3. beyond \in Byte /\ BufferSize \in Nat /\ b \in Buffer
    BY BeyondAssumption, BufferSizeAssumption DEF Open
  <1>4. /\ start \in Int /\ r <= start /\ start <= w - 1 /\ PackageAt(b, start, beyond)
    BY <1>1 DEF FirstPackageAt
  <1>5. /\ n \in Nat /\ n < Len(e) /\ n >= 1 /\ w = r + n /\ start \in Nat
        /\ \A x \in 1 .. n : s[r + x] = e[x]
        /\ \A i \in w + 1 .. BufferSize : s[i] = 0
    BY <1>1, <1>2, <1>4 DEF Clean
  <1>6. /\ s[start + 1] = PB_START /\ start + 1 < w
        /\ EndIndex(b, start, beyond) < w
        /\ At(b, EndIndex(b, start, beyond), beyond) = PB_END
    BY <1>1, <1>4, Zenon DEF PackageAt
  <1> HIDE DEF n
  <1>7. start = r
    <2> SUFFICES ASSUME start # r PROVE FALSE
      OBVIOUS
    <2> DEFINE d == PartAt(e, r, n)
    <2>1. d = PartAt(e, r, n)
      OBVIOUS
    <2> HIDE DEF d
    <2>2. s \in Seq(Byte) /\ Len(s) = BufferSize /\ w < BufferSize /\ PartOf(s, r, n, e)
      BY <1>1, <1>5, Zenon DEF PartOf
    <2>3. /\ d \in Buffer /\ Len(d.m_buffer) = BufferSize /\ d.m_write_index = w
          /\ \A i \in 1 .. r : d.m_buffer[i] = PB_END
          /\ \A i \in r + 1 .. BufferSize : d.m_buffer[i] = s[i]
      BY <1>5, <2>1, <2>2, PartBehind
    <2>4. PackageAt(d, start, beyond)
      BY <1>1, <1>3, <1>4, <1>5, <2>3, PackageMoves
    <2>5. /\ r \in 0 .. BufferSize - 1 /\ n \in 1 .. Len(e) - 1 /\ r + n < BufferSize
          /\ start \in r + 1 .. r + n - 1
      BY <1>1, <1>2, <1>3, <1>4, <1>5
    <2> QED
      BY <2>4, <2>5, Zenon DEF Unambiguous, d
  <1> DEFINE end == EndIndex(b, start, beyond)
             len == getInt32FromNetByte(b, r + 1, beyond)
             x1 == At(b, r + 1, beyond)
             x2 == At(b, r + 2, beyond)
             x3 == At(b, r + 3, beyond)
             x4 == At(b, r + 4, beyond)
  <1>8. ASSUME NEW i \in 0 .. n - 1 PROVE At(b, r + i, beyond) = e[i + 1]
    <2>1. r + i \in 0 .. Len(s) - 1 /\ i + 1 \in 1 .. n /\ r + i + 1 = r + (i + 1)
      BY <1>1, <1>3, <1>5
    <2>2. At(b, r + i, beyond) = s[r + i + 1]
      BY <1>1, <2>1, Zenon DEF At
    <2> QED
      BY <1>5, <2>1, <2>2
  <1>9. /\ x1 \in Byte /\ x2 \in Byte /\ x3 \in Byte /\ x4 \in Byte
    <2>1. r + 1 \in Int /\ r + 2 \in Int /\ r + 3 \in Int /\ r + 4 \in Int
      OBVIOUS
    <2> QED
      BY <1>3, <2>1, AtType, Zenon
  <1>10. /\ len = ((Signed(x1) * 256 + x2) * 256 + x3) * 256 + x4 /\ end = r + len - 1
    <2>1. r + 1 + 1 = r + 2 /\ r + 1 + 2 = r + 3 /\ r + 1 + 3 = r + 4
      OBVIOUS
    <2>2. len = ((Signed(x1) * 256 + x2) * 256 + x3) * 256 + x4
      BY <2>1, Zenon DEF getInt32FromNetByte
    <2>3. end = r + len - 1
      BY <1>7, Zenon DEF EndIndex
    <2> QED
      BY <2>2, <2>3
  <1>11. end < w /\ At(b, end, beyond) = PB_END
    BY <1>6
  <1>12. len \in Int
    <2>1. r + 1 \in Int
      OBVIOUS
    <2> QED
      BY <1>3, <2>1, IntType, Zenon
  <1> HIDE DEF end, len
  <1>13. n >= 2 /\ x1 = e[2]
    <2>1. n >= 2
      BY <1>1, <1>5, <1>6, <1>7
    <2>2. 1 \in 0 .. n - 1 /\ 1 + 1 = 2
      BY <1>5, <2>1
    <2> QED
      BY <1>8, <2>1, <2>2
  <1>14. \A i \in 2 .. 5 : e[i] \in Byte
    BY <1>2
  <1>15. Signed(x1) >= 0
    BY <1>2, <1>13, <1>14, LengthSign
  <1>16. n < 5
    <2> SUFFICES ASSUME n >= 5 PROVE FALSE
      BY <1>5
    <2>1. 1 \in 0 .. n - 1 /\ 2 \in 0 .. n - 1 /\ 3 \in 0 .. n - 1 /\ 4 \in 0 .. n - 1
          /\ 1 + 1 = 2 /\ 2 + 1 = 3 /\ 3 + 1 = 4 /\ 4 + 1 = 5
      BY <1>5
    <2>2. x1 = e[2] /\ x2 = e[3] /\ x3 = e[4] /\ x4 = e[5]
      BY <1>8, <2>1, Zenon
    <2> HIDE DEF x1, x2, x3, x4
    <2>3. len = Len(e)
      BY <1>2, <1>10, <2>2, Zenon
    <2>4. end = r + Len(e) - 1
      BY <1>10, <2>3, Zenon
    <2>5. Len(e) \in Nat /\ n \in Nat /\ n < Len(e) /\ end < r + n
      BY <1>2, <1>5, <1>11, Zenon
    <2> QED
      BY <2>4, <2>5
  <1> HIDE DEF x1, x2, x3, x4
  <1>17. len \in 0 .. 4 /\ x1 = 0 /\ x2 = 0 /\ x3 = 0
    <2>1. end = r + len - 1
      BY <1>10, Zenon
    <2>2. len <= 4
      BY <1>5, <1>11, <1>12, <1>16, <2>1, SMTT(30)
    <2> QED
      BY <1>9, <1>10, <1>15, <2>2, ShortLength, SMTT(30)
  <1>18. len = 0
    <2> SUFFICES ASSUME len # 0 PROVE FALSE
      OBVIOUS
    <2>1. end \in {r, r + 1, r + 2, r + 3}
      BY <1>10, <1>17, SMTT(30)
    <2>2. At(b, r, beyond) = PB_START
      <3>1. 0 \in 0 .. n - 1 /\ r + 0 = r /\ 0 + 1 = 1
        BY <1>5
      <3> QED
        BY <1>2, <1>8, <3>1
    <2>3. /\ At(b, r + 1, beyond) = 0 /\ At(b, r + 2, beyond) = 0 /\ At(b, r + 3, beyond) = 0
      BY <1>17 DEF x1, x2, x3
    <2>4. PB_END # PB_START /\ PB_END # 0
      BY DEF PB_START, PB_END
    <2> QED
      BY <1>11, <2>1, <2>2, <2>3, <2>4, Zenon
  <1>19. end = r - 1
    BY <1>10, <1>18
  <1> QED
    BY <1>1, <1>7, <1>19 DEF end

(* A package that is there to its last byte is found where it begins. *)
LEMMA WholeFound ==
  ASSUME NEW b, Open(b), NEW msg \in Message, Kept(msg),
         NEW e, e = encodeTinyPB(msg), Len(e) <= readAble(b),
         \A x \in 1 .. Len(e) : b.m_buffer[b.m_read_index + x] = e[x],
         NEW beyond \in Beyond, NEW r, r = b.m_read_index
  PROVE  /\ r \in 0 .. b.m_write_index - 1 /\ PackageAt(b, r, beyond)
         /\ EndIndex(b, r, beyond) = r + Len(e) - 1
         /\ Parse(b, r, EndIndex(b, r, beyond), beyond) = [kind |-> "message", message |-> msg]
  <1>1. /\ b \in Buffer /\ r \in Nat /\ b.m_write_index \in Nat /\ readAble(b) = b.m_write_index - r
        /\ b.m_write_index < BufferSize /\ Len(b.m_buffer) = BufferSize
    BY DEF Open, Buffer, readAble
  <1>2. e \in Seq(Byte) /\ Len(e) \in Nat /\ Len(e) >= 26
    BY Header
  <1>3. BufferSize \in Nat /\ r + Len(e) <= b.m_write_index /\ r + Len(e) - 1 < b.m_write_index
    BY <1>1, <1>2, BufferSizeAssumption
  <1>4. Placed(b, r, e)
    BY <1>1, <1>2, <1>3 DEF Placed
  <1>5. /\ EndIndex(b, r, beyond) = r + Len(e) - 1
        /\ r + Len(e) - 1 < b.m_write_index => PackageAt(b, r, beyond)
        /\ Parse(b, r, r + Len(e) - 1, beyond) = [kind |-> "message", message |-> msg]
    <2>1. Placed(b, r, encodeTinyPB(msg))
      BY <1>4
    <2> QED
      BY <1>1, <2>1, DecodeInvertsEncode, Zenon
  <1>6. r \in 0 .. b.m_write_index - 1
    BY <1>1, <1>2, <1>3
  <1> QED
    BY <1>3, <1>5, <1>6, Zenon

(* What was handled is the first of the requests, and the in-buffer goes   *)
(* on with the stream behind them.                                         *)
InStep(done, b, p) ==
  LET at == Len(Upto(Len(done)))
  IN  /\ IsPrefix(done, Requests) /\ at + readAble(b) = p
      /\ Follows(b, at) /\ Clean(b)

(* The next request has not come to its last byte. *)
Awaits(done, p) == Len(done) = Len(Requests) \/ p < Len(Upto(Len(done) + 1))

LEMMA InStepParts ==
  ASSUME NEW done \in Seq(Message), NEW b, NEW p, InStep(done, b, p),
         NEW at, at = Len(Upto(Len(done)))
  PROVE  /\ Len(done) \in 0 .. Len(Requests) /\ Len(Requests) \in Nat /\ at \in Nat
         /\ at + readAble(b) = p /\ Follows(b, at) /\ Clean(b)
         /\ done = SubSeq(Requests, 1, Len(done))
  <1>1. /\ Len(done) <= Len(Requests)
        /\ SubSeq(done, 1, Len(done)) = SubSeq(Requests, 1, Len(done))
        /\ at + readAble(b) = p /\ Follows(b, at) /\ Clean(b)
    BY Zenon DEF InStep, IsPrefix
  <1>2. Len(done) \in Nat /\ SubSeq(done, 1, Len(done)) = done
    OBVIOUS
  <1>3. Len(Requests) \in Nat
    BY RequestsAssumption
  <1>4. Len(done) \in 0 .. Len(Requests)
    BY <1>1, <1>2, <1>3
  <1>5. Upto(Len(done)) \in Seq(Byte)
    BY <1>4, UptoEnds
  <1> QED
    BY <1>1, <1>2, <1>3, <1>4, <1>5

(* What the in-buffer has of the next request. *)
LEMMA NextBytes ==
  ASSUME NEW done \in Seq(Message), NEW b, Open(b), NEW p, InStep(done, b, p),
         Len(done) < Len(Requests),
         NEW msg, msg = Requests[Len(done) + 1], NEW e, e = encodeTinyPB(msg)
  PROVE  /\ msg \in Message /\ e \in Seq(Byte)
         /\ Len(Upto(Len(done) + 1)) = Len(Upto(Len(done))) + Len(e)
         /\ \A x \in 1 .. readAble(b) : x <= Len(e) => b.m_buffer[b.m_read_index + x] = e[x]
  <1> DEFINE h == Len(done)
             at == Len(Upto(h))
  <1>1. h \in 0 .. Len(Requests) - 1 /\ at \in Nat /\ Follows(b, at)
    BY InStepParts
  <1>2. /\ msg \in Message /\ e \in Seq(Byte)
        /\ Len(Upto(h + 1)) = at + Len(e) /\ Has(Stream, at, e)
    <2> HIDE DEF h
    <2> QED
      BY <1>1, RequestPlace DEF h
  <1> HIDE DEF at
  <1>3. ASSUME NEW x \in 1 .. readAble(b), x <= Len(e)
        PROVE  b.m_buffer[b.m_read_index + x] = e[x]
    <2>1. readAble(b) \in Nat
      BY OpenShape
    <2>2. x \in 1 .. Len(e)
      BY <1>2, <1>3, <2>1
    <2>3. b.m_buffer[b.m_read_index + x] = Stream[at + x]
      BY <1>1, Zenon DEF Follows
    <2>4. Stream[at + x] = e[x]
      BY <1>2, <2>2, Zenon DEF Has
    <2> QED
      BY <2>3, <2>4
  <1> QED
    BY <1>2, <1>3 DEF at

LEMMA InStepData ==
  ASSUME NEW done \in Seq(Message), NEW b, Open(b), NEW p \in Nat, InStep(done, b, p),
         NEW n \in Nat, p + n <= Len(Stream), n < writeAble(b),
         NEW c, c = moveWriteIndex(Stored(b, SubSeq(Stream, p + 1, p + n)), n),
         NEW q, q = p + n
  PROVE  InStep(done, c, q)
  <1> DEFINE at == Len(Upto(Len(done)))
  <1>1. at \in Nat /\ at + readAble(b) = p /\ Follows(b, at) /\ Clean(b)
    BY InStepParts
  <1>2. IsPrefix(done, Requests)
    BY DEF InStep
  <1> HIDE DEF at
  <1>3. readAble(b) \in Nat
    BY OpenShape
  <1>4. readAble(c) = readAble(b) + n /\ Follows(c, at) /\ Clean(c)
    BY <1>1, DataFollows
  <1>5. at + readAble(c) = q
    BY <1>1, <1>3, <1>4
  <1> QED
    BY <1>2, <1>4, <1>5 DEF InStep, at

(* One round of decode handles the next request or nothing. *)
LEMMA InStepFound ==
  ASSUME Decodable,
         NEW done \in Seq(Message), NEW b, Open(b), NEW p \in 0 .. Len(Stream), InStep(done, b, p),
         NEW beyond \in Beyond, NEW start, FirstPackageAt(b, start, beyond),
         NEW end, end = EndIndex(b, start, beyond),
         NEW c, c = Consumed(b, start, end),
         NEW parsed, parsed = Parse(b, start, end, beyond)
  PROVE  \/ parsed.kind = "message" /\ InStep(Append(done, parsed.message), c, p)
         \/ parsed.kind = "dropped" /\ InStep(done, c, p)
  <1> DEFINE h == Len(done)
             at == Len(Upto(h))
             msg == Requests[h + 1]
             e == encodeTinyPB(msg)
             r == b.m_read_index
  <1>1. /\ h \in 0 .. Len(Requests) /\ Len(Requests) \in Nat /\ at \in Nat
        /\ at + readAble(b) = p /\ Follows(b, at) /\ Clean(b)
        /\ done = SubSeq(Requests, 1, h)
    BY InStepParts
  <1>2. /\ readAble(b) \in Nat /\ r \in Nat /\ b.m_write_index \in Nat
        /\ readAble(b) = b.m_write_index - r
    BY OpenShape
  <1>3. start \in r .. b.m_write_index - 1 /\ PackageAt(b, start, beyond)
        /\ \A k \in r .. start - 1 : ~PackageAt(b, k, beyond)
    BY DEF FirstPackageAt
  <1>4. h < Len(Requests)
    <2> SUFFICES ASSUME ~(h < Len(Requests)) PROVE FALSE
      OBVIOUS
    <2>1. h = Len(Requests)
      BY <1>1
    <2> HIDE DEF h
    <2>2. at = Len(Stream)
      BY <2>1, UptoEnds
    <2>3. Len(Stream) \in Nat
      BY StreamType
    <2> HIDE DEF at
    <2> QED
      BY <1>1, <1>2, <1>3, <2>2, <2>3
  <1>5. /\ msg \in Message /\ e \in Seq(Byte) /\ Len(Upto(h + 1)) = at + Len(e)
        /\ \A x \in 1 .. readAble(b) : x <= Len(e) => b.m_buffer[r + x] = e[x]
    BY <1>4, NextBytes
  <1>6. Kept(msg) /\ Unambiguous(msg)
    <2>1. h + 1 \in DOMAIN Requests
      BY <1>1, <1>4, RequestsAssumption
    <2> QED
      BY <2>1, Zenon DEF Decodable
  <1>7. e = encodeTinyPB(msg)
    OBVIOUS
  <1> HIDE DEF e, msg
  <1>8. CASE Len(e) <= readAble(b)
    <2>1. \A x \in 1 .. Len(e) : b.m_buffer[r + x] = e[x]
      BY <1>2, <1>5, <1>8
    <2>2. /\ r \in 0 .. b.m_write_index - 1 /\ PackageAt(b, r, beyond)
          /\ EndIndex(b, r, beyond) = r + Len(e) - 1
          /\ Parse(b, r, EndIndex(b, r, beyond), beyond) = [kind |-> "message", message |-> msg]
      BY <1>5, <1>6, <1>7, <1>8, <2>1, WholeFound
    <2>3. start = r
      BY <1>2, <1>3, <2>2, SMTT(30)
    <2>4. end = r + Len(e) - 1 /\ parsed.kind = "message" /\ parsed.message = msg
      BY <2>2, <2>3
    <2> DEFINE n == Len(e)
    <2>5. n \in Nat /\ n <= readAble(b) /\ end - start + 1 = n
      BY <1>2, <1>5, <1>8, <2>3, <2>4
    <2>6. c = moveReadIndex(b, n)
      BY <2>5 DEF Consumed
    <2> DEFINE next == at + n
    <2>7. next = at + n
      OBVIOUS
    <2> HIDE DEF n, next
    <2>8. readAble(c) = readAble(b) - n /\ Follows(c, next) /\ Clean(c)
      BY <1>1, <2>5, <2>6, <2>7, ConsumeFollows
    <2>9. next + readAble(c) = p
      BY <1>1, <1>2, <2>5, <2>7, <2>8
    <2>10. /\ IsPrefix(Append(done, msg), Requests) /\ Len(Append(done, msg)) = h + 1
      <3>1. Append(done, msg) = SubSeq(Requests, 1, h + 1)
        BY <1>1, <1>4, RequestsAssumption, NextPart DEF msg
      <3>2. Append(done, msg) \in Seq(Message) /\ Len(Append(done, msg)) = h + 1
        BY <1>5
      <3> DEFINE u == Append(done, msg)
      <3>3. SubSeq(u, 1, Len(u)) = u
        BY <3>2
      <3>4. h + 1 <= Len(Requests)
        BY <1>1, <1>4
      <3> QED
        BY <3>1, <3>2, <3>3, <3>4 DEF IsPrefix
    <2>11. next = Len(Upto(Len(Append(done, msg))))
      BY <1>5, <2>7, <2>10 DEF n
    <2>12. InStep(Append(done, msg), c, p)
      BY <2>8, <2>9, <2>10, <2>11, Zenon DEF InStep
    <2> QED
      BY <2>4, <2>12
  <1>9. CASE ~(Len(e) <= readAble(b))
    <2>1. readAble(b) < Len(e) /\ Len(e) \in Nat
      BY <1>2, <1>5, <1>9
    <2>2. \A x \in 1 .. readAble(b) : b.m_buffer[r + x] = e[x]
      BY <1>2, <1>5, <2>1
    <2>3. start = r /\ end = start - 1
      BY <1>1, <1>5, <1>6, <1>7, <2>1, <2>2, PartDropped
    <2>4. parsed.kind = "dropped"
      BY <1>2, <2>3, ParseDropped
    <2>5. c = moveReadIndex(b, 0)
      BY <1>2, <2>3 DEF Consumed
    <2>6. readAble(c) = readAble(b) - 0 /\ Follows(c, at) /\ Clean(c)
      <3>1. 0 \in Nat /\ 0 <= readAble(b) /\ at = at + 0
        BY <1>1, <1>2
      <3> HIDE DEF at
      <3> QED
        BY <1>1, <2>5, <3>1, ConsumeFollows
    <2>7. at + readAble(c) = p
      BY <1>1, <1>2, <2>6
    <2>8. InStep(done, c, p)
      <3>1. IsPrefix(done, Requests)
        BY DEF InStep
      <3> QED
        BY <2>6, <2>7, <3>1, Zenon DEF InStep
    <2> QED
      BY <2>4, <2>8
  <1> QED
    BY <1>8, <1>9

(* decode returns when there is no whole request. *)
LEMMA InStepNone ==
  ASSUME Decodable,
         NEW done \in Seq(Message), NEW b, Open(b), NEW p, InStep(done, b, p),
         NEW beyond \in Beyond, NoPackage(b, beyond)
  PROVE  Awaits(done, p)
  <1> DEFINE h == Len(done)
             at == Len(Upto(h))
             msg == Requests[h + 1]
             e == encodeTinyPB(msg)
             r == b.m_read_index
  <1>1. h \in 0 .. Len(Requests) /\ Len(Requests) \in Nat /\ at \in Nat /\ at + readAble(b) = p
    BY InStepParts
  <1>2. readAble(b) \in Nat /\ r \in Nat /\ b.m_write_index \in Nat
    BY OpenShape
  <1> SUFFICES ASSUME h < Len(Requests) PROVE p < Len(Upto(h + 1))
    BY <1>1 DEF Awaits
  <1>3. /\ msg \in Message /\ e \in Seq(Byte) /\ Len(Upto(h + 1)) = at + Len(e)
        /\ \A x \in 1 .. readAble(b) : x <= Len(e) => b.m_buffer[r + x] = e[x]
    BY NextBytes
  <1>4. Kept(msg)
    <2>1. h + 1 \in DOMAIN Requests
      BY <1>1, RequestsAssumption
    <2> QED
      BY <2>1, Zenon DEF Decodable
  <1>5. e = encodeTinyPB(msg)
    OBVIOUS
  <1> HIDE DEF e, msg
  <1>6. readAble(b) < Len(e)
    <2> SUFFICES ASSUME Len(e) <= readAble(b) PROVE FALSE
      BY <1>2, <1>3
    <2>1. \A x \in 1 .. Len(e) : b.m_buffer[r + x] = e[x]
      BY <1>2, <1>3
    <2>2. r \in 0 .. b.m_write_index - 1 /\ PackageAt(b, r, beyond)
      BY <1>3, <1>4, <1>5, <2>1, WholeFound
    <2>3. r \in r .. b.m_write_index - 1
      BY <1>2, <2>2
    <2> QED
      BY <2>2, <2>3, Zenon DEF NoPackage
  <1> HIDE DEF at, h
  <1> QED
    BY <1>1, <1>2, <1>3, <1>6

-----------------------------------------------------------------------------
(* Every request is handled once: the invariant and its steps.             *)

(* What was decoded, dispatched or not yet. *)
Done == handled \o result

(* The inductive invariant of Framed: what was decoded is the first of the *)
(* requests, the in-buffer goes on behind them, up to the byte that was    *)
(* read last, and outside of excute holds no whole request.                *)
Framing ==
  ~lost /\ pc # "undefined" =>
    /\ InStep(Done, m_in_buffer, pos)
    /\ pc # "excute" => Awaits(Done, pos)

(* excute dispatches all that it has decoded. *)
Drained == pc \notin {"excute", "reply", "undefined"} => result = <<>>

LEMMA AppendBehind ==
  ASSUME NEW S, NEW s \in Seq(S), NEW t \in Seq(S), NEW x \in S
  PROVE  s \o Append(t, x) = Append(s \o t, x)
  <1>1. <<x>> \in Seq(S) /\ s \o t \in Seq(S)
    BY ConcatProperties
  <1>2. Append(t, x) = t \o <<x>> /\ Append(s \o t, x) = (s \o t) \o <<x>>
    BY <1>1, AppendIsConcat
  <1> QED
    BY <1>1, <1>2, ConcatAssociative

LEMMA HeadMoves ==
  ASSUME NEW S, NEW s \in Seq(S), NEW t \in Seq(S), t # <<>>
  PROVE  Append(s, Head(t)) \o Tail(t) = s \o t
  <1>1. Head(t) \in S /\ Tail(t) \in Seq(S) /\ <<Head(t)>> \in Seq(S)
    OBVIOUS
  <1>2. <<Head(t)>> \o Tail(t) = t
    OBVIOUS
  <1>3. Append(s, Head(t)) = s \o <<Head(t)>>
    BY <1>1, AppendIsConcat
  <1> QED
    BY <1>1, <1>2, <1>3, ConcatAssociative, SMTT(30)

LEMMA InitFraming ==
  ASSUME Decodable, Init
  PROVE  Framing /\ Drained
  <1>1. Done = <<>> /\ result = <<>> /\ pos = 0
    BY DEF Init, Done
  <1> DEFINE b == TcpBuffer(BufferSize)
  <1>2. /\ m_in_buffer = b /\ b.m_read_index = 0 /\ b.m_write_index = 0
        /\ b.m_buffer = Zeros(BufferSize)
    BY DEF Init, TcpBuffer
  <1> HIDE DEF b
  <1>3. readAble(b) = 0
    BY <1>2 DEF readAble
  <1>4. Upto(0) = <<>> /\ Len(Upto(0)) = 0 /\ Len(<<>>) = 0
    BY UptoEnds
  <1>5. Follows(b, 0)
    BY <1>3 DEF Follows
  <1>6. Clean(b)
    BY <1>2, BufferSizeAssumption DEF Clean, Zeros
  <1>7. IsPrefix(<<>>, Requests)
    BY RequestsAssumption DEF IsPrefix
  <1>8. InStep(<<>>, b, 0)
    BY <1>3, <1>4, <1>5, <1>6, <1>7 DEF InStep
  <1>9. Awaits(<<>>, 0)
    <2>1. CASE Len(Requests) = 0
      BY <1>4, <2>1 DEF Awaits
    <2>2. CASE Len(Requests) # 0
      <3> DEFINE msg == Requests[1]
                 e == encodeTinyPB(msg)
      <3>1. 0 \in 0 .. Len(Requests) - 1 /\ 0 + 1 = 1
        BY <2>2, RequestsAssumption
      <3>2. msg \in Message /\ e \in Seq(Byte) /\ Len(Upto(1)) = 0 + Len(e)
        BY <1>4, <3>1, RequestPlace
      <3>3. Len(e) > 0
        <4>1. Kept(msg)
          <5>1. 1 \in DOMAIN Requests
            BY <3>1, RequestsAssumption
          <5> QED
            BY <5>1, Zenon DEF Decodable
        <4> QED
          BY <3>2, <4>1, Header
      <3> HIDE DEF e, msg
      <3>4. 0 < Len(Upto(Len(<<>>) + 1))
        BY <1>4, <3>1, <3>2, <3>3
      <3> QED
        BY <3>4 DEF Awaits
    <2> QED
      BY <2>1, <2>2
  <1> QED
    BY <1>1, <1>2, <1>8, <1>9 DEF Framing, Drained

(* Steps that leave what was decoded and what was read as they are. *)
LEMMA FramingFrame ==
  ASSUME Framing, Done' = Done, UNCHANGED <<m_in_buffer, pos, lost>>,
         pc = "undefined" => pc' = "undefined",
         pc = "excute" => pc' \in {"excute", "undefined"}
  PROVE  Framing'
  BY DEF Framing

LEMMA FramingData ==
  ASSUME TypeOK, Framing, NEW n \in 1 .. Len(Stream), Arrived(n), Data(n),
         pc \in {"read", "read_again"}, UNCHANGED <<handled, result>>
  PROVE  Framing'
  <1>1. Open(m_in_buffer) /\ handled \in Seq(Message) /\ result \in Seq(Message)
    BY TypeParts DEF Types
  <1>2. ReadBuffer = m_in_buffer
    <2>1. writeAble(m_in_buffer) # 0
      BY <1>1, OpenShape, BufferSizeAssumption
    <2> QED
      BY <2>1 DEF ReadBuffer
  <1>3. pos \in Nat /\ n \in Nat /\ pos + n <= Len(Stream)
    BY StreamType DEF TypeOK, Arrived
  <1>4. n <= writeAble(m_in_buffer) /\ writeAble(m_in_buffer) \in Nat
    BY <1>1, <1>2, OpenShape, BufferSizeAssumption DEF Arrived
  <1>5. /\ pos' = pos + n
        /\ m_in_buffer' = moveWriteIndex(Stored(m_in_buffer, SubSeq(Stream, pos + 1, pos + n)), n)
        /\ lost' = (lost \/ n = writeAble(m_in_buffer))
        /\ n # writeAble(m_in_buffer) => pc' = "excute"
    BY <1>2, Zenon DEF Data
  <1>6. Done \in Seq(Message) /\ Done' = Done
    BY <1>1 DEF Done
  <1> SUFFICES ASSUME ~lost', pc' # "undefined" PROVE Framing'
    BY DEF Framing
  <1>7. ~lost /\ n < writeAble(m_in_buffer) /\ pc' = "excute"
    <2> DEFINE room == writeAble(m_in_buffer)
    <2>1. n <= room /\ room \in Nat /\ lost' = (lost \/ n = room) /\ (n # room => pc' = "excute")
      BY <1>4, <1>5, Zenon
    <2> HIDE DEF room
    <2>2. ~lost /\ n # room
      BY <2>1
    <2>3. n < room
      BY <1>3, <2>1, <2>2
    <2> QED
      BY <2>1, <2>2, <2>3 DEF room
  <1>8. InStep(Done, m_in_buffer, pos)
    BY <1>7 DEF Framing
  <1>9. InStep(Done, m_in_buffer', pos')
    BY <1>1, <1>3, <1>5, <1>6, <1>7, <1>8, InStepData
  <1> QED
    BY <1>6, <1>7, <1>9 DEF Framing

LEMMA FramingDecode ==
  ASSUME Decodable, TypeOK, Framing, NEW beyond \in Beyond, Decode(beyond)
  PROVE  Framing'
  <1> DEFINE b == m_in_buffer
  <1>1. /\ Open(b) /\ handled \in Seq(Message) /\ result \in Seq(Message)
        /\ pos \in 0 .. Len(Stream)
    BY TypeParts DEF Types
  <1>2. PICK start \in 0 .. b.m_write_index - 1 :
          /\ FirstPackageAt(b, start, beyond)
          /\ DecodePackage(start, EndIndex(b, start, beyond), beyond)
    BY DEF Decode
  <1> DEFINE end == EndIndex(b, start, beyond)
             parsed == Parse(b, start, end, beyond)
             c == Consumed(b, start, end)
  <1>3. /\ pc' = IF parsed.kind = "undefined" THEN "undefined" ELSE pc
        /\ m_in_buffer' = c
        /\ result' = IF parsed.kind = "message" THEN Append(result, parsed.message) ELSE result
    BY <1>2, Zenon DEF DecodePackage
  <1>4. pc = "excute" /\ pos' = pos /\ handled' = handled /\ lost' = lost
    BY DEF Decode
  <1> SUFFICES ASSUME ~lost PROVE Framing'
    BY <1>4 DEF Framing
  <1>5. Done \in Seq(Message) /\ InStep(Done, b, pos)
    BY <1>1, <1>4 DEF Done, Framing
  <1>6. \/ parsed.kind = "message" /\ InStep(Append(Done, parsed.message), c, pos)
        \/ parsed.kind = "dropped" /\ InStep(Done, c, pos)
    <2>1. end = EndIndex(b, start, beyond) /\ c = Consumed(b, start, end)
          /\ parsed = Parse(b, start, end, beyond)
      OBVIOUS
    <2> HIDE DEF b, end, c, parsed
    <2> QED
      BY <1>1, <1>2, <1>5, <2>1, InStepFound
  <1>7. ASSUME parsed.kind = "message" PROVE Done' = Append(Done, parsed.message)
    <2>1. parsed.message \in Message
      <3>1. b \in Buffer /\ beyond \in Byte /\ start \in Int
        BY <1>1, BeyondAssumption DEF Open, Buffer
      <3>2. end \in Int
        <4>1. start + 1 \in Int
          BY <3>1
        <4>2. getInt32FromNetByte(b, start + 1, beyond) \in Int
          BY <3>1, <4>1, IntType
        <4> QED
          BY <3>1, <4>2 DEF EndIndex
      <3> HIDE DEF end, b
      <3> QED
        BY <1>7, <3>1, <3>2, ParseType
    <2> HIDE DEF parsed
    <2>2. result' = Append(result, parsed.message)
      BY <1>3, <1>7
    <2>3. handled \o Append(result, parsed.message) = Append(handled \o result, parsed.message)
      BY <1>1, <2>1, AppendBehind
    <2> QED
      BY <1>4, <2>2, <2>3 DEF Done
  <1> HIDE DEF parsed, c, b
  <1>8. CASE parsed.kind = "message"
    BY <1>3, <1>4, <1>6, <1>7, <1>8 DEF Framing
  <1>9. CASE parsed.kind # "message"
    BY <1>3, <1>4, <1>6, <1>9 DEF Framing, Done
  <1> QED
    BY <1>8, <1>9
LEMMA FramingReturn ==
  ASSUME Decodable, TypeOK, Framing, NEW beyond \in Beyond, DecodeReturn(beyond)
  PROVE  Framing'
  <1>1. Open(m_in_buffer) /\ handled \in Seq(Message) /\ result \in Seq(Message)
    BY TypeParts DEF Types
  <1>2. /\ pc = "excute" /\ pc' = "reply" /\ NoPackage(m_in_buffer, beyond) /\ Done' = Done
        /\ UNCHANGED <<m_in_buffer, pos, lost>>
    BY DEF DecodeReturn, Done
  <1> SUFFICES ASSUME ~lost PROVE Framing'
    BY <1>2 DEF Framing
  <1>3. Done \in Seq(Message) /\ InStep(Done, m_in_buffer, pos)
    BY <1>1, <1>2 DEF Done, Framing
  <1>4. Awaits(Done, pos)
    BY <1>1, <1>2, <1>3, InStepNone
  <1> QED
    BY <1>2, <1>3, <1>4 DEF Framing

LEMMA FramingStep ==
  ASSUME Decodable, TypeOK, Framing, Drained, [Next]_vars
  PROVE  Framing' /\ Drained'
  <1>1. ASSUME NEW n \in 1 .. Len(Stream), Read(n) \/ ReadAgain(n) PROVE Framing' /\ Drained'
    <2>1. Arrived(n) /\ Data(n) /\ pc \in {"read", "read_again"} /\ UNCHANGED <<handled, result>>
      BY <1>1 DEF Read, ReadAgain
    <2>2. Drained'
      BY <2>1 DEF Drained
    <2> QED
      BY <2>1, <2>2, FramingData
  <1>2. CASE ReadYields
    <2>1. ReadBuffer = m_in_buffer
      <3>1. writeAble(m_in_buffer) # 0
        BY TypeParts, OpenShape, BufferSizeAssumption DEF Types
      <3> QED
        BY <3>1 DEF ReadBuffer
    <2>2. Done' = Done /\ UNCHANGED <<m_in_buffer, pos, lost, result>> /\ pc = "read"
      BY <1>2, <2>1 DEF ReadYields, Done
    <2> QED
      BY <2>2, FramingFrame DEF Drained
  <1>3. CASE ReadReady \/ ReadEnds
    <2>1. /\ Done' = Done /\ UNCHANGED <<m_in_buffer, pos, lost, result>>
          /\ pc \in {"read_wait", "read_again"}
      BY <1>3 DEF ReadReady, ReadEnds, Done
    <2> QED
      BY <2>1, FramingFrame DEF Drained
  <1>4. ASSUME NEW beyond \in Beyond, Decode(beyond) PROVE Framing' /\ Drained'
    <2>1. pc = "excute" /\ pc' \in {"undefined", pc}
      BY <1>4, DecodeOpen DEF Decode
    <2> QED
      BY <1>4, <2>1, FramingDecode DEF Drained
  <1>5. ASSUME NEW beyond \in Beyond, DecodeReturn(beyond) PROVE Framing' /\ Drained'
    <2>1. pc' = "reply"
      BY <1>5 DEF DecodeReturn
    <2> QED
      BY <1>5, <2>1, FramingReturn DEF Drained
  <1>6. CASE Reply
    <2>1. handled \in Seq(Message) /\ result \in Seq(Message) /\ result # <<>>
      BY <1>6 DEF TypeOK, Reply
    <2>2. Append(handled, Head(result)) \o Tail(result) = handled \o result
      BY <2>1, HeadMoves
    <2>3. Done' = Done /\ UNCHANGED <<pc, m_in_buffer, pos, lost>> /\ pc = "reply"
      BY <1>6, <2>2 DEF Reply, Done
    <2> QED
      BY <2>3, FramingFrame DEF Drained
  <1>7. CASE \/ ExcuteReturns \/ WriteNothing \/ Write \/ WriteYields \/ WriteReady \/ WriteAgain
             \/ WriteKills
    <2>1. /\ Done' = Done /\ UNCHANGED <<m_in_buffer, pos, lost, result>>
          /\ \/ pc = "reply" /\ result = <<>>
             \/ pc \in {"write", "write_again", "write_wait"}
      BY <1>7 DEF ExcuteReturns, WriteNothing, Write, WriteYields, WriteReady, WriteAgain,
                  WriteKills, Done
    <2> QED
      BY <2>1, FramingFrame DEF Drained
  <1>8. CASE PeerCloses \/ UNCHANGED vars
    <2>1. Done' = Done /\ UNCHANGED <<pc, m_in_buffer, pos, lost, result>>
      BY <1>8 DEF PeerCloses, vars, Done
    <2> QED
      BY <2>1, FramingFrame DEF Drained
  <1> QED
    BY <1>1, <1>2, <1>3, <1>4, <1>5, <1>6, <1>7, <1>8 DEF Next, Step

LEMMA FramingFramed ==
  ASSUME TypeOK, Framing, Drained
  PROVE  Framed
  <1> SUFFICES ASSUME ~lost, pc # "undefined"
               PROVE  /\ IsPrefix(handled \o result, Requests)
                      /\ pc = "read_wait" => \A k \in Whole : k <= Len(handled)
    BY DEF Framed
  <1>1. InStep(Done, m_in_buffer, pos) /\ (pc # "excute" => Awaits(Done, pos))
    BY DEF Framing
  <1>2. IsPrefix(handled \o result, Requests)
    BY <1>1 DEF InStep, Done
  <1>3. ASSUME pc = "read_wait", NEW k \in Whole PROVE k <= Len(handled)
    <2>1. result = <<>> /\ Awaits(Done, pos)
      BY <1>1, <1>3 DEF Drained
    <2>2. handled \in Seq(Message) /\ pos \in Int
      BY StreamType DEF TypeOK
    <2>3. Done = handled
      BY <2>1, <2>2, ConcatEmptySeq DEF Done
    <2> DEFINE h == Len(handled)
    <2>4. h \in 0 .. Len(Requests) /\ Len(Requests) \in Nat
      BY <1>1, <2>2, <2>3, InStepParts
    <2>5. k \in 0 .. Len(Requests) /\ Len(Upto(k)) <= pos
      BY DEF Whole, Upto
    <2>6. h = Len(Requests) \/ pos < Len(Upto(h + 1))
      BY <2>1, <2>3 DEF Awaits
    <2> HIDE DEF h
    <2> SUFFICES ASSUME k > h PROVE FALSE
      BY <2>4, <2>5 DEF h
    <2>7. pos < Len(Upto(h + 1)) /\ h + 1 \in 0 .. k
      BY <2>4, <2>5, <2>6
    <2>8. Has(Upto(k), 0, Upto(h + 1))
      BY <2>5, <2>7, UptoGrows
    <2>9. Upto(k) \in Seq(Byte) /\ Upto(h + 1) \in Seq(Byte)
      BY <2>4, <2>5, <2>7, UptoEnds
    <2>10. Len(Upto(k)) \in Nat /\ Len(Upto(h + 1)) \in Nat /\ 0 + Len(Upto(h + 1)) <= Len(Upto(k))
      BY <2>8, <2>9 DEF Has
    <2> QED
      BY <2>2, <2>5, <2>7, <2>10
  <1> QED
    BY <1>2, <1>3

(* However the stream is cut into reads, the requests are handled once     *)
(* each, in their order, as they were sent, and all that have come before  *)
(* the coroutine waits for more.                                           *)
THEOREM FramedRequests ==
  ASSUME Decodable
  PROVE  Spec => []Framed
  <1>1. Init => Framing /\ Drained
    BY InitFraming
  <1>2. IInv /\ Framing /\ Drained /\ [Next]_vars => Framing' /\ Drained'
    BY FramingStep DEF IInv
  <1>3. IInv /\ Framing /\ Drained => Framed
    BY FramingFramed DEF IInv
  <1> QED
    BY <1>1, <1>2, <1>3, Invariance, PTL DEF Spec
=============================================================================
