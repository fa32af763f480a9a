-------------------------- MODULE AsyncLoggerProofs --------------------------
(***************************************************************************)
(* The safety of AsyncLogger for any threads, levels, file sizes and       *)
(* bounds: its invariants follow from the inductive IInv.                  *)
(***************************************************************************)
EXTENDS AsyncLogger, SequenceTheorems, FiniteSetTheorems, WellFoundedInduction, TLAPS

USE BoundAssumption

-----------------------------------------------------------------------------
(* FlattenSeq at both ends of a queue.                                     *)

(* Induction up to n, with a set for the formula. *)
LEMMA UpTo ==
  ASSUME NEW n \in Nat, NEW S, n = 0 \/ 1 \in S,
         \A i \in 1 .. n : i \in S /\ i < n => i + 1 \in S
  PROVE  \A i \in 1 .. n : i \in S
  <1> DEFINE R == OpToRel(<, Nat)
             T == {i \in 1 .. n : i \notin S}
  <1>1. R = {p \in Nat \X Nat : p[1] < p[2]}
    BY Zenon DEF OpToRel
  <1>2. IsWellFoundedOn(R, Nat)
    BY NatLessThanWellFounded, Zenon
  <1> HIDE DEF R
  <1>3. SUFFICES ASSUME T # {} PROVE FALSE
    OBVIOUS
  <1>4. T \subseteq Nat
    OBVIOUS
  <1>5. PICK m \in T : \A i \in T : ~(<<i, m>> \in R)
    BY <1>2, <1>3, <1>4, WFMin
  <1>6. m # 1 /\ m - 1 \in 1 .. n /\ m - 1 < n
    OBVIOUS
  <1>7. <<m - 1, m>> \in R
    BY <1>1, <1>6
  <1>8. m - 1 \in S
    BY <1>5, <1>6, <1>7
  <1> QED
    BY <1>6, <1>8

(* What FlattenSeq computes on the way. *)
Steps(M, s, n, f) ==
  /\ DOMAIN f = 1 .. n
  /\ \A i \in 1 .. n : f[i] \in Seq(M)
  /\ f[1] = s[1]
  /\ \A i \in 1 .. n : i # 1 => f[i] = f[i - 1] \o s[i]

LEMMA StepsExist ==
  ASSUME NEW M, NEW s \in Seq(Seq(M))
  PROVE  \A n \in 1 .. Len(s) : \E f : f = [i \in DOMAIN f |-> f[i]] /\ Steps(M, s, n, f)
  <1> DEFINE S == {n \in 1 .. Len(s) : \E f : f = [i \in DOMAIN f |-> f[i]] /\ Steps(M, s, n, f)}
  <1>1. ASSUME 1 \in 1 .. Len(s) PROVE 1 \in S
    <2> DEFINE f == [i \in 1 .. 1 |-> s[i]]
    <2>1. DOMAIN f = 1 .. 1 /\ f = [i \in DOMAIN f |-> f[i]]
      OBVIOUS
    <2>2. f[1] = s[1] /\ f[1] \in Seq(M)
      BY <1>1
    <2> HIDE DEF f
    <2>3. Steps(M, s, 1, f)
      BY <2>1, <2>2 DEF Steps
    <2> QED
      BY <1>1, <2>1, <2>3
  <1>2. ASSUME NEW n \in 1 .. Len(s), n \in S, n < Len(s)
        PROVE  n + 1 \in S
    <2>1. PICK g : Steps(M, s, n, g)
      BY <1>2
    <2> DEFINE f == [i \in 1 .. n + 1 |-> IF i = n + 1 THEN g[n] \o s[i] ELSE g[i]]
    <2>2. n + 1 \in 1 .. Len(s) /\ n + 1 # 1 /\ s[n + 1] \in Seq(M) /\ n \in 1 .. n /\ 1 \in 1 .. n
      BY <1>2
    <2>3. /\ DOMAIN f = 1 .. n + 1 /\ f = [i \in DOMAIN f |-> f[i]]
          /\ f[n + 1] = g[n] \o s[n + 1] /\ \A i \in 1 .. n : f[i] = g[i]
      <3>1. n + 1 \in 1 .. n + 1 /\ \A i \in 1 .. n : i \in 1 .. n + 1 /\ i # n + 1
        OBVIOUS
      <3>2. DOMAIN f = 1 .. n + 1 /\ f = [i \in DOMAIN f |-> f[i]]
        OBVIOUS
      <3>3. f[n + 1] = g[n] \o s[n + 1]
        BY <3>1, Zenon
      <3>4. \A i \in 1 .. n : f[i] = g[i]
        BY <3>1, Zenon
      <3> QED
        BY <3>2, <3>3, <3>4
    <2> HIDE DEF f
    <2>4. g[n] \in Seq(M)
      BY <2>1, <2>2 DEF Steps
    <2>5. f[n + 1] \in Seq(M)
      BY <2>2, <2>3, <2>4, ConcatProperties
    <2>6. ASSUME NEW i \in 1 .. n + 1
          PROVE  f[i] \in Seq(M) /\ (i # 1 => f[i] = f[i - 1] \o s[i])
      <3>1. CASE i = n + 1
        <4>1. i - 1 = n
          BY <3>1
        <4> QED
          BY <2>2, <2>3, <2>5, <3>1, <4>1
      <3>2. CASE i # n + 1
        <4>1. i \in 1 .. n /\ (i # 1 => i - 1 \in 1 .. n)
          BY <3>2
        <4>2. g[i] \in Seq(M) /\ (i # 1 => g[i] = g[i - 1] \o s[i])
          BY <2>1, <4>1 DEF Steps
        <4> QED
          BY <2>3, <4>1, <4>2
      <3> QED
        BY <3>1, <3>2
    <2>7. f[1] = s[1]
      BY <2>1, <2>2, <2>3 DEF Steps
    <2>8. Steps(M, s, n + 1, f)
      BY <2>3, <2>6, <2>7 DEF Steps
    <2> QED
      BY <2>2, <2>3, <2>8
  <1>3. Len(s) \in Nat /\ (Len(s) = 0 \/ 1 \in 1 .. Len(s))
    OBVIOUS
  <1> HIDE DEF S
  <1>4. \A n \in 1 .. Len(s) : n \in S
    BY <1>1, <1>2, <1>3, UpTo
  <1> QED
    BY <1>4 DEF S

LEMMA Flattened ==
  ASSUME NEW M, NEW s \in Seq(Seq(M)), s # <<>>
  PROVE  \E f : Steps(M, s, Len(s), f) /\ FlattenSeq(s) = f[Len(s)]
  <1> DEFINE body(f) == [i \in 1 .. Len(s) |-> IF i = 1 THEN s[i] ELSE f[i - 1] \o s[i]]
             flatten == CHOOSE f : f = body(f)
             S == {i \in 1 .. Len(s) : flatten[i] \in Seq(M)}
  <1>1. /\ Len(s) \in Nat /\ Len(s) # 0 /\ Len(s) \in 1 .. Len(s) /\ 1 \in 1 .. Len(s)
        /\ \A i \in 1 .. Len(s) : s[i] \in Seq(M)
    OBVIOUS
  <1>2. FlattenSeq(s) = flatten[Len(s)]
    BY <1>1 DEF FlattenSeq
  <1>3. \E f : f = body(f)
    <2>1. PICK f : f = [i \in DOMAIN f |-> f[i]] /\ Steps(M, s, Len(s), f)
      BY <1>1, StepsExist
    <2>2. \A i \in 1 .. Len(s) : f[i] = (IF i = 1 THEN s[i] ELSE f[i - 1] \o s[i])
      BY <2>1 DEF Steps
    <2>3. f = [i \in 1 .. Len(s) |-> f[i]]
      BY <2>1 DEF Steps
    <2>4. f = body(f)
      BY <2>2, <2>3
    <2> QED
      BY <2>4
  <1>4. flatten = body(flatten)
    <2> HIDE DEF body
    <2> QED
      BY <1>3
  <1> HIDE DEF flatten
  <1>5. DOMAIN flatten = 1 .. Len(s)
    BY <1>4
  <1>6. \A i \in 1 .. Len(s) : flatten[i] = IF i = 1 THEN s[i] ELSE flatten[i - 1] \o s[i]
    BY <1>4
  <1>7. 1 \in S
    BY <1>1, <1>6
  <1>8. ASSUME NEW i \in 1 .. Len(s), i \in S, i < Len(s)
        PROVE  i + 1 \in S
    <2>1. i + 1 \in 1 .. Len(s) /\ i + 1 # 1 /\ (i + 1) - 1 = i
      BY <1>8
    <2>2. flatten[i + 1] = flatten[(i + 1) - 1] \o s[i + 1]
      BY <1>6, <2>1
    <2>3. flatten[i] \in Seq(M) /\ s[i + 1] \in Seq(M)
      BY <1>1, <1>8, <2>1
    <2>4. flatten[i + 1] \in Seq(M)
      BY <2>1, <2>2, <2>3, ConcatProperties
    <2> QED
      BY <2>1, <2>4
  <1> HIDE DEF S
  <1>9. \A i \in 1 .. Len(s) : i \in S
    BY <1>1, <1>7, <1>8, UpTo
  <1>10. Steps(M, s, Len(s), flatten)
    BY <1>1, <1>5, <1>6, <1>9 DEF Steps, S
  <1> QED
    BY <1>2, <1>10

LEMMA FlattenType ==
  ASSUME NEW M, NEW s \in Seq(Seq(M))
  PROVE  FlattenSeq(s) \in Seq(M) /\ (s = <<>> => FlattenSeq(s) = <<>>)
  <1>1. CASE s = <<>>
    BY <1>1, EmptySeq DEF FlattenSeq
  <1>2. CASE s # <<>>
    <2>1. PICK f : Steps(M, s, Len(s), f) /\ FlattenSeq(s) = f[Len(s)]
      BY <1>2, Flattened
    <2>2. Len(s) \in 1 .. Len(s)
      BY <1>2
    <2> QED
      BY <1>2, <2>1, <2>2 DEF Steps
  <1> QED
    BY <1>1, <1>2

LEMMA FlattenOne ==
  ASSUME NEW M, NEW e \in Seq(M)
  PROVE  FlattenSeq(<<e>>) = e
  <1>1. <<e>> \in Seq(Seq(M)) /\ <<e>> # <<>> /\ Len(<<e>>) = 1 /\ <<e>>[1] = e
    OBVIOUS
  <1>2. PICK f : Steps(M, <<e>>, Len(<<e>>), f) /\ FlattenSeq(<<e>>) = f[Len(<<e>>)]
    BY <1>1, Flattened
  <1> QED
    BY <1>1, <1>2 DEF Steps

(* A batch is queued. *)
LEMMA FlattenAppend ==
  ASSUME NEW M, NEW s \in Seq(Seq(M)), NEW e \in Seq(M)
  PROVE  FlattenSeq(Append(s, e)) = FlattenSeq(s) \o e
  <1>1. CASE s = <<>>
    <2>1. Append(s, e) = <<e>>
      BY <1>1
    <2>2. FlattenSeq(s) = <<>>
      BY <1>1, FlattenType
    <2> QED
      BY <2>1, <2>2, FlattenOne, ConcatEmptySeq
  <1>2. CASE s # <<>>
    <2> DEFINE u == Append(s, e)
    <2>1. /\ u \in Seq(Seq(M)) /\ u # <<>> /\ Len(u) = Len(s) + 1 /\ u[Len(u)] = e
          /\ \A i \in 1 .. Len(s) : u[i] = s[i]
      BY AppendProperties
    <2>2. Len(s) \in Nat /\ Len(s) # 0
      BY <1>2
    <2> HIDE DEF u
    <2>3. PICK f : Steps(M, s, Len(s), f) /\ FlattenSeq(s) = f[Len(s)]
      BY <1>2, Flattened
    <2>4. PICK g : Steps(M, u, Len(u), g) /\ FlattenSeq(u) = g[Len(u)]
      BY <2>1, Flattened
    <2>5. Len(s) <= Len(u) /\ Len(s) \in 1 .. Len(s) /\ Len(u) \in 1 .. Len(u) /\ Len(u) # 1
          /\ Len(u) - 1 = Len(s)
      BY <2>1, <2>2
    <2>6. \A i \in 1 .. Len(s) : g[i] = f[i]
      <3> DEFINE S == {i \in 1 .. Len(s) : g[i] = f[i]}
      <3>1. 1 \in 1 .. Len(s) /\ 1 .. Len(s) \subseteq 1 .. Len(u)
        BY <2>2, <2>5
      <3>2. 1 \in S
        BY <2>1, <2>3, <2>4, <3>1 DEF Steps
      <3>3. ASSUME NEW i \in 1 .. Len(s), i \in S, i < Len(s)
            PROVE  i + 1 \in S
        <4>1. i + 1 \in 1 .. Len(s) /\ i + 1 # 1 /\ (i + 1) - 1 = i
          BY <3>3
        <4>2. g[i + 1] = g[(i + 1) - 1] \o u[i + 1]
          BY <2>4, <3>1, <4>1 DEF Steps
        <4>3. f[i + 1] = f[(i + 1) - 1] \o s[i + 1]
          BY <2>3, <4>1 DEF Steps
        <4>4. u[i + 1] = s[i + 1] /\ g[i] = f[i]
          BY <2>1, <3>3, <4>1
        <4>5. g[i + 1] = f[i + 1]
          BY <4>1, <4>2, <4>3, <4>4
        <4> QED
          BY <4>1, <4>5
      <3> HIDE DEF S
      <3>4. \A i \in 1 .. Len(s) : i \in S
        BY <2>2, <3>2, <3>3, UpTo
      <3> QED
        BY <3>4 DEF S
    <2>7. g[Len(u)] = g[Len(u) - 1] \o u[Len(u)]
      BY <2>4, <2>5 DEF Steps
    <2>8. g[Len(s)] = f[Len(s)]
      BY <2>5, <2>6
    <2>9. FlattenSeq(u) = FlattenSeq(s) \o e
      BY <2>1, <2>3, <2>4, <2>5, <2>7, <2>8
    <2> QED
      BY <2>9 DEF u
  <1> QED
    BY <1>1, <1>2

(* A batch is taken. *)
LEMMA FlattenTail ==
  ASSUME NEW M, NEW s \in Seq(Seq(M)), s # <<>>
  PROVE  FlattenSeq(s) = Head(s) \o FlattenSeq(Tail(s))
  <1> DEFINE u == Tail(s)
  <1>1. /\ u \in Seq(Seq(M)) /\ Len(s) = Len(u) + 1 /\ Len(u) \in Nat
        /\ Head(s) = s[1] /\ s[1] \in Seq(M)
        /\ \A i \in 1 .. Len(u) : u[i] = s[i + 1] /\ u[i] \in Seq(M)
    OBVIOUS
  <1> HIDE DEF u
  <1>2. PICK f : Steps(M, s, Len(s), f) /\ FlattenSeq(s) = f[Len(s)]
    BY Flattened
  <1>3. CASE u = <<>>
    <2>1. Len(s) = 1 /\ 1 \in 1 .. 1
      BY <1>1, <1>3
    <2>2. FlattenSeq(s) = s[1]
      BY <1>2, <2>1 DEF Steps
    <2>3. FlattenSeq(u) = <<>>
      BY <1>1, <1>3, FlattenType
    <2> QED
      BY <1>1, <2>2, <2>3, ConcatEmptySeq DEF u
  <1>4. CASE u # <<>>
    <2>1. PICK g : Steps(M, u, Len(u), g) /\ FlattenSeq(u) = g[Len(u)]
      BY <1>1, <1>4, Flattened
    <2> DEFINE S == {i \in 1 .. Len(u) : f[i + 1] = s[1] \o g[i]}
    <2>2. Len(u) # 0 /\ 1 \in 1 .. Len(u) /\ Len(u) \in 1 .. Len(u)
      BY <1>1, <1>4
    <2>3. ASSUME NEW i \in 1 .. Len(u)
          PROVE  f[i + 1] = f[i] \o u[i]
      <3>1. i + 1 \in 1 .. Len(s) /\ i + 1 # 1 /\ (i + 1) - 1 = i
        BY <1>1
      <3>2. f[i + 1] = f[(i + 1) - 1] \o s[i + 1]
        BY <1>2, <3>1 DEF Steps
      <3> QED
        BY <1>1, <3>1, <3>2
    <2>4. 1 \in S
      <3>1. f[1] = s[1] /\ g[1] = u[1]
        BY <1>2, <2>1 DEF Steps
      <3>2. f[1 + 1] = f[1] \o u[1]
        BY <2>2, <2>3
      <3> QED
        BY <2>2, <3>1, <3>2
    <2>5. ASSUME NEW i \in 1 .. Len(u), i \in S, i < Len(u)
          PROVE  i + 1 \in S
      <3>1. i + 1 \in 1 .. Len(u) /\ i + 1 # 1 /\ (i + 1) - 1 = i
        BY <1>1, <2>5
      <3>2. f[(i + 1) + 1] = f[i + 1] \o u[i + 1]
        BY <2>3, <3>1
      <3>3. g[i + 1] = g[(i + 1) - 1] \o u[i + 1] /\ g[i] \in Seq(M)
        BY <2>1, <3>1 DEF Steps
      <3>4. f[i + 1] = s[1] \o g[i]
        BY <2>5
      <3>5. u[i + 1] \in Seq(M)
        BY <1>1, <3>1
      <3>6. (s[1] \o g[i]) \o u[i + 1] = s[1] \o (g[i] \o u[i + 1])
        <4> DEFINE a == s[1]
                   b == g[i]
                   c == u[i + 1]
        <4>1. a \in Seq(M) /\ b \in Seq(M) /\ c \in Seq(M)
          BY <1>1, <3>3, <3>5
        <4> HIDE DEF a, b, c
        <4>2. (a \o b) \o c = a \o (b \o c)
          BY <4>1, SMTT(30)
        <4> QED
          BY <4>2 DEF a, b, c
      <3>7. f[(i + 1) + 1] = s[1] \o g[i + 1]
        BY <3>1, <3>2, <3>3, <3>4, <3>6
      <3> QED
        BY <3>1, <3>7
    <2> HIDE DEF S
    <2>6. \A i \in 1 .. Len(u) : i \in S
      BY <1>1, <2>2, <2>4, <2>5, UpTo
    <2>7. f[Len(u) + 1] = s[1] \o g[Len(u)]
      BY <2>2, <2>6 DEF S
    <2> QED
      BY <1>1, <1>2, <2>1, <2>7 DEF u
  <1> QED
    BY <1>3, <1>4
-----------------------------------------------------------------------------
(* The parts of the invariant.                                             *)

(* A batch that is in somebody's hands is not empty. *)
Held ==
  /\ temp_vec # <<>> <=> pc \in {"push_lock", "push"}
  /\ \A c \in Channel : temp[c] # <<>> <=> apc[c] = "write"

(* Every message has its place below MaxLogs, and every file its message.  *)
Bounded ==
  /\ Messages + UnderWay <= MaxLogs
  /\ \A c \in Channel : m_no[c] <= Len(written[c])

(* The last file of the last date: m_no is its number, or that of the next *)
(* one once a file was too long.  The files beyond are as they were found. *)
Numbered ==
  \A c \in Channel :
    \/ m_date[c] = MaxDate + 1 /\ m_no[c] = 0 /\ files[c] = earlier[c]
    \/ /\ m_date[c] <= today
       /\ m_file_handler[c] = <<m_date[c], IF m_no[c] = 0 THEN 0 ELSE m_no[c] - 1>>
       /\ \A f \in File :
            files[c][f] # earlier[c][f]
              => \/ f[1] < m_date[c]
                 \/ f[1] = m_date[c] /\ f[2] <= m_file_handler[c][2]

IInv ==
  /\ TypeOK /\ files \in [Channel -> [File -> Nat]] /\ earlier \in [Channel -> [File -> Nat]]
  /\ Held /\ Bounded /\ Numbered /\ NothingLost

LEMMA InitIInv == Init => IInv
  <1> SUFFICES ASSUME Init PROVE IInv
    OBVIOUS
  <1>1. TypeOK
    BY DEF Init, TypeOK, At, Pc, Apc, Channel
  <1>6. files \in [Channel -> [File -> Nat]] /\ earlier \in [Channel -> [File -> Nat]]
    <2>1. PICK sizes \in Earlier :
            earlier = [c \in Channel |-> [f \in File |-> IF f[1] = 0 THEN sizes[c][f[2]] ELSE 0]]
      BY DEF Init
    <2>2. sizes \in [Channel -> [0 .. MaxLogs -> Nat]]
      BY EarlierAssumption
    <2>3. ASSUME NEW c \in Channel, NEW f \in File
          PROVE  (IF f[1] = 0 THEN sizes[c][f[2]] ELSE 0) \in Nat
      BY <2>2 DEF File
    <2> QED
      BY <2>1, <2>3 DEF Init
  <1>2. Held
    BY DEF Init, Held
  <1>3. Bounded
    <2>1. UnderWay = 0
      <3>1. {t \in Thread : at[t] \in {"lock", "push"}} = {}
        BY DEF Init
      <3> QED
        BY <3>1, FS_EmptySet DEF UnderWay
    <2>2. Messages = 0
      BY DEF Init, Messages, Channel
    <2> QED
      BY <2>1, <2>2 DEF Init, Bounded
  <1>4. Numbered
    BY DEF Init, Numbered
  <1>5. NothingLost
    <2>1. FlattenSeq(<<>>) = <<>>
      BY DEF FlattenSeq
    <2> QED
      BY <2>1 DEF Init, NothingLost
  <1> QED
    BY <1>1, <1>2, <1>3, <1>4, <1>5, <1>6 DEF IInv

-----------------------------------------------------------------------------
(* What the steps leave alone.                                             *)

LEMMA LogFrame ==
  ASSUME [Next]_vars
  PROVE  \/ UNCHANGED <<at, to, pushed>>
         \/ \E t \in Thread, c \in Channel :
              Log(t, c) \/ PushLock(t, c) \/ PushBack(t, c) \/ PushReturn(t, c)
  BY DEF Next, LogStep, LoopStep, AsyncStep, Create, CondInit, SemWait, SyncLoop, SyncLock,
         SyncSwap, PushLogBuffer, PushBatch, Signal, PushLogBufferReturn, SyncReturn,
         SemPost, Lock, CondWait, Take, Write, End, Stop, Midnight, vars, logVars

LEMMA FileFrame ==
  ASSUME [Next]_vars
  PROVE  UNCHANGED fileVars \/ \E c \in Channel : Write(c)
  BY DEF Next, LogStep, LoopStep, AsyncStep, Log, PushLock, PushBack, PushReturn,
         Create, CondInit, SemWait, SyncLoop, SyncLock,
         SyncSwap, PushLogBuffer, PushBatch, Signal, PushLogBufferReturn, SyncReturn,
         SemPost, Lock, CondWait, Take, End, Stop, Midnight, vars

LEMMA DateFrame ==
  ASSUME [Next]_vars
  PROVE  UNCHANGED today \/ (UNCHANGED fileVars /\ Midnight)
  <1>1. CASE \E t \in Thread : LogStep(t)
    BY <1>1 DEF LogStep, Log, PushLock, PushBack, PushReturn
  <1>2. CASE LoopStep
    BY <1>2 DEF LoopStep, Create, CondInit, SemWait, SyncLoop, SyncLock, SyncSwap, PushLogBuffer,
                PushBatch, Signal, PushLogBufferReturn, SyncReturn
  <1>3. CASE \E c \in Channel : AsyncStep(c) \/ Stop(c)
    BY <1>3 DEF AsyncStep, SemPost, Lock, CondWait, Take, Write, End, Stop
  <1>4. CASE Midnight \/ UNCHANGED vars
    BY <1>4 DEF Midnight, vars
  <1> QED
    BY <1>1, <1>2, <1>3, <1>4 DEF Next

-----------------------------------------------------------------------------
(* Every step keeps the bounds.                                            *)

LEMMA LenConcat ==
  ASSUME NEW M, NEW u \in Seq(M), NEW v \in Seq(M)
  PROVE  u \o v \in Seq(M) /\ Len(u \o v) = Len(u) + Len(v)
         /\ Len(u) \in Nat /\ Len(v) \in Nat /\ (v # <<>> => Len(v) # 0)
  OBVIOUS

LEMMA MessagesCount ==
  ASSUME IInv
  PROVE  /\ Messages \in Nat
         /\ \A c \in Channel : Len(pushed[c]) \in Nat /\ Len(pushed[c]) <= Messages
  <1> DEFINE r == pushed["rpc"]
             a == pushed["app"]
  <1>1. r \in Seq(Message) /\ a \in Seq(Message)
    BY DEF IInv, TypeOK, Channel
  <1>2. Messages = Len(r) + Len(a)
    BY DEF Messages
  <1> HIDE DEF r, a
  <1>3. Messages \in Nat /\ Len(r) \in Nat /\ Len(a) \in Nat /\ Len(r) <= Messages /\ Len(a) <= Messages
    BY <1>1, <1>2
  <1> QED
    BY <1>3 DEF r, a, Channel

(* One more message in one channel. *)
LEMMA MessagesMore ==
  ASSUME IInv, NEW t \in Thread, NEW c \in Channel, PushBack(t, c)
  PROVE  Messages' = Messages + 1
  <1> DEFINE r  == pushed["rpc"]
             a  == pushed["app"]
             r1 == pushed'["rpc"]
             a1 == pushed'["app"]
             m  == Messages + 1
  <1>1. r \in Seq(Message) /\ a \in Seq(Message) /\ pushed \in [Channel -> Seq(Message)]
    BY DEF IInv, TypeOK, Channel
  <1>2. Messages = Len(r) + Len(a) /\ Messages' = Len(r1) + Len(a1)
    BY DEF Messages
  <1>3. \/ r1 = Append(r, m) /\ a1 = a
        \/ a1 = Append(a, m) /\ r1 = r
    <2>1. pushed' = [pushed EXCEPT ![c] = Append(@, m)]
      BY DEF PushBack
    <2> HIDE DEF m
    <2> QED
      BY <1>1, <2>1 DEF Channel
  <1> HIDE DEF r, a, r1, a1, m
  <1>4. /\ Len(Append(r, m)) = Len(r) + 1 /\ Len(Append(a, m)) = Len(a) + 1
        /\ Len(r) \in Nat /\ Len(a) \in Nat
    BY <1>1
  <1> QED
    BY <1>2, <1>3, <1>4

LEMMA MessagesBounded ==
  ASSUME IInv, [Next]_vars
  PROVE  (Messages + UnderWay <= MaxLogs)'
         /\ \A t \in Thread, c \in Channel : PushBack(t, c) => Messages + 1 <= MaxLogs
  <1> DEFINE U == {t \in Thread : at[t] \in {"lock", "push"}}
  <1>1. IsFiniteSet(U) /\ UnderWay = Cardinality(U) /\ UnderWay \in Nat
    BY ThreadAssumption, FS_Subset, FS_CardinalityType DEF UnderWay
  <1>2. Messages \in Nat
    BY MessagesCount
  <1>3. Messages + UnderWay <= MaxLogs
    BY DEF IInv, Bounded
  <1>4. at \in [Thread -> At]
    BY DEF IInv, TypeOK
  <1>5. ASSUME NEW t \in Thread, NEW c \in Channel, PushBack(t, c)
        PROVE  Messages + 1 <= MaxLogs /\ (Messages + UnderWay <= MaxLogs)'
    <2>1. U' = U \ {t} /\ t \in U
      BY <1>4, <1>5 DEF PushBack
    <2>2. UnderWay' = UnderWay - 1
      <3>1. UnderWay' = Cardinality(U \ {t})
        BY <2>1 DEF UnderWay
      <3> HIDE DEF U
      <3> QED
        BY <1>1, <2>1, <3>1, FS_RemoveElement
    <2>3. UnderWay # 0
      BY <1>1, <2>1, FS_EmptySet
    <2>4. Messages' = Messages + 1
      BY <1>5, MessagesMore
    <2> QED
      BY <1>1, <1>2, <1>3, <2>2, <2>3, <2>4
  <1>6. (Messages + UnderWay <= MaxLogs)'
    <2>1. CASE UNCHANGED <<at, to, pushed>>
      BY <1>3, <2>1 DEF Messages, UnderWay
    <2>2. ASSUME NEW t \in Thread, NEW c \in Channel, Log(t, c)
          PROVE  (Messages + UnderWay <= MaxLogs)'
      <3>1. U' = U \cup {t} /\ t \notin U
        BY <1>4, <2>2 DEF Log
      <3>2. UnderWay' = UnderWay + 1
        BY <1>1, <3>1, FS_AddElement DEF UnderWay
      <3>3. Messages' = Messages /\ Messages + UnderWay < MaxLogs
        BY <2>2 DEF Log, Messages
      <3> QED
        BY <1>1, <1>2, <3>2, <3>3
    <2>3. ASSUME NEW t \in Thread, NEW c \in Channel, PushLock(t, c) \/ PushReturn(t, c)
          PROVE  (Messages + UnderWay <= MaxLogs)'
      <3>1. U' = U
        BY <1>4, <2>3 DEF PushLock, PushReturn
      <3>2. Messages' = Messages
        BY <2>3 DEF PushLock, PushReturn, Messages
      <3> QED
        BY <1>3, <3>1, <3>2 DEF UnderWay
    <2> QED
      BY <1>5, <2>1, <2>2, <2>3, LogFrame
  <1> QED
    BY <1>5, <1>6

(* What was written was pushed. *)
LEMMA WrittenPushed ==
  ASSUME IInv, NEW c \in Channel
  PROVE  m_no[c] \in 0 .. MaxLogs
  <1> DEFINE w == written[c]
             t == temp[c]
             v == IF chan = c THEN temp_vec ELSE <<>>
             q == FlattenSeq(queue[c])
             b == m_buffer[c]
             p == pushed[c]
  <1>1. /\ w \in Seq(Message) /\ t \in Seq(Message) /\ v \in Seq(Message)
        /\ b \in Seq(Message) /\ p \in Seq(Message) /\ m_no[c] \in Nat
    BY DEF IInv, TypeOK
  <1>2. q \in Seq(Message)
    <2>1. queue[c] \in Seq(Seq(Message))
      <3>1. queue[c] \in Seq(Batch) /\ Batch \subseteq Seq(Message)
        BY DEF IInv, TypeOK, Batch
      <3> QED
        BY <3>1, SeqMonotonic
    <2> QED
      BY <2>1, FlattenType
  <1>3. p = (((w \o t) \o q) \o v) \o b
    BY DEF IInv, NothingLost
  <1>4. m_no[c] <= Len(w) /\ Messages + UnderWay <= MaxLogs
    BY DEF IInv, Bounded
  <1>5. Messages \in Nat /\ UnderWay \in Nat /\ Len(p) <= Messages
    BY MessagesCount, ThreadAssumption, FS_Subset, FS_CardinalityType DEF UnderWay
  <1> HIDE DEF w, t, v, q, b, p
  <1> DEFINE x == w \o t
             y == x \o q
             z == y \o v
  <1>6. x \in Seq(Message) /\ Len(x) = Len(w) + Len(t) /\ Len(w) \in Nat /\ Len(t) \in Nat
    BY <1>1, LenConcat
  <1>7. p = z \o b
    BY <1>3
  <1> HIDE DEF x
  <1>8. y \in Seq(Message) /\ Len(y) = Len(x) + Len(q) /\ Len(q) \in Nat
    BY <1>2, <1>6, LenConcat
  <1> HIDE DEF y
  <1>9. z \in Seq(Message) /\ Len(z) = Len(y) + Len(v) /\ Len(v) \in Nat
    BY <1>1, <1>8, LenConcat
  <1> HIDE DEF z
  <1>10. Len(p) = Len(z) + Len(b) /\ Len(b) \in Nat
    BY <1>1, <1>7, <1>9, LenConcat
  <1>11. Len(w) <= MaxLogs
    BY <1>4, <1>5, <1>6, <1>8, <1>9, <1>10
  <1> QED
    BY <1>1, <1>4, <1>6, <1>11

-----------------------------------------------------------------------------
(* Every step keeps the invariant.                                         *)

LEMMA HeldStep ==
  ASSUME IInv, [Next]_vars
  PROVE  Held'
  <1> USE DEF Held, IInv
  <1>1. /\ temp_vec \in Seq(Message)
        /\ apc \in [Channel -> Apc] /\ temp \in [Channel -> Seq(Message)] /\ chan \in Channel
    BY DEF TypeOK
  <1>2. CASE UNCHANGED vars
    BY <1>2 DEF vars, syncVars, asyncVars
  <1>3. ASSUME NEW t \in Thread, LogStep(t) PROVE Held'
    BY <1>3 DEF LogStep, Log, PushLock, PushBack, PushReturn, syncVars, asyncVars
  <1>4. CASE Create \/ CondInit \/ SemWait
    BY <1>1, <1>4 DEF Create, CondInit, SemWait, syncVars, asyncVars
  <1>5. CASE SyncLoop \/ SyncLock \/ SyncReturn
    BY <1>5 DEF SyncLoop, SyncLock, SyncReturn, asyncVars
  <1>6. CASE SyncSwap
    BY <1>6 DEF SyncSwap, SyncNext, asyncVars
  <1>7. CASE PushLogBuffer \/ PushBatch \/ PushLogBufferReturn
    BY <1>7 DEF PushLogBuffer, PushBatch, PushLogBufferReturn, SyncNext
  <1>8. CASE Signal
    BY <1>1, <1>8 DEF Signal
  <1>9. ASSUME NEW c \in Channel, SemPost(c) \/ Lock(c) \/ CondWait(c) \/ End(c)
        PROVE  Held'
    BY <1>1, <1>9 DEF SemPost, Lock, CondWait, End, syncVars
  <1>10. ASSUME NEW c \in Channel, Take(c) PROVE Held'
    <2>1. queue[c] \in Seq(Batch) /\ queue[c] # <<>>
      BY <1>10 DEF Take, TypeOK
    <2>2. Head(queue[c]) # <<>>
      BY <2>1 DEF Batch
    <2>3. /\ temp' = [temp EXCEPT ![c] = Head(queue[c])]
          /\ apc' = [apc EXCEPT ![c] = "write"] /\ UNCHANGED <<pc, temp_vec>>
      BY <1>10 DEF Take, syncVars
    <2> QED
      BY <1>1, <2>2, <2>3
  <1>11. ASSUME NEW c \in Channel, Write(c) PROVE Held'
    BY <1>1, <1>11 DEF Write, syncVars
  <1>12. ASSUME NEW c \in Channel, Stop(c) PROVE Held'
    BY <1>12 DEF Stop, syncVars
  <1>13. CASE Midnight
    BY <1>13 DEF Midnight, syncVars, asyncVars
  <1> QED
    BY <1>2, <1>3, <1>4, <1>5, <1>6, <1>7, <1>8, <1>9, <1>10, <1>11, <1>12, <1>13
       DEF Next, LoopStep, AsyncStep

(* The file that a batch is written to. *)
LEMMA WriteFile ==
  ASSUME IInv, NEW c \in Channel, Write(c)
  PROVE  /\ m_file_handler'[c] \in File /\ m_file_handler'[c] = <<today, m_file_handler'[c][2]>>
         /\ m_file_handler'[c][2] = IF m_no'[c] = 0 THEN 0 ELSE m_no'[c] - 1
         /\ m_no'[c] \in 0 .. m_no[c] + 1
         /\ m_date[c] = today => m_no[c] <= m_no'[c]
         /\ m_date'[c] = today /\ m_date'[c] <= today
         /\ \A d \in Channel : d # c => /\ m_file_handler'[d] = m_file_handler[d]
                                        /\ m_no'[d] = m_no[d] /\ m_date'[d] = m_date[d]
  <1>1. /\ m_no \in [Channel -> Nat] /\ m_date \in [Channel -> 0 .. MaxDate + 1]
        /\ m_file_handler \in [Channel -> File \cup {NoFile}] /\ today \in 0 .. MaxDate
    BY DEF IInv, TypeOK
  <1>2. m_no[c] \in 0 .. MaxLogs
    BY WrittenPushed
  <1>3. No(c) \in 0 .. m_no[c]
    BY <1>2 DEF No
  <1>4. ~Reopens(c) => m_file_handler[c] = <<today, IF m_no[c] = 0 THEN 0 ELSE m_no[c] - 1>>
                       /\ No(c) = m_no[c]
    BY <1>1 DEF Reopens, No, IInv, Numbered
  <1>5. Reopens(c) => No(c) = 0
    <2>1. m_file_handler[c] = NoFile => today # m_date[c]
      <3>1. CASE m_date[c] = MaxDate + 1
        BY <1>1, <3>1
      <3>2. CASE m_date[c] <= today /\ m_file_handler[c] =
                   <<m_date[c], IF m_no[c] = 0 THEN 0 ELSE m_no[c] - 1>>
        <4>1. m_date[c] \in 0 .. MaxDate
          BY <1>1, <3>2
        <4>2. m_file_handler[c] \in File
          BY <1>2, <3>2, <4>1 DEF File
        <4> QED
          BY <4>2, FileAssumption
      <3> QED
        BY <3>1, <3>2 DEF IInv, Numbered
    <2> QED
      BY <2>1 DEF Reopens, No
  <1>6. /\ m_date' = [m_date EXCEPT ![c] = today]
        /\ \/ /\ files[c][Opened(c)] > m_max_file_size
              /\ m_no' = [m_no EXCEPT ![c] = No(c) + 1]
              /\ m_file_handler' = [m_file_handler EXCEPT ![c] = <<today, No(c)>>]
           \/ /\ m_no' = [m_no EXCEPT ![c] = No(c)]
              /\ m_file_handler' = [m_file_handler EXCEPT ![c] = Opened(c)]
    BY DEF Write, Rotate
  <1>7. Opened(c) = <<today, IF No(c) = 0 THEN 0 ELSE No(c) - 1>>
    BY <1>4, <1>5 DEF Opened
  <1>8. \/ m_no'[c] = No(c) + 1 /\ m_file_handler'[c] = <<today, No(c)>>
        \/ /\ m_no'[c] = No(c)
           /\ m_file_handler'[c] = <<today, IF No(c) = 0 THEN 0 ELSE No(c) - 1>>
    BY <1>1, <1>6, <1>7
  <1>9. /\ m_no'[c] \in 0 .. m_no[c] + 1
        /\ m_date[c] = today => m_no[c] <= m_no'[c]
        /\ m_file_handler'[c] = <<today, IF m_no'[c] = 0 THEN 0 ELSE m_no'[c] - 1>>
    <2> DEFINE n == No(c)
               k == m_no[c]
               k1 == m_no'[c]
               h1 == m_file_handler'[c]
    <2>1. n \in Nat /\ k \in Nat /\ n <= k
      <3>1. k \in Nat /\ n \in 0 .. k
        BY <1>2, <1>3
      <3> HIDE DEF n, k
      <3> QED
        BY <3>1
    <2>5. m_date[c] = today => n = k
      BY DEF No
    <2>2. \/ k1 = n + 1 /\ h1 = <<today, n>>
          \/ k1 = n /\ h1 = <<today, IF n = 0 THEN 0 ELSE n - 1>>
      BY <1>8
    <2> HIDE DEF n, k, k1, h1
    <2>3. k1 \in 0 .. k + 1 /\ (m_date[c] = today => k <= k1)
      BY <2>1, <2>2, <2>5
    <2>4. h1 = <<today, IF k1 = 0 THEN 0 ELSE k1 - 1>>
      <3>1. n + 1 # 0 /\ (n + 1) - 1 = n
        BY <2>1
      <3> QED
        BY <2>2, <3>1
    <2> QED
      BY <2>3, <2>4 DEF k, k1, h1
  <1>10. m_file_handler'[c] \in File
    <2>1. No(c) \in 0 .. MaxLogs /\ (IF No(c) = 0 THEN 0 ELSE No(c) - 1) \in 0 .. MaxLogs
      BY <1>2, <1>3
    <2>2. \A k \in 0 .. MaxLogs : <<today, k>> \in File
      BY <1>1 DEF File
    <2>3. \E k \in 0 .. MaxLogs : m_file_handler'[c] = <<today, k>>
      BY <1>8, <2>1, Zenon
    <2> QED
      BY <2>2, <2>3, Zenon
  <1>11. m_date'[c] = today /\ m_date'[c] <= today
    BY <1>1, <1>6
  <1>12. \A d \in Channel : d # c => /\ m_file_handler'[d] = m_file_handler[d]
                                     /\ m_no'[d] = m_no[d] /\ m_date'[d] = m_date[d]
    BY <1>1, <1>6
  <1> QED
    BY <1>9, <1>10, <1>11, <1>12

LEMMA BoundedStep ==
  ASSUME IInv, [Next]_vars
  PROVE  Bounded'
  <1>1. (Messages + UnderWay <= MaxLogs)'
    BY MessagesBounded
  <1>2. CASE UNCHANGED fileVars
    BY <1>1, <1>2 DEF Bounded, fileVars, IInv
  <1>3. ASSUME NEW c \in Channel, Write(c), NEW d \in Channel
        PROVE  m_no'[d] <= Len(written'[d])
    <2>1. m_no'[c] \in 0 .. m_no[c] + 1 /\ (d # c => m_no'[d] = m_no[d])
      BY <1>3, WriteFile
    <2>2. written \in [Channel -> Seq(Message)] /\ temp[c] \in Seq(Message) /\ m_no[c] \in Nat
      BY DEF IInv, TypeOK
    <2>3. written' = [written EXCEPT ![c] = @ \o temp[c]] /\ temp[c] # <<>>
      BY <1>3 DEF Write, IInv, Held
    <2>4. m_no[d] <= Len(written[d]) /\ m_no[c] <= Len(written[c])
      BY DEF IInv, Bounded
    <2>5. CASE d # c
      BY <2>1, <2>2, <2>3, <2>4, <2>5
    <2>6. CASE d = c
      <3> DEFINE w == written[c]
                 t == temp[c]
                 k == m_no[c]
                 k1 == m_no'[c]
      <3>1. written'[c] = w \o t /\ w \in Seq(Message) /\ t \in Seq(Message) /\ t # <<>>
        BY <2>2, <2>3
      <3>2. k1 \in 0 .. k + 1 /\ k \in Nat /\ k <= Len(w)
        BY <2>1, <2>2, <2>4
      <3> HIDE DEF w, t, k, k1
      <3>3. Len(w \o t) = Len(w) + Len(t) /\ Len(w) \in Nat /\ Len(t) \in Nat /\ Len(t) # 0
        BY <3>1, LenConcat
      <3>4. k1 <= Len(w \o t)
        BY <3>2, <3>3
      <3> QED
        BY <2>6, <3>1, <3>4 DEF k1
    <2> QED
      BY <2>5, <2>6
  <1> QED
    BY <1>1, <1>2, <1>3, FileFrame DEF Bounded

LEMMA NumberedStep ==
  ASSUME IInv, [Next]_vars
  PROVE  Numbered' /\ files' \in [Channel -> [File -> Nat]] /\ earlier' = earlier
  <1>1. /\ files \in [Channel -> [File -> Nat]] /\ earlier \in [Channel -> [File -> Nat]]
        /\ Numbered
        /\ m_date \in [Channel -> 0 .. MaxDate + 1] /\ today \in 0 .. MaxDate
    BY DEF IInv, TypeOK
  <1>2. CASE UNCHANGED fileVars
    <2>1. today' = today \/ today' = today + 1
      BY DateFrame DEF Midnight
    <2>2. \A c \in Channel : m_date[c] <= today => m_date[c] <= today'
      BY <1>1, <2>1
    <2> QED
      BY <1>1, <1>2, <2>2 DEF Numbered, fileVars
  <1>3. ASSUME NEW c \in Channel, Write(c)
        PROVE  Numbered' /\ files' \in [Channel -> [File -> Nat]] /\ earlier' = earlier
    <2> DEFINE g == m_file_handler'[c]
               n == Len(temp[c])
    <2>1. /\ g \in File /\ g = <<today, IF m_no'[c] = 0 THEN 0 ELSE m_no'[c] - 1>>
          /\ m_date'[c] = today /\ m_date'[c] <= today /\ g[2] = IF m_no'[c] = 0 THEN 0 ELSE m_no'[c] - 1
          /\ \A d \in Channel : d # c => /\ m_file_handler'[d] = m_file_handler[d]
                                         /\ m_no'[d] = m_no[d] /\ m_date'[d] = m_date[d]
      BY <1>3, WriteFile
    <2>2. n \in Nat
      BY DEF IInv, TypeOK
    <2>3. /\ files' = [files EXCEPT ![c] = [files[c] EXCEPT ![g] = files[c][g] + n]]
          /\ today' = today /\ earlier' = earlier
      BY <1>1, <1>3 DEF Write
    <2> HIDE DEF g, n
    <2>4. files' \in [Channel -> [File -> Nat]]
      BY <1>1, <2>1, <2>2, <2>3
    <2>5. /\ \A d \in Channel : d # c => files'[d] = files[d]
          /\ \A f \in File : f # g => files'[c][f] = files[c][f]
      BY <1>1, <2>3
    <2>6. ASSUME NEW f \in File, files'[c][f] # earlier[c][f]
          PROVE  f[1] < today \/ (f[1] = today /\ f[2] <= g[2])
      <3>1. CASE f = g
        <4>1. g[1] = today /\ g[2] \in Nat
          BY <2>1 DEF File
        <4> QED
          BY <3>1, <4>1
      <3>2. CASE f # g
        <4> DEFINE d == m_date[c]
                   h == m_file_handler[c]
                   k == m_no[c]
                   k1 == m_no'[c]
        <4>1. /\ d <= today /\ h[2] = IF k = 0 THEN 0 ELSE k - 1
              /\ f[1] < d \/ (f[1] = d /\ f[2] <= h[2])
          <5>1. files[c][f] # earlier[c][f]
            BY <2>5, <2>6, <3>2
          <5> QED
            BY <1>1, <5>1 DEF Numbered
        <4>2. /\ k \in Nat /\ k1 \in 0 .. k + 1 /\ (d = today => k <= k1)
              /\ g[2] = IF k1 = 0 THEN 0 ELSE k1 - 1
          BY <1>3, <2>1, WriteFile, WrittenPushed
        <4>3. d \in Nat /\ today \in Nat /\ f[1] \in Nat /\ f[2] \in Nat
          BY <1>1 DEF File
        <4> DEFINE f1 == f[1]
                   f2 == f[2]
                   h2 == h[2]
                   g2 == g[2]
        <4>4. /\ d <= today /\ h2 = IF k = 0 THEN 0 ELSE k - 1
              /\ f1 < d \/ (f1 = d /\ f2 <= h2)
              /\ g2 = IF k1 = 0 THEN 0 ELSE k1 - 1
              /\ f1 \in Nat /\ f2 \in Nat
          BY <4>1, <4>2, <4>3
        <4> HIDE DEF d, h, k, k1, f1, f2, h2, g2
        <4>5. d = today => h2 <= g2
          BY <4>2, <4>4
        <4>6. f1 < today \/ (f1 = today /\ f2 <= g2)
          <5>1. h2 \in Nat /\ g2 \in Nat
            BY <4>2, <4>4
          <5> QED
            BY <4>3, <4>4, <4>5, <5>1
        <4> QED
          BY <4>6 DEF f1, f2, g2
      <3> QED
        BY <3>1, <3>2
    <2>7. ASSUME NEW d \in Channel
          PROVE  \/ m_date'[d] = MaxDate + 1 /\ m_no'[d] = 0 /\ files'[d] = earlier'[d]
                 \/ /\ m_date'[d] <= today'
                    /\ m_file_handler'[d] = <<m_date'[d], IF m_no'[d] = 0 THEN 0 ELSE m_no'[d] - 1>>
                    /\ \A f \in File :
                         files'[d][f] # earlier'[d][f]
                           => \/ f[1] < m_date'[d]
                              \/ f[1] = m_date'[d] /\ f[2] <= m_file_handler'[d][2]
      <3>1. CASE d = c
        BY <2>1, <2>3, <2>6, <3>1 DEF g
      <3>2. CASE d # c
        BY <1>1, <2>1, <2>3, <2>5, <3>2 DEF Numbered
      <3> QED
        BY <3>1, <3>2
    <2> QED
      BY <2>3, <2>4, <2>7 DEF Numbered
  <1> QED
    BY <1>2, <1>3, FileFrame

(* No step mixes the messages up.  What changes the place of a message     *)
(* changes the one next to it.                                             *)
InHand(c) == IF chan = c THEN temp_vec ELSE <<>>

LEMMA LostStep ==
  ASSUME IInv, [Next]_vars
  PROVE  NothingLost'
  <1>1. /\ written \in [Channel -> Seq(Message)] /\ temp \in [Channel -> Seq(Message)]
        /\ queue \in [Channel -> Seq(Batch)] /\ m_buffer \in [Channel -> Seq(Message)]
        /\ pushed \in [Channel -> Seq(Message)] /\ temp_vec \in Seq(Message) /\ chan \in Channel
    BY DEF IInv, TypeOK
  <1>2. ASSUME NEW c \in Channel
        PROVE  /\ queue[c] \in Seq(Seq(Message)) /\ FlattenSeq(queue[c]) \in Seq(Message)
               /\ InHand(c) \in Seq(Message)
    <2>1. queue[c] \in Seq(Batch) /\ Batch \subseteq Seq(Message)
      BY <1>1 DEF Batch
    <2>2. queue[c] \in Seq(Seq(Message))
      BY <2>1, SeqMonotonic
    <2> QED
      BY <1>1, <2>2, FlattenType DEF InHand
  <1>3. ASSUME NEW c \in Channel
        PROVE  pushed[c] = written[c] \o temp[c] \o FlattenSeq(queue[c]) \o InHand(c) \o m_buffer[c]
    BY DEF IInv, NothingLost, InHand
  <1>4. ASSUME \A c \in Channel :
                 pushed'[c] = written'[c] \o temp'[c] \o FlattenSeq(queue'[c]) \o InHand(c)'
                                \o m_buffer'[c]
        PROVE  NothingLost'
    BY <1>4 DEF NothingLost, InHand
  <1>5. temp_vec # <<>> <=> pc \in {"push_lock", "push"}
    BY DEF IInv, Held
  (* A message is where it was. *)
  <1>6. ASSUME UNCHANGED <<pushed, written, temp, queue, m_buffer, temp_vec>>,
               chan' = chan \/ temp_vec = <<>>
        PROVE  NothingLost'
    <2>1. \A c \in Channel : InHand(c)' = InHand(c)
      BY <1>6 DEF InHand
    <2> QED
      BY <1>3, <1>4, <1>6, <2>1
  <1>7. CASE UNCHANGED vars
    BY <1>6, <1>7 DEF vars, logVars, syncVars, asyncVars, fileVars
  <1>8. ASSUME NEW t \in Thread, NEW c \in Channel,
               Log(t, c) \/ PushLock(t, c) \/ PushReturn(t, c)
        PROVE  NothingLost'
    BY <1>6, <1>8 DEF Log, PushLock, PushReturn, syncVars, asyncVars, fileVars
  <1>9. CASE Create \/ CondInit
    BY <1>6, <1>9 DEF Create, CondInit, logVars, syncVars, fileVars
  <1>10. CASE SemWait \/ SyncLoop \/ SyncReturn \/ PushLogBufferReturn
    BY <1>5, <1>6, <1>10 DEF SemWait, SyncLoop, SyncReturn, PushLogBufferReturn, logVars,
                             asyncVars, fileVars
  <1>11. CASE SyncLock \/ PushLogBuffer \/ Signal \/ Midnight
    BY <1>6, <1>11 DEF SyncLock, PushLogBuffer, Signal, Midnight, logVars, syncVars,
                       asyncVars, fileVars
  <1>12. ASSUME NEW c \in Channel,
                SemPost(c) \/ Lock(c) \/ CondWait(c) \/ End(c) \/ Stop(c)
         PROVE  NothingLost'
    BY <1>6, <1>12 DEF SemPost, Lock, CondWait, End, Stop, logVars, syncVars, fileVars
  (* pushLog: at the end of the vector. *)
  <1>13. ASSUME NEW t \in Thread, NEW c \in Channel, PushBack(t, c)
         PROVE  NothingLost'
    <2>1. /\ m_buffer' = [m_buffer EXCEPT ![c] = Append(@, Messages + 1)]
          /\ pushed' = [pushed EXCEPT ![c] = Append(@, Messages + 1)]
          /\ UNCHANGED <<written, temp, queue, chan, temp_vec>>
      BY <1>13 DEF PushBack, syncVars, asyncVars, fileVars
    <2>2. Messages + 1 \in Message
      BY <1>13, MessagesBounded, MessagesCount DEF Message
    <2>3. ASSUME NEW d \in Channel
          PROVE  pushed'[d] = written'[d] \o temp'[d] \o FlattenSeq(queue'[d]) \o InHand(d)'
                                \o m_buffer'[d]
      <3> DEFINE z == written[d] \o temp[d] \o FlattenSeq(queue[d]) \o InHand(d)
                 b == m_buffer[d]
                 m == Messages + 1
                 p == pushed[d]
      <3>1. z = (written'[d] \o temp'[d] \o FlattenSeq(queue'[d]) \o InHand(d)')
        BY <2>1 DEF InHand
      <3>2. p = z \o b
        BY <1>3
      <3>3. CASE d # c
        <4>1. m_buffer'[d] = b /\ pushed'[d] = p
          BY <1>1, <2>1, <3>3
        <4> HIDE DEF z, b, p
        <4> QED
          BY <3>1, <3>2, <4>1
      <3>4. CASE d = c
        <4>1. m_buffer'[d] = Append(b, m) /\ pushed'[d] = Append(p, m)
          BY <1>1, <2>1, <3>4
        <4>2. z \in Seq(Message) /\ b \in Seq(Message) /\ m \in Message
          <5> DEFINE w == written[d]
                     u == temp[d]
                     q == FlattenSeq(queue[d])
                     v == InHand(d)
          <5>1. w \in Seq(Message) /\ u \in Seq(Message) /\ q \in Seq(Message)
                /\ v \in Seq(Message) /\ b \in Seq(Message)
            BY <1>1, <1>2
          <5> HIDE DEF w, u, q, v, b
          <5>2. w \o u \o q \o v \in Seq(Message)
            BY <5>1
          <5> QED
            BY <2>2, <5>1, <5>2 DEF w, u, q, v
        <4> HIDE DEF z, b, p, m
        <4>3. Append(z \o b, m) = z \o Append(b, m)
          BY <4>2
        <4> QED
          BY <3>1, <3>2, <4>1, <4>3
      <3> QED
        BY <3>3, <3>4
    <2> QED
      BY <1>4, <2>3
  (* syncLoop: from the vector into its hands. *)
  <1>14. CASE SyncSwap
    <2>1. /\ m_buffer' = [m_buffer EXCEPT ![chan] = <<>>] /\ temp_vec' = m_buffer[chan]
          /\ UNCHANGED <<pushed, written, temp, queue>>
          /\ temp_vec = <<>> /\ (chan' = chan \/ m_buffer[chan] = <<>>)
      BY <1>5, <1>14 DEF SyncSwap, SyncNext, asyncVars, fileVars
    <2>2. ASSUME NEW d \in Channel
          PROVE  pushed'[d] = written'[d] \o temp'[d] \o FlattenSeq(queue'[d]) \o InHand(d)'
                                \o m_buffer'[d]
      <3> DEFINE w == written[d]
                 t == temp[d]
                 q == FlattenSeq(queue[d])
                 b == m_buffer[d]
                 v1 == InHand(d)'
                 b1 == m_buffer'[d]
      <3>1. \/ v1 = b /\ b1 = <<>>
            \/ v1 = <<>> /\ b1 = b
        BY <1>1, <2>1 DEF InHand
      <3>2. pushed[d] = w \o t \o q \o <<>> \o b
        <4>1. InHand(d) = <<>>
          BY <2>1 DEF InHand
        <4> QED
          BY <1>3, <4>1
      <3>3. pushed'[d] = pushed[d] /\ written'[d] = w /\ temp'[d] = t
            /\ FlattenSeq(queue'[d]) = q
        BY <2>1
      <3>4. w \in Seq(Message) /\ t \in Seq(Message) /\ q \in Seq(Message) /\ b \in Seq(Message)
        BY <1>1, <1>2
      <3> HIDE DEF w, t, q, b, v1, b1
      <3>5. w \o t \o q \o b \o <<>> = w \o t \o q \o <<>> \o b
        BY <3>4
      <3> QED
        BY <3>1, <3>2, <3>3, <3>5 DEF v1, b1
    <2> QED
      BY <1>4, <2>2
  (* pushLogBuffer: from syncLoop's hands into the queue. *)
  <1>15. CASE PushBatch
    <2>1. /\ queue' = [queue EXCEPT ![chan] = Append(@, temp_vec)] /\ temp_vec' = <<>>
          /\ UNCHANGED <<pushed, written, temp, m_buffer, chan>>
      BY <1>15 DEF PushBatch, logVars, fileVars
    <2>2. ASSUME NEW d \in Channel
          PROVE  pushed'[d] = written'[d] \o temp'[d] \o FlattenSeq(queue'[d]) \o InHand(d)'
                                \o m_buffer'[d]
      <3> DEFINE w == written[d]
                 t == temp[d]
                 q == FlattenSeq(queue[d])
                 v == InHand(d)
                 b == m_buffer[d]
                 q1 == FlattenSeq(queue'[d])
      <3>1. q1 = q \o v
        <4>1. CASE d = chan
          <5>1. queue'[d] = Append(queue[d], temp_vec) /\ v = temp_vec
            BY <1>1, <2>1, <4>1 DEF InHand
          <5> QED
            BY <1>1, <1>2, <5>1, FlattenAppend
        <4>2. CASE d # chan
          <5>1. queue'[d] = queue[d] /\ v = <<>>
            BY <1>1, <2>1, <4>2 DEF InHand
          <5>2. q \in Seq(Message) /\ q1 = q
            BY <1>2, <5>1
          <5> HIDE DEF q, v, q1
          <5> QED
            BY <5>1, <5>2
        <4> QED
          BY <4>1, <4>2
      <3>2. pushed[d] = w \o t \o q \o v \o b
        BY <1>3
      <3>3. pushed'[d] = pushed[d] /\ written'[d] = w /\ temp'[d] = t /\ m_buffer'[d] = b
            /\ InHand(d)' = <<>>
        BY <2>1 DEF InHand
      <3>4. w \in Seq(Message) /\ t \in Seq(Message) /\ q \in Seq(Message) /\ v \in Seq(Message)
            /\ b \in Seq(Message)
        BY <1>1, <1>2
      <3> HIDE DEF w, t, q, v, b, q1
      <3>5. w \o t \o (q \o v) \o <<>> \o b = w \o t \o q \o v \o b
        BY <3>4
      <3> QED
        BY <3>1, <3>2, <3>3, <3>5 DEF q1
    <2> QED
      BY <1>4, <2>2
  (* loop: from the queue into the thread's hands. *)
  <1>16. ASSUME NEW c \in Channel, Take(c)
         PROVE  NothingLost'
    <2>1. /\ temp' = [temp EXCEPT ![c] = Head(queue[c])]
          /\ queue' = [queue EXCEPT ![c] = Tail(@)] /\ queue[c] # <<>>
          /\ UNCHANGED <<pushed, written, m_buffer, chan, temp_vec>>
          /\ temp[c] = <<>>
      BY <1>16 DEF Take, logVars, syncVars, fileVars, IInv, Held
    <2>2. ASSUME NEW d \in Channel
          PROVE  pushed'[d] = written'[d] \o temp'[d] \o FlattenSeq(queue'[d]) \o InHand(d)'
                                \o m_buffer'[d]
      <3>1. pushed'[d] = pushed[d] /\ written'[d] = written[d] /\ m_buffer'[d] = m_buffer[d]
            /\ InHand(d)' = InHand(d)
        BY <2>1 DEF InHand
      <3>2. CASE d # c
        <4>1. temp'[d] = temp[d] /\ queue'[d] = queue[d]
          BY <1>1, <2>1, <3>2
        <4> QED
          BY <1>3, <3>1, <4>1
      <3>3. CASE d = c
        <4> DEFINE w == written[d]
                   q == FlattenSeq(queue[d])
                   v == InHand(d)
                   b == m_buffer[d]
                   h == Head(queue[d])
                   r == FlattenSeq(Tail(queue[d]))
        <4>1. q = h \o r /\ h \in Seq(Message) /\ r \in Seq(Message)
          <5>1. Head(queue[d]) \in Seq(Message) /\ Tail(queue[d]) \in Seq(Seq(Message))
            BY <1>2, <2>1, <3>3
          <5> QED
            BY <1>2, <2>1, <3>3, <5>1, FlattenTail, FlattenType
        <4>2. temp'[d] = h /\ FlattenSeq(queue'[d]) = r
          BY <1>1, <2>1, <3>3
        <4>3. pushed[d] = w \o <<>> \o q \o v \o b
          BY <1>3, <2>1, <3>3
        <4>4. w \in Seq(Message) /\ v \in Seq(Message) /\ b \in Seq(Message)
          BY <1>1, <1>2
        <4> HIDE DEF w, q, v, b, h, r
        <4>5. w \o <<>> \o (h \o r) \o v \o b = w \o h \o r \o v \o b
          BY <4>1, <4>4, SMTT(40)
        <4>6. pushed'[d] = w \o h \o r \o v \o b
          BY <3>1, <4>1, <4>3, <4>5
        <4> QED
          BY <3>1, <4>2, <4>6 DEF w, v, b
      <3> QED
        BY <3>2, <3>3
    <2> QED
      BY <1>4, <2>2
  (* loop: from its hands into the file. *)
  <1>17. ASSUME NEW c \in Channel, Write(c)
         PROVE  NothingLost'
    <2>1. /\ written' = [written EXCEPT ![c] = @ \o temp[c]]
          /\ temp' = [temp EXCEPT ![c] = <<>>]
          /\ UNCHANGED <<pushed, queue, m_buffer, chan, temp_vec>>
      BY <1>17 DEF Write, logVars, syncVars
    <2>2. ASSUME NEW d \in Channel
          PROVE  pushed'[d] = written'[d] \o temp'[d] \o FlattenSeq(queue'[d]) \o InHand(d)'
                                \o m_buffer'[d]
      <3>1. pushed'[d] = pushed[d] /\ queue'[d] = queue[d] /\ m_buffer'[d] = m_buffer[d]
            /\ InHand(d)' = InHand(d)
        BY <2>1 DEF InHand
      <3>2. CASE d # c
        <4>1. temp'[d] = temp[d] /\ written'[d] = written[d]
          BY <1>1, <2>1, <3>2
        <4> QED
          BY <1>3, <3>1, <4>1
      <3>3. CASE d = c
        <4> DEFINE w == written[d]
                   t == temp[d]
                   q == FlattenSeq(queue[d])
                   v == InHand(d)
                   b == m_buffer[d]
        <4>1. written'[d] = w \o t /\ temp'[d] = <<>>
          BY <1>1, <2>1, <3>3
        <4>2. w \in Seq(Message) /\ t \in Seq(Message)
          BY <1>1
        <4>3. pushed[d] = w \o t \o q \o v \o b
          BY <1>3
        <4> HIDE DEF w, t, q, v, b
        <4>4. w \o t \o <<>> = w \o t
          BY <4>2
        <4> QED
          BY <3>1, <4>1, <4>3, <4>4 DEF q, v, b
      <3> QED
        BY <3>2, <3>3
    <2> QED
      BY <1>4, <2>2
  <1> QED
    BY <1>7, <1>8, <1>9, <1>10, <1>11, <1>12, <1>13, <1>14, <1>15, <1>16, <1>17
       DEF Next, LogStep, LoopStep, AsyncStep

(* TypeOK, one group of variables at a time. *)
LogTypes ==
  /\ at \in [Thread -> At] /\ to \in [Thread -> Channel]
  /\ m_buffer \in [Channel -> Seq(Message)] /\ pushed \in [Channel -> Seq(Message)]
  /\ m_mutex \in [Channel -> Thread \cup {Loop, NoOwner}]

SyncTypes == pc \in Pc /\ chan \in Channel /\ temp_vec \in Seq(Message)

AsyncTypes ==
  /\ queue \in [Channel -> Seq(Batch)]
  /\ async_mutex \in [Channel -> Channel \cup {Loop, NoOwner}]
  /\ apc \in [Channel -> Apc] /\ temp \in [Channel -> Seq(Message)]
  /\ cond \in [Channel -> BOOLEAN] /\ m_stop_flag \in [Channel -> BOOLEAN]

FileTypes ==
  /\ m_date \in [Channel -> 0 .. MaxDate + 1] /\ m_no \in [Channel -> Nat]
  /\ m_file_handler \in [Channel -> File \cup {NoFile}]
  /\ written \in [Channel -> Seq(Message)]

LEMMA Groups == TypeOK <=> LogTypes /\ SyncTypes /\ AsyncTypes /\ FileTypes /\ today \in 0 .. MaxDate
  BY DEF TypeOK, LogTypes, SyncTypes, AsyncTypes, FileTypes

LEMMA GroupFrame ==
  ASSUME TypeOK
  PROVE  /\ UNCHANGED logVars => LogTypes'
         /\ UNCHANGED syncVars => SyncTypes'
         /\ UNCHANGED asyncVars => AsyncTypes'
         /\ UNCHANGED fileVars => FileTypes'
  BY Groups DEF LogTypes, SyncTypes, AsyncTypes, FileTypes, logVars, syncVars, asyncVars, fileVars

LEMMA LogTypesStep ==
  ASSUME IInv, [Next]_vars
  PROVE  LogTypes'
  <1> USE DEF LogTypes
  <1>1. LogTypes /\ chan \in Channel
    BY Groups DEF IInv, SyncTypes
  <1>2. CASE UNCHANGED logVars
    BY <1>2, GroupFrame DEF IInv
  <1>3. ASSUME NEW t \in Thread, NEW c \in Channel, Log(t, c) \/ PushLock(t, c) \/ PushReturn(t, c)
        PROVE  LogTypes'
    <2>1. CASE Log(t, c)
      BY <1>1, <2>1 DEF Log, At
    <2>2. CASE PushLock(t, c)
      BY <1>1, <2>2 DEF PushLock, At
    <2>3. CASE PushReturn(t, c)
      BY <1>1, <2>3 DEF PushReturn, At
    <2> QED
      BY <1>3, <2>1, <2>2, <2>3
  <1>4. ASSUME NEW t \in Thread, NEW c \in Channel, PushBack(t, c)
        PROVE  LogTypes'
    <2> DEFINE m == Messages + 1
    <2>1. m \in Message
      BY <1>4, MessagesBounded, MessagesCount DEF Message
    <2>2. /\ m_buffer' = [m_buffer EXCEPT ![c] = Append(@, m)]
          /\ pushed' = [pushed EXCEPT ![c] = Append(@, m)]
          /\ m_mutex' = [m_mutex EXCEPT ![c] = NoOwner] /\ at' = [at EXCEPT ![t] = "return"]
          /\ to' = to
      BY <1>4 DEF PushBack
    <2> HIDE DEF m
    <2>3. m_buffer' \in [Channel -> Seq(Message)] /\ pushed' \in [Channel -> Seq(Message)]
      BY <1>1, <2>1, <2>2
    <2> QED
      BY <1>1, <2>2, <2>3 DEF At
  <1>5. CASE SyncLock
    BY <1>1, <1>5 DEF SyncLock
  <1>6. CASE SyncReturn
    BY <1>1, <1>6 DEF SyncReturn
  <1>7. CASE SyncSwap
    <2>1. <<>> \in Seq(Message)
      OBVIOUS
    <2> QED
      BY <1>1, <1>7, <2>1 DEF SyncSwap
  <1> QED
    BY <1>2, <1>3, <1>4, <1>5, <1>6, <1>7
       DEF Next, LogStep, LoopStep, AsyncStep, Create, CondInit, SemWait, SyncLoop, PushLogBuffer,
           PushBatch, Signal, PushLogBufferReturn, SemPost, Lock, CondWait, Take, Write, End, Stop,
           Midnight, vars

LEMMA SyncTypesStep ==
  ASSUME IInv, [Next]_vars
  PROVE  SyncTypes'
  <1> USE DEF SyncTypes
  <1>1. SyncTypes /\ m_buffer[chan] \in Seq(Message) /\ <<>> \in Seq(Message)
    BY Groups DEF IInv, LogTypes
  <1>2. CASE UNCHANGED syncVars
    BY <1>2, GroupFrame DEF IInv
  <1>3. CASE CondInit \/ SemWait \/ SyncLoop \/ SyncLock \/ SyncReturn
    BY <1>1, <1>3 DEF CondInit, SemWait, SyncLoop, SyncLock, SyncReturn, Pc, Channel
  <1>4. CASE SyncSwap
    BY <1>1, <1>4 DEF SyncSwap, SyncNext, Pc, Channel
  <1>5. CASE PushLogBuffer \/ PushBatch \/ Signal \/ PushLogBufferReturn
    BY <1>1, <1>5 DEF PushLogBuffer, PushBatch, Signal, PushLogBufferReturn, SyncNext, Pc, Channel
  <1> QED
    BY <1>2, <1>3, <1>4, <1>5
       DEF Next, LogStep, LoopStep, AsyncStep, Create, Log, PushLock, PushBack, PushReturn, SemPost,
           Lock, CondWait, Take, Write, End, Stop, Midnight, vars

LEMMA AsyncTypesStep ==
  ASSUME IInv, [Next]_vars
  PROVE  AsyncTypes'
  <1> USE DEF AsyncTypes
  <1>1. AsyncTypes /\ SyncTypes
    BY Groups DEF IInv
  <1>2. CASE UNCHANGED asyncVars
    BY <1>2, GroupFrame DEF IInv
  <1>3. CASE Create
    BY <1>1, <1>3 DEF Create, Apc, SyncTypes
  <1>4. CASE CondInit
    <2>1. apc' \in [Channel -> Apc]
      BY <1>1, <1>4 DEF CondInit, Apc, SyncTypes
    <2>2. cond' \in [Channel -> BOOLEAN]
      BY <1>1, <1>4 DEF CondInit, SyncTypes
    <2> QED
      BY <1>1, <1>4, <2>1, <2>2 DEF CondInit
  <1>5. CASE PushLogBuffer \/ PushLogBufferReturn
    <2>1. async_mutex' \in [Channel -> Channel \cup {Loop, NoOwner}]
      BY <1>1, <1>5 DEF PushLogBuffer, PushLogBufferReturn, SyncTypes
    <2> QED
      BY <1>1, <1>5, <2>1 DEF PushLogBuffer, PushLogBufferReturn
  <1>6. CASE PushBatch
    <2>1. temp_vec \in Batch
      BY <1>1, <1>6 DEF PushBatch, Batch, IInv, Held, SyncTypes
    <2>2. queue' \in [Channel -> Seq(Batch)]
      BY <1>1, <1>6, <2>1 DEF PushBatch, SyncTypes
    <2>3. async_mutex' \in [Channel -> Channel \cup {Loop, NoOwner}]
      BY <1>1, <1>6 DEF PushBatch, SyncTypes
    <2> QED
      BY <1>1, <1>6, <2>2, <2>3 DEF PushBatch
  <1>7. CASE Signal
    <2>1. apc' \in [Channel -> Apc]
      BY <1>1, <1>7 DEF Signal, Apc, SyncTypes
    <2> QED
      BY <1>1, <1>7, <2>1 DEF Signal
  <1>8. ASSUME NEW c \in Channel, SemPost(c) \/ Lock(c) \/ CondWait(c) \/ End(c) \/ Stop(c)
        PROVE  AsyncTypes'
    <2>1. apc' \in [Channel -> Apc]
      <3>1. CASE SemPost(c) \/ Lock(c)
        BY <1>1, <3>1 DEF SemPost, Lock, Apc
      <3>2. CASE CondWait(c) \/ End(c) \/ Stop(c)
        BY <1>1, <3>2 DEF CondWait, End, Stop, Apc
      <3> QED
        BY <1>8, <3>1, <3>2
    <2>2. async_mutex' \in [Channel -> Channel \cup {Loop, NoOwner}]
      <3>1. CASE SemPost(c) \/ Lock(c)
        BY <1>1, <3>1 DEF SemPost, Lock
      <3>2. CASE CondWait(c) \/ End(c) \/ Stop(c)
        BY <1>1, <3>2 DEF CondWait, End, Stop
      <3> QED
        BY <1>8, <3>1, <3>2
    <2>3. m_stop_flag' \in [Channel -> BOOLEAN]
      BY <1>1, <1>8 DEF SemPost, Lock, CondWait, End, Stop
    <2> QED
      BY <1>1, <1>8, <2>1, <2>2, <2>3 DEF SemPost, Lock, CondWait, End, Stop
  <1>9. ASSUME NEW c \in Channel, Take(c)
        PROVE  AsyncTypes'
    <2>1. Head(queue[c]) \in Seq(Message) /\ Tail(queue[c]) \in Seq(Batch)
      <3>1. queue[c] \in Seq(Batch) /\ queue[c] # <<>>
        BY <1>1, <1>9 DEF Take
      <3>2. Head(queue[c]) \in Batch /\ Tail(queue[c]) \in Seq(Batch)
        BY <3>1, HeadTailProperties
      <3> QED
        BY <3>2 DEF Batch
    <2>2. queue' \in [Channel -> Seq(Batch)] /\ temp' \in [Channel -> Seq(Message)]
      BY <1>1, <1>9, <2>1 DEF Take
    <2>3. apc' \in [Channel -> Apc] /\ async_mutex' \in [Channel -> Channel \cup {Loop, NoOwner}]
      BY <1>1, <1>9 DEF Take, Apc
    <2> QED
      BY <1>1, <1>9, <2>2, <2>3 DEF Take
  <1>10. ASSUME NEW c \in Channel, Write(c)
         PROVE  AsyncTypes'
    <2>1. apc' \in [Channel -> Apc] /\ temp' \in [Channel -> Seq(Message)]
      BY <1>1, <1>10 DEF Write, Apc
    <2> QED
      BY <1>1, <1>10, <2>1 DEF Write
  <1> QED
    BY <1>2, <1>3, <1>4, <1>5, <1>6, <1>7, <1>8, <1>9, <1>10
       DEF Next, LogStep, LoopStep, AsyncStep, Log, PushLock, PushBack, PushReturn, SemWait, SyncLoop,
           SyncLock, SyncSwap, SyncReturn, Midnight, vars

LEMMA FileTypesStep ==
  ASSUME IInv, [Next]_vars
  PROVE  FileTypes'
  <1>1. FileTypes /\ AsyncTypes /\ today \in 0 .. MaxDate
    BY Groups DEF IInv
  <1>2. ASSUME NEW c \in Channel, Write(c)
        PROVE  FileTypes'
    <2>1. m_file_handler'[c] \in File /\ m_no'[c] \in 0 .. m_no[c] + 1 /\ m_no[c] \in Nat
      BY <1>1, <1>2, WriteFile DEF FileTypes
    <2>2. /\ m_no' = [m_no EXCEPT ![c] = m_no'[c]]
          /\ m_file_handler' = [m_file_handler EXCEPT ![c] = m_file_handler'[c]]
      BY <1>1, <1>2 DEF Write, Rotate, FileTypes
    <2>3. m_no' \in [Channel -> Nat]
      <3>1. m_no'[c] \in Nat
        BY <2>1
      <3> QED
        BY <1>1, <2>2, <3>1 DEF FileTypes
    <2>4. m_file_handler' \in [Channel -> File \cup {NoFile}]
      BY <1>1, <2>1, <2>2 DEF FileTypes
    <2>5. m_date' \in [Channel -> 0 .. MaxDate + 1]
      <3>1. today \in 0 .. MaxDate + 1
        BY <1>1
      <3> QED
        BY <1>1, <1>2, <3>1 DEF FileTypes, Write
    <2>6. written' \in [Channel -> Seq(Message)]
      <3>1. written[c] \in Seq(Message) /\ temp[c] \in Seq(Message)
        BY <1>1 DEF FileTypes, AsyncTypes
      <3>2. written[c] \o temp[c] \in Seq(Message)
        BY <3>1, LenConcat
      <3> QED
        BY <1>1, <1>2, <3>2 DEF Write, FileTypes
    <2> QED
      BY <2>3, <2>4, <2>5, <2>6 DEF FileTypes
  <1> QED
    BY <1>2, FileFrame, GroupFrame DEF IInv

LEMMA TypeStep ==
  ASSUME IInv, [Next]_vars
  PROVE  TypeOK'
  <1>1. today' \in 0 .. MaxDate
    BY Groups, DateFrame DEF IInv, Midnight
  <1>2. LogTypes' /\ SyncTypes' /\ AsyncTypes' /\ FileTypes'
    BY LogTypesStep, SyncTypesStep, AsyncTypesStep, FileTypesStep
  <1> QED
    BY <1>1, <1>2 DEF TypeOK, LogTypes, SyncTypes, AsyncTypes, FileTypes

LEMMA IInvStep == IInv /\ [Next]_vars => IInv'
  <1> SUFFICES ASSUME IInv, [Next]_vars PROVE IInv'
    OBVIOUS
  <1>1. TypeOK' /\ Held' /\ Bounded' /\ Numbered'
    BY TypeStep, HeldStep, BoundedStep, NumberedStep
  <1>2. (files \in [Channel -> [File -> Nat]] /\ earlier \in [Channel -> [File -> Nat]])'
    BY NumberedStep DEF IInv
  <1> QED
    BY <1>1, <1>2, LostStep DEF IInv

LEMMA Invariance == Spec => []IInv
  BY InitIInv, IInvStep, PTL DEF Spec

-----------------------------------------------------------------------------
(* The types of the state, for any threads and bounds. *)
THEOREM TypeCorrect == Spec => []TypeOK
  <1>1. IInv => TypeOK
    BY DEF IInv
  <1> QED
    BY <1>1, Invariance, PTL

(* Up to the first race in a container no message is lost, doubled or      *)
(* overtaken on its way from pushLog to the file, however many threads log.*)
THEOREM EachInItsPlace == Spec => []NothingLost
  <1>1. IInv => NothingLost
    BY DEF IInv
  <1> QED
    BY <1>1, Invariance, PTL

(* The step that writes to a file which is too long already.               *)
LEMMA OverlongStep ==
  ASSUME IInv, [Next]_vars, NEW c \in Channel, NEW f \in File,
         files'[c][f] # files[c][f], files[c][f] > m_max_file_size
  PROVE  /\ m_no'[c] = f[2] + 1
         /\ (f[2] = 0 /\ m_no[c] = 0) \/ files[c][f] = earlier[c][f]
  <1>1. Write(c)
    <2>1. files \in [Channel -> [File -> Nat]]
      BY DEF IInv
    <2>2. PICK d \in Channel : Write(d)
      BY FileFrame DEF fileVars
    <2>3. d # c => files'[c] = files[c]
      BY <2>1, <2>2 DEF Write
    <2> QED
      BY <2>2, <2>3
  <1> DEFINE g == m_file_handler'[c]
             k == m_no[c]
             d == m_date[c]
  <1>2. /\ files \in [Channel -> [File -> Nat]] /\ k \in Nat
        /\ d \in 0 .. MaxDate + 1 /\ today \in 0 .. MaxDate
        /\ m_no \in [Channel -> Nat]
        /\ m_file_handler \in [Channel -> File \cup {NoFile}]
    BY DEF IInv, TypeOK
  <1>3. f = g
    BY <1>1, <1>2 DEF Write
  (* A file that is looked at and written is not too long. *)
  <1>4. m_no'[c] = No(c) + 1 /\ f = <<today, No(c)>>
    BY <1>1, <1>2, <1>3 DEF Write, Rotate
  <1>5. CASE No(c) = 0 /\ k = 0
    BY <1>4, <1>5
  <1>6. CASE No(c) # 0 \/ k # 0
    <2>1. k # 0
      BY <1>6 DEF No
    <2>2. /\ d <= today /\ m_file_handler[c] = <<d, k - 1>>
          /\ files[c][f] # earlier[c][f] => \/ f[1] < d
                                            \/ f[1] = d /\ f[2] <= m_file_handler[c][2]
      BY <2>1 DEF IInv, Numbered
    <2>3. d = today => No(c) = k
      BY DEF No
    <2> DEFINE h == m_file_handler[c][2]
               n == No(c)
    <2>4. h = k - 1 /\ f[1] = today /\ f[2] = n /\ m_no'[c] = n + 1 /\ (d = today => n = k)
      BY <1>4, <2>2, <2>3
    <2> HIDE DEF h, n
    <2>5. ~(f[1] < d \/ (f[1] = d /\ f[2] <= h))
      <3>1. k \in Nat /\ d \in Int /\ today \in Int
        BY <1>2
      <3> HIDE DEF k, d
      <3> QED
        BY <2>2, <2>4, <3>1
    <2> QED
      BY <2>2, <2>4, <2>5 DEF h
  <1> QED
    BY <1>5, <1>6

(* The writer appends to a file that has outgrown the limit only with the  *)
(* step to its number, and only if it is the first of its day and follows  *)
(* itself, or is as an earlier process left it.                            *)
THEOREM OverlongOnlyOnce == Spec => OverlongOnce
  <1>1. IInv /\ [Next]_vars =>
          [\A c \in Channel, f \in File :
             files'[c][f] # files[c][f] /\ files[c][f] > m_max_file_size
               => /\ m_no'[c] = f[2] + 1
                  /\ (f[2] = 0 /\ m_no[c] = 0) \/ files[c][f] = earlier[c][f]]_vars
    BY OverlongStep
  <1> QED
    BY <1>1, Invariance, PTL DEF Spec, OverlongOnce
=============================================================================
