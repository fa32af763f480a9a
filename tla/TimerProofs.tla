----------------------------- MODULE TimerProofs -----------------------------
(***************************************************************************)
(* The safety of Timer for any events, intervals and retry time, and any   *)
(* threads that add events, but for Armed: only the loop's thread may add  *)
(* any, as in the framework.                                               *)
(***************************************************************************)
EXTENDS Timer, SequenceTheorems, WellFoundedInduction, TLAPS

USE IntervalAssumption

-----------------------------------------------------------------------------
(* Sequences.                                                              *)

LEMMA MinIsLeast ==
  ASSUME NEW S, S \subseteq Nat, S # {}
  PROVE  Min(S) \in S /\ \A n \in S : Min(S) <= n
  <1> DEFINE R == OpToRel(<, Nat)
  <1>1. R = {p \in Nat \X Nat : p[1] < p[2]}
    BY Zenon DEF OpToRel
  <1>2. IsWellFoundedOn(R, Nat)
    BY NatLessThanWellFounded, Zenon
  <1> HIDE DEF R
  <1>3. PICK m \in S : \A n \in S : ~(<<n, m>> \in R)
    BY <1>2, WFMin
  <1>4. \A n \in S : m <= n
    <2>1. \A n \in Nat : n < m => <<n, m>> \in R
      BY <1>1
    <2>2. ASSUME NEW n \in S PROVE m <= n
      <3>1. ~(n < m)
        BY <1>3, <2>1
      <3> QED
        BY <3>1
    <2> QED
      BY <2>2
  <1> QED
    BY <1>4 DEF Min

LEMMA InsertedAt ==
  ASSUME NEW S, NEW s \in Seq(S), NEW e \in S, NEW p \in 1 .. Len(s) + 1
  PROVE  /\ InsertAt(s, p, e) \in Seq(S) /\ Len(InsertAt(s, p, e)) = Len(s) + 1
         /\ \A i \in 1 .. Len(s) + 1 :
              InsertAt(s, p, e)[i] = IF i < p THEN s[i] ELSE IF i = p THEN e ELSE s[i - 1]
  <1> DEFINE b == SubSeq(s, 1, p - 1)
             a == SubSeq(s, p, Len(s))
  <1>1. b \in Seq(S) /\ Len(b) = p - 1 /\ \A i \in 1 .. p - 1 : b[i] = s[i]
    <2>1. \A i \in 1 .. p - 1 : s[i] \in S
      OBVIOUS
    <2>2. b \in Seq(S) /\ Len(b) = (IF 1 <= p - 1 THEN p - 1 - 1 + 1 ELSE 0)
          /\ \A i \in 1 .. p - 1 - 1 + 1 : b[i] = s[1 + i - 1]
      BY <2>1, SubSeqProperties
    <2> QED
      BY <2>2
  <1>2. a \in Seq(S) /\ Len(a) = (Len(s) - p) + 1 /\ \A i \in 1 .. (Len(s) - p) + 1 : a[i] = s[p + i - 1]
    <2>1. \A i \in p .. Len(s) : s[i] \in S
      OBVIOUS
    <2>2. a \in Seq(S) /\ Len(a) = (IF p <= Len(s) THEN Len(s) - (p) + 1 ELSE 0)
          /\ \A i \in 1 .. Len(s) - (p) + 1 : a[i] = s[(p) + i - 1]
      BY <2>1, SubSeqProperties
    <2> QED
      BY <2>2
  <1> DEFINE c == b \o <<e>>
  <1> HIDE DEF a, b
  <1>3. c \in Seq(S) /\ Len(c) = p /\ \A i \in 1 .. p : c[i] = IF i < p THEN s[i] ELSE e
    <2>1. <<e>> \in Seq(S) /\ Len(<<e>>) = 1 /\ <<e>>[1] = e
      OBVIOUS
    <2>2. /\ c \in Seq(S) /\ Len(c) = Len(b) + Len(<<e>>)
          /\ \A i \in 1 .. Len(b) + Len(<<e>>) : c[i] = IF i <= Len(b) THEN b[i] ELSE <<e>>[i - Len(b)]
      BY <1>1, <2>1, ConcatProperties
    <2> QED
      BY <1>1, <2>1, <2>2
  <1> HIDE DEF c
  <1>4. /\ c \o a \in Seq(S) /\ Len(c \o a) = Len(c) + Len(a)
        /\ \A i \in 1 .. Len(c) + Len(a) : (c \o a)[i] = IF i <= Len(c) THEN c[i] ELSE a[i - Len(c)]
    <2>1. c \in Seq(S) /\ a \in Seq(S)
      BY <1>2, <1>3
    <2> QED
      BY <2>1, ConcatProperties, Zenon
  <1>5. InsertAt(s, p, e) = c \o a
    BY DEF InsertAt, a, b, c
  <1> QED
    BY <1>2, <1>3, <1>4, <1>5

LEMMA RemovedAt ==
  ASSUME NEW S, NEW s \in Seq(S), NEW p \in 1 .. Len(s)
  PROVE  /\ RemoveAt(s, p) \in Seq(S) /\ Len(RemoveAt(s, p)) = Len(s) - 1
         /\ \A i \in 1 .. Len(s) - 1 : RemoveAt(s, p)[i] = IF i < p THEN s[i] ELSE s[i + 1]
  <1> DEFINE b == SubSeq(s, 1, p - 1)
             a == SubSeq(s, p + 1, Len(s))
  <1>1. b \in Seq(S) /\ Len(b) = p - 1 /\ \A i \in 1 .. p - 1 : b[i] = s[i]
    <2>1. \A i \in 1 .. p - 1 : s[i] \in S
      OBVIOUS
    <2>2. b \in Seq(S) /\ Len(b) = (IF 1 <= p - 1 THEN p - 1 - 1 + 1 ELSE 0)
          /\ \A i \in 1 .. p - 1 - 1 + 1 : b[i] = s[1 + i - 1]
      BY <2>1, SubSeqProperties
    <2> QED
      BY <2>2
  <1>2. a \in Seq(S) /\ Len(a) = Len(s) - p /\ \A i \in 1 .. Len(s) - p : a[i] = s[p + i]
    <2>1. \A i \in p + 1 .. Len(s) : s[i] \in S
      OBVIOUS
    <2>2. a \in Seq(S) /\ Len(a) = (IF p + 1 <= Len(s) THEN Len(s) - (p + 1) + 1 ELSE 0)
          /\ \A i \in 1 .. Len(s) - (p + 1) + 1 : a[i] = s[(p + 1) + i - 1]
      BY <2>1, SubSeqProperties
    <2> QED
      BY <2>2
  <1> HIDE DEF a, b
  <1>3. /\ b \o a \in Seq(S) /\ Len(b \o a) = Len(b) + Len(a)
        /\ \A i \in 1 .. Len(b) + Len(a) : (b \o a)[i] = IF i <= Len(b) THEN b[i] ELSE a[i - Len(b)]
    <2>1. b \in Seq(S) /\ a \in Seq(S)
      BY <1>1, <1>2
    <2> QED
      BY <2>1, ConcatProperties, Zenon
  <1>4. RemoveAt(s, p) = b \o a
    BY DEF RemoveAt, a, b
  <1>5. ASSUME NEW i \in 1 .. Len(s) - 1
        PROVE  (b \o a)[i] = IF i < p THEN s[i] ELSE s[i + 1]
    <2>1. CASE i < p
      BY <1>1, <1>2, <1>3, <2>1
    <2>2. CASE ~(i < p)
      <3>1. i - (p - 1) \in 1 .. Len(s) - p /\ p + (i - (p - 1)) = i + 1
        BY <2>2
      <3>2. (b \o a)[i] = a[i - (p - 1)]
        BY <1>1, <1>2, <1>3, <2>2
      <3> QED
        BY <1>2, <2>2, <3>1, <3>2
    <2> QED
      BY <2>1, <2>2
  <1>6. b \o a \in Seq(S) /\ Len(b \o a) = Len(s) - 1
    BY <1>1, <1>2, <1>3
  <1> QED
    BY <1>4, <1>5, <1>6, Zenon

(* Without its first occurrence, a sequence in which e occurs at most once *)
(* does not contain it.                                                    *)
LEMMA FirstRemoved ==
  ASSUME NEW S, NEW s \in Seq(S), NEW e
  PROVE  \/ RemoveFirst(s, e) = s /\ \A i \in 1 .. Len(s) : s[i] # e
         \/ \E p \in 1 .. Len(s) : s[p] = e /\ RemoveFirst(s, e) = RemoveAt(s, p)
  <1>1. CASE \A i \in 1 .. Len(s) : s[i] # e
    BY <1>1 DEF RemoveFirst
  <1>2. CASE \E i \in 1 .. Len(s) : s[i] = e
    <2> DEFINE I == {i \in 1 .. Len(s) : s[i] = e}
    <2>1. I # {} /\ I \subseteq Nat
      BY <1>2
    <2>2. Min(I) \in I
      BY <2>1, MinIsLeast
    <2>3. RemoveFirst(s, e) = RemoveAt(s, Min(I))
      BY <1>2, <2>1 DEF RemoveFirst, SelectInSeq
    <2> QED
      BY <2>2, <2>3
  <1> QED
    BY <1>1, <1>2

-----------------------------------------------------------------------------
(* The parts of the invariant.                                             *)

(* The queue is sorted by arrive time. *)
Sorted ==
  \A i, j \in DOMAIN m_pending_events :
    i <= j => left[m_pending_events[i]] <= left[m_pending_events[j]]

(* A thread that sets the timerfd has a copy of an event. *)
Copied == \A t \in Thread : reset_pc[t] = "settime" => copied[t] \in TimerEvent

(* What onTimer adds again is in the queue no more, nor cancelled. *)
Collected ==
  /\ loop_pc # "repeat" => temp = << >>
  /\ \A i, j \in DOMAIN temp : temp[i] = temp[j] /\ temp[i] # NoEvent => i = j
  /\ \A i \in DOMAIN temp : temp[i] \notin Pending \cup canceled

IInv == TypeOK /\ Sorted /\ Copied /\ PendingOnce /\ Collected

LEMMA InitIInv == Init => IInv
  <1> SUFFICES ASSUME Init PROVE IInv
    OBVIOUS
  <1>1. TypeOK
    <2>1. /\ m_pending_events \in Seq(TimerEvent)
          /\ temp \in Seq(TimerEvent \cup {NoEvent}) /\ tasks \in Seq(TimerEvent \cup {NoEvent})
      BY DEF Init
    <2>2. reset_pc \in [Thread -> ResetPc] /\ copied \in [Thread -> TimerEvent \cup {NoEvent}]
      BY DEF Init, ResetPc
    <2>3. left \in [TimerEvent -> Nat] /\ loop_pc \in LoopPc
      BY DEF Init, LoopPc
    <2> QED
      BY <2>1, <2>2, <2>3 DEF Init, TypeOK
  <1>2. Sorted /\ Copied
    BY DEF Init, Sorted, Copied
  <1>3. PendingOnce /\ Collected
    BY DEF Init, PendingOnce, Collected, Pending, ToSet
  <1> QED
    BY <1>1, <1>2, <1>3 DEF IInv

LEMMA Queue ==
  ASSUME TypeOK
  PROVE  /\ m_pending_events \in Seq(TimerEvent) /\ Len(m_pending_events) \in Nat
         /\ DOMAIN m_pending_events = 1 .. Len(m_pending_events)
         /\ \A i \in DOMAIN m_pending_events :
              m_pending_events[i] \in TimerEvent /\ left[m_pending_events[i]] \in Nat
  BY DEF TypeOK

(* Until splits a sorted queue. *)
LEMMA UntilSplits ==
  ASSUME TypeOK, Sorted, NEW n \in Nat
  PROVE  /\ Until(n) \in 0 .. Len(m_pending_events)
         /\ \A i \in 1 .. Until(n) : left[m_pending_events[i]] <= n
         /\ \A i \in Until(n) + 1 .. Len(m_pending_events) : left[m_pending_events[i]] > n
  <1> DEFINE I == {i \in 1 .. Len(m_pending_events) : left[m_pending_events[i]] > n}
  <1>1. Until(n) = IF I # {} THEN Min(I) - 1 ELSE Len(m_pending_events)
    <2>1. SelectInSeq(m_pending_events, LAMBDA f : left[f] > n) = IF I # {} THEN Min(I) ELSE 0
      BY DEF SelectInSeq
    <2>2. I # {} => Min(I) \in I
      <3>1. I \subseteq Nat
        OBVIOUS
      <3> HIDE DEF I
      <3> QED
        BY <3>1, MinIsLeast
    <2>3. I # {} => Min(I) # 0
      BY <2>2
    <2> QED
      BY <2>1, <2>3 DEF Until
  <1>2. CASE I = {}
    <2>1. Until(n) = Len(m_pending_events) /\ Len(m_pending_events) \in Nat
      BY <1>1, <1>2, Queue
    <2>2. ASSUME NEW i \in 1 .. Len(m_pending_events) PROVE left[m_pending_events[i]] <= n
      <3>1. left[m_pending_events[i]] \in Nat /\ i \notin I
        BY <1>2, Queue
      <3> QED
        BY <3>1
    <2> QED
      BY <2>1, <2>2
  <1>3. CASE I # {}
    <2>1. I \subseteq Nat
      OBVIOUS
    <2> DEFINE m == Min(I)
    <2>2. m \in I /\ \A i \in I : m <= i
      <3> HIDE DEF I
      <3> QED
        BY <1>3, <2>1, MinIsLeast
    <2>3. Until(n) = m - 1
      BY <1>1, <1>3
    <2> HIDE DEF m
    <2>4. m \in 1 .. Len(m_pending_events) /\ left[m_pending_events[m]] > n
      BY <2>2
    <2>5. ASSUME NEW i \in 1 .. m - 1 PROVE left[m_pending_events[i]] <= n
      <3>1. i \in 1 .. Len(m_pending_events) /\ ~(m <= i)
        BY <2>4, Queue
      <3>2. left[m_pending_events[i]] \in Nat /\ i \notin I
        BY <2>2, <3>1, Queue
      <3>3. ~(left[m_pending_events[i]] > n)
        BY <3>1, <3>2
      <3> QED
        BY <3>2, <3>3
    <2>6. ASSUME NEW i \in m .. Len(m_pending_events) PROVE left[m_pending_events[i]] > n
      <3>1. i \in DOMAIN m_pending_events /\ m \in DOMAIN m_pending_events /\ m <= i
        BY <2>4, Queue
      <3>2. left[m_pending_events[m]] <= left[m_pending_events[i]]
        BY <3>1 DEF Sorted
      <3> QED
        BY <2>4, <3>1, <3>2, Queue
    <2>7. m - 1 \in 0 .. Len(m_pending_events) /\ m - 1 + 1 = m
      BY <2>4, Queue
    <2> QED
      BY <2>3, <2>5, <2>6, <2>7
  <1> QED
    BY <1>2, <1>3

(* addTimerEvent puts an event in its place. *)
LEMMA EmplaceKeeps ==
  ASSUME TypeOK, Sorted, NEW t \in Thread, NEW e \in TimerEvent, NEW arrive \in Nat,
         \A i \in DOMAIN m_pending_events : m_pending_events[i] # e,
         \A i, j \in DOMAIN m_pending_events : m_pending_events[i] = m_pending_events[j] => i = j,
         Emplace(t, e, arrive)
  PROVE  /\ m_pending_events' \in Seq(TimerEvent) /\ left' \in [TimerEvent -> Nat]
         /\ Sorted'
         /\ \A i, j \in DOMAIN m_pending_events' : m_pending_events'[i] = m_pending_events'[j] => i = j
         /\ \A f : f \in Pending' <=> f \in Pending \/ f = e
         /\ Until(arrive) # 0 => /\ m_pending_events # << >> /\ m_pending_events' # << >>
                                /\ m_pending_events'[1] = m_pending_events[1]
                                /\ left'[m_pending_events[1]] = left[m_pending_events[1]]
  <1> DEFINE s == m_pending_events
             q == m_pending_events'
             p == Until(arrive) + 1
  <1>1. /\ s \in Seq(TimerEvent) /\ Len(s) \in Nat /\ DOMAIN s = 1 .. Len(s)
        /\ \A i \in DOMAIN s : s[i] \in TimerEvent /\ left[s[i]] \in Nat
    BY Queue
  <1>2. /\ p \in 1 .. Len(s) + 1
        /\ \A i \in 1 .. p - 1 : left[s[i]] <= arrive
        /\ \A i \in p .. Len(s) : left[s[i]] > arrive
    <2>1. /\ Until(arrive) \in 0 .. Len(s)
          /\ \A i \in 1 .. Until(arrive) : left[s[i]] <= arrive
          /\ \A i \in Until(arrive) + 1 .. Len(s) : left[s[i]] > arrive
      BY UntilSplits
    <2>2. p \in 1 .. Len(s) + 1 /\ p - 1 = Until(arrive)
      BY <1>1, <2>1
    <2> QED
      BY <2>1, <2>2
  <1>3. q = InsertAt(s, p, e) /\ left' = [left EXCEPT ![e] = arrive]
    BY DEF Emplace
  <1> HIDE DEF p
  <1>4. /\ q \in Seq(TimerEvent) /\ Len(q) = Len(s) + 1 /\ DOMAIN q = 1 .. Len(s) + 1
        /\ \A i \in 1 .. Len(s) + 1 : q[i] = IF i < p THEN s[i] ELSE IF i = p THEN e ELSE s[i - 1]
    <2> HIDE DEF s, q
    <2>1. s \in Seq(TimerEvent) /\ p \in 1 .. Len(s) + 1
      BY <1>1, <1>2
    <2>2. /\ InsertAt(s, p, e) \in Seq(TimerEvent) /\ Len(InsertAt(s, p, e)) = Len(s) + 1
          /\ \A i \in 1 .. Len(s) + 1 :
               InsertAt(s, p, e)[i] = IF i < p THEN s[i] ELSE IF i = p THEN e ELSE s[i - 1]
      <3>1. InsertAt(s, p, e) \in Seq(TimerEvent)
        BY <2>1, InsertedAt
      <3>2. Len(InsertAt(s, p, e)) = Len(s) + 1
        BY <2>1, InsertedAt
      <3>3. ASSUME NEW i \in 1 .. Len(s) + 1
            PROVE  InsertAt(s, p, e)[i] = IF i < p THEN s[i] ELSE IF i = p THEN e ELSE s[i - 1]
        BY <2>1, InsertedAt
      <3> QED
        BY <3>1, <3>2, <3>3
    <2> QED
      BY <1>1, <1>3, <2>2
  <1>5. left' \in [TimerEvent -> Nat] /\ left'[e] = arrive
        /\ \A i \in DOMAIN s : left'[s[i]] = left[s[i]]
    BY <1>1, <1>3 DEF TypeOK
  <1> HIDE DEF s, q
  <1>6. \A i \in 1 .. Len(s) + 1 :
          \/ i < p /\ i \in DOMAIN s /\ q[i] = s[i]
          \/ i = p /\ q[i] = e
          \/ i > p /\ i - 1 \in p .. Len(s) /\ q[i] = s[i - 1]
    <2> TAKE i \in 1 .. Len(s) + 1
    <2>1. q[i] = IF i < p THEN s[i] ELSE IF i = p THEN e ELSE s[i - 1]
      BY <1>4
    <2>2. (i < p /\ i \in DOMAIN s) \/ i = p \/ (i > p /\ i - 1 \in p .. Len(s))
      BY <1>1, <1>2
    <2>3. p \in Nat /\ i \in Nat
      BY <1>1, <1>2
    <2> QED
      BY <2>1, <2>2, <2>3
  <1>7. \A i \in DOMAIN q : i < p => i \in DOMAIN s /\ q[i] = s[i] /\ left[s[i]] <= arrive
    BY <1>1, <1>2, <1>4, <1>6
  <1>8. p \in DOMAIN q /\ q[p] = e
    BY <1>1, <1>2, <1>4
  <1>9. \A i \in DOMAIN q : i > p => /\ i - 1 \in DOMAIN s /\ i - 1 >= p /\ q[i] = s[i - 1]
                                  /\ left[s[i - 1]] > arrive
    <2> TAKE i \in DOMAIN q
    <2> HAVE i > p
    <2>1. i - 1 \in p .. Len(s) /\ q[i] = s[i - 1]
      BY <1>1, <1>2, <1>4, <1>6
    <2> QED
      BY <1>1, <1>2, <2>1
  <1>10. DOMAIN q \subseteq Int /\ p \in Int /\ DOMAIN s \subseteq Int
    BY <1>1, <1>2, <1>4
  <1>11. \A i, j \in DOMAIN q : i <= j => left'[q[i]] <= left'[q[j]]
    <2>1. \A i, j \in DOMAIN s : i <= j => left[s[i]] <= left[s[j]]
      BY DEF Sorted, s
    <2> SUFFICES ASSUME NEW i \in DOMAIN q, NEW j \in DOMAIN q, i <= j
                 PROVE  left'[q[i]] <= left'[q[j]]
      OBVIOUS
    <2>2. CASE j < p
      <3>1. i < p
        BY <1>10, <2>2
      <3>2. i \in DOMAIN s /\ j \in DOMAIN s /\ q[i] = s[i] /\ q[j] = s[j]
        BY <1>7, <2>2, <3>1
      <3> QED
        BY <1>5, <2>1, <3>2
    <2>3. CASE i < p /\ j = p
      <3>1. q[i] = s[i] /\ i \in DOMAIN s /\ left[s[i]] <= arrive /\ q[j] = e
        BY <1>7, <1>8, <2>3
      <3> QED
        BY <1>5, <3>1
    <2>4. CASE i < p /\ j > p
      <3>1. q[i] = s[i] /\ q[j] = s[j - 1] /\ i \in DOMAIN s /\ j - 1 \in DOMAIN s /\ j - 1 >= p
        BY <1>7, <1>9, <2>4
      <3>2. i <= j - 1
        BY <1>10, <2>4, <3>1
      <3> QED
        BY <1>5, <2>1, <3>1, <3>2
    <2>5. CASE i = p /\ j = p
      BY <1>8, <1>5, <2>5
    <2>6. CASE i = p /\ j > p
      <3>1. q[i] = e /\ q[j] = s[j - 1] /\ j - 1 \in DOMAIN s /\ left[s[j - 1]] > arrive
        BY <1>8, <1>9, <2>6
      <3> QED
        BY <1>1, <1>5, <3>1
    <2>7. CASE i > p
      <3>1. j > p /\ i - 1 <= j - 1
        BY <1>10, <2>7
      <3>2. q[i] = s[i - 1] /\ q[j] = s[j - 1] /\ i - 1 \in DOMAIN s /\ j - 1 \in DOMAIN s
        BY <1>9, <2>7, <3>1
      <3> QED
        BY <1>5, <2>1, <3>1, <3>2
    <2> QED
      BY <1>10, <2>2, <2>3, <2>4, <2>5, <2>6, <2>7
  <1>12. \A i, j \in DOMAIN q : q[i] = q[j] => i = j
    <2>1. /\ \A i \in DOMAIN s : s[i] # e
          /\ \A i, j \in DOMAIN s : s[i] = s[j] => i = j
      BY DEF s
    <2> SUFFICES ASSUME NEW i \in DOMAIN q, NEW j \in DOMAIN q, q[i] = q[j], i < j
                 PROVE  FALSE
      BY <1>10
    <2>2. CASE j < p
      <3>1. i < p
        BY <1>10, <2>2
      <3> QED
        BY <1>7, <1>10, <2>1, <2>2, <3>1
    <2>3. CASE i < p /\ j = p
      BY <1>7, <1>8, <2>1, <2>3
    <2>4. CASE i < p /\ j > p
      <3>1. q[i] = s[i] /\ q[j] = s[j - 1] /\ i \in DOMAIN s /\ j - 1 \in DOMAIN s /\ j - 1 >= p
        BY <1>7, <1>9, <2>4
      <3>2. i # j - 1
        BY <1>10, <2>4, <3>1
      <3> QED
        BY <2>1, <3>1, <3>2
    <2>5. CASE i = p
      <3>1. j > p
        BY <1>10, <2>5
      <3> QED
        BY <1>8, <1>9, <2>1, <2>5, <3>1
    <2>6. CASE i > p
      <3>1. j > p /\ i - 1 # j - 1
        BY <1>10, <2>6
      <3>2. q[i] = s[i - 1] /\ q[j] = s[j - 1] /\ i - 1 \in DOMAIN s /\ j - 1 \in DOMAIN s
        BY <1>9, <2>6, <3>1
      <3> QED
        BY <2>1, <3>1, <3>2
    <2> QED
      BY <1>10, <2>2, <2>3, <2>4, <2>5, <2>6
  <1>13. \A f : (\E i \in DOMAIN q : q[i] = f) <=> (\E i \in DOMAIN s : s[i] = f) \/ f = e
    <2>1. ASSUME NEW i \in DOMAIN q PROVE q[i] = e \/ \E j \in DOMAIN s : s[j] = q[i]
      <3>1. CASE i < p
        BY <1>7, <3>1
      <3>2. CASE i = p
        BY <1>8, <3>2
      <3>3. CASE i > p
        BY <1>9, <3>3
      <3> QED
        BY <1>10, <3>1, <3>2, <3>3
    <2>2. ASSUME NEW i \in DOMAIN s PROVE \E j \in DOMAIN q : q[j] = s[i]
      <3>1. CASE i < p
        <4>1. i \in DOMAIN q /\ q[i] = s[i]
          BY <1>1, <1>4, <3>1
        <4> QED
          BY <4>1
      <3>2. CASE i >= p
        <4>1. i + 1 \in 1 .. Len(s) + 1 /\ ~(i + 1 < p) /\ i + 1 # p /\ (i + 1) - 1 = i
          BY <1>1, <1>2, <3>2
        <4>2. i + 1 \in DOMAIN q /\ q[i + 1] = s[(i + 1) - 1]
          BY <1>4, <4>1
        <4> QED
          BY <4>1, <4>2
      <3> QED
        BY <1>10, <3>1, <3>2
    <2> QED
      BY <1>8, <2>1, <2>2
  <1>14. Until(arrive) # 0 => /\ s # << >> /\ q # << >> /\ q[1] = s[1] /\ left'[s[1]] = left[s[1]]
    <2> SUFFICES ASSUME Until(arrive) # 0
                 PROVE  s # << >> /\ q # << >> /\ q[1] = s[1] /\ left'[s[1]] = left[s[1]]
      OBVIOUS
    <2>1. Until(arrive) \in 0 .. Len(s) /\ p = Until(arrive) + 1
      BY UntilSplits DEF s, p
    <2>2. 1 < p /\ 1 \in DOMAIN s /\ 1 \in 1 .. Len(s) + 1
      BY <1>1, <2>1
    <2> QED
      BY <1>4, <1>5, <2>2
  <1>15. Sorted'
    BY <1>11 DEF q, Sorted
  <1>16. \A f : f \in Pending' <=> f \in Pending \/ f = e
    BY <1>13 DEF s, q, Pending, ToSet
  <1> QED
    BY <1>4, <1>5, <1>12, <1>14, <1>15, <1>16 DEF s, q

(* deleteTimerEvent takes an event out, and leaves the order as it is. *)
LEMMA RemoveKeeps ==
  ASSUME TypeOK, Sorted, PendingOnce, NEW e, UNCHANGED left,
         m_pending_events' = RemoveFirst(m_pending_events, e)
  PROVE  /\ m_pending_events' \in Seq(TimerEvent) /\ Sorted'
         /\ \A i, j \in DOMAIN m_pending_events' : m_pending_events'[i] = m_pending_events'[j] => i = j
         /\ Pending' \subseteq Pending \ {e}
         /\ m_pending_events' # << >> =>
              m_pending_events # << >> /\ left[m_pending_events[1]] <= left[m_pending_events'[1]]
  <1> DEFINE s == m_pending_events
             q == m_pending_events'
  <1>1. /\ s \in Seq(TimerEvent) /\ Len(s) \in Nat /\ DOMAIN s = 1 .. Len(s)
        /\ \A i \in DOMAIN s : s[i] \in TimerEvent /\ left[s[i]] \in Nat
        /\ \A i, j \in DOMAIN s : i <= j => left[s[i]] <= left[s[j]]
        /\ \A i, j \in DOMAIN s : s[i] = s[j] => i = j
    BY Queue DEF Sorted, PendingOnce
  <1>2. q = RemoveFirst(s, e)
    OBVIOUS
  <1>3. left' = left
    OBVIOUS
  <1> HIDE DEF s, q
  <1>4. /\ q \in Seq(TimerEvent) /\ Len(q) \in Nat
        /\ \A i \in DOMAIN q : \E k \in DOMAIN s : k >= i /\ q[i] = s[k] /\ s[k] # e
        /\ \A i, j \in DOMAIN q : i <= j => left[q[i]] <= left[q[j]]
        /\ \A i, j \in DOMAIN q : q[i] = q[j] => i = j
    <2>1. CASE q = s /\ \A i \in 1 .. Len(s) : s[i] # e
      BY <1>1, <2>1
    <2>2. ASSUME NEW p \in 1 .. Len(s), s[p] = e, q = RemoveAt(s, p)
          PROVE  <1>4!1 /\ <1>4!2 /\ <1>4!3 /\ <1>4!4
      <3>1. /\ q \in Seq(TimerEvent) /\ Len(q) = Len(s) - 1
            /\ \A i \in 1 .. Len(s) - 1 : q[i] = IF i < p THEN s[i] ELSE s[i + 1]
        <4>1. RemoveAt(s, p) \in Seq(TimerEvent)
          BY <1>1, RemovedAt
        <4>2. Len(RemoveAt(s, p)) = Len(s) - 1
          BY <1>1, RemovedAt
        <4>3. \A i \in 1 .. Len(s) - 1 : RemoveAt(s, p)[i] = IF i < p THEN s[i] ELSE s[i + 1]
          <5>1. s \in Seq(TimerEvent)
            BY <1>1
          <5> QED
            BY <5>1, RemovedAt, Zenon
        <4> QED
          BY <2>2, <4>1, <4>2, <4>3
      <3> DEFINE at(i) == IF i < p THEN i ELSE i + 1
      <3>2. DOMAIN q = 1 .. Len(s) - 1
        BY <3>1
      <3>3. \A i \in DOMAIN q : at(i) \in DOMAIN s /\ q[i] = s[at(i)] /\ at(i) # p /\ at(i) >= i
        <4> TAKE i \in DOMAIN q
        <4>1. i \in 1 .. Len(s) - 1 /\ q[i] = IF i < p THEN s[i] ELSE s[i + 1]
          BY <3>1, <3>2
        <4>2. i \in DOMAIN s /\ i + 1 \in DOMAIN s /\ (i < p => i # p) /\ (~(i < p) => i + 1 # p) /\ i + 1 >= i /\ i >= i
          BY <1>1, <4>1
        <4> QED
          BY <4>1, <4>2
      <3>4. \A i, j \in DOMAIN q : (i <= j => at(i) <= at(j)) /\ (at(i) = at(j) => i = j)
        BY <3>2
      <3> HIDE DEF at
      <3>5. p \in DOMAIN s /\ Len(q) \in Nat
        BY <1>1, <3>1
      <3>6. \A k \in DOMAIN s : k # p => s[k] # e
        BY <1>1, <2>2, <3>5
      <3>7. ASSUME NEW i \in DOMAIN q PROVE \E k \in DOMAIN s : k >= i /\ q[i] = s[k] /\ s[k] # e
        BY <3>3, <3>6
      <3>8. ASSUME NEW i \in DOMAIN q, NEW j \in DOMAIN q
            PROVE  (i <= j => left[q[i]] <= left[q[j]]) /\ (q[i] = q[j] => i = j)
        <4>1. /\ at(i) \in DOMAIN s /\ q[i] = s[at(i)]
              /\ at(j) \in DOMAIN s /\ q[j] = s[at(j)]
          BY <3>3
        <4>2. (i <= j => at(i) <= at(j)) /\ (at(i) = at(j) => i = j)
          BY <3>4
        <4>3. /\ at(i) <= at(j) => left[s[at(i)]] <= left[s[at(j)]]
              /\ s[at(i)] = s[at(j)] => at(i) = at(j)
          BY <1>1, <4>1
        <4> QED
          BY <4>1, <4>2, <4>3
      <3> QED
        BY <3>1, <3>5, <3>7, <3>8
    <2> QED
      BY <1>1, <1>2, <2>1, <2>2, FirstRemoved
  <1>5. \A f : (\E i \in DOMAIN q : q[i] = f) => (\E i \in DOMAIN s : s[i] = f) /\ f # e
    BY <1>4
  <1>6. Pending' \subseteq Pending \ {e}
    BY <1>5 DEF s, q, Pending, ToSet
  <1>7. q # << >> => s # << >> /\ left[s[1]] <= left[q[1]]
    <2> HAVE q # << >>
    <2>1. 1 \in DOMAIN q
      BY <1>4
    <2>2. PICK k \in DOMAIN s : q[1] = s[k]
      BY <1>4, <2>1
    <2>3. 1 \in DOMAIN s /\ 1 <= k
      BY <1>1
    <2> QED
      BY <1>1, <2>2, <2>3
  <1>8. Sorted'
    BY <1>3, <1>4 DEF q, Sorted
  <1> QED
    BY <1>4, <1>6, <1>7, <1>8 DEF s, q

(* onTimer takes off what is due: the first events. *)
LEMMA TakeKeeps ==
  ASSUME TypeOK, Sorted, PendingOnce, UNCHANGED <<left, canceled>>, NEW n \in 0 .. Len(m_pending_events),
         temp' = [i \in 1 .. n |-> IF m_pending_events[i] \in canceled
                                   THEN NoEvent ELSE m_pending_events[i]],
         m_pending_events' = SubSeq(m_pending_events, n + 1, Len(m_pending_events))
  PROVE  /\ m_pending_events' \in Seq(TimerEvent) /\ temp' \in Seq(TimerEvent \cup {NoEvent})
         /\ Sorted' /\ PendingOnce'
         /\ \A i, j \in DOMAIN temp' : temp'[i] = temp'[j] /\ temp'[i] # NoEvent => i = j
         /\ \A i \in DOMAIN temp' : temp'[i] \notin Pending' \cup canceled'
  <1> DEFINE s == m_pending_events
             q == m_pending_events'
  <1>1. /\ s \in Seq(TimerEvent) /\ Len(s) \in Nat /\ DOMAIN s = 1 .. Len(s)
        /\ \A i \in DOMAIN s : s[i] \in TimerEvent /\ left[s[i]] \in Nat
        /\ \A i, j \in DOMAIN s : i <= j => left[s[i]] <= left[s[j]]
        /\ \A i, j \in DOMAIN s : s[i] = s[j] => i = j
    BY Queue DEF Sorted, PendingOnce
  <1>2. q = SubSeq(s, n + 1, Len(s)) /\ n \in 0 .. Len(s)
        /\ temp' = [i \in 1 .. n |-> IF s[i] \in canceled THEN NoEvent ELSE s[i]]
    OBVIOUS
  <1>3. \A i \in DOMAIN s : s[i] \notin canceled
    BY DEF PendingOnce, Pending, ToSet
  <1>4. NoEvent \notin canceled /\ left' = left /\ canceled' = canceled
    BY DEF TypeOK
  <1> HIDE DEF s, q
  <1>5. q \in Seq(TimerEvent) /\ DOMAIN q = 1 .. Len(s) - n
        /\ \A i \in DOMAIN q : n + i \in DOMAIN s /\ q[i] = s[n + i]
    <2>1. \A i \in n + 1 .. Len(s) : s[i] \in TimerEvent
      BY <1>1, <1>2
    <2>2. n + 1 \in Int /\ Len(s) \in Int
      BY <1>1, <1>2
    <2>3. /\ q \in Seq(TimerEvent)
          /\ Len(q) = IF n + 1 <= Len(s) THEN Len(s) - (n + 1) + 1 ELSE 0
          /\ \A i \in 1 .. Len(s) - (n + 1) + 1 : q[i] = s[n + 1 + i - 1]
      BY <1>2, <2>1, <2>2, SubSeqProperties
    <2>4. Len(q) = Len(s) - n
      <3>1. n \in Nat /\ n <= Len(s) /\ Len(s) \in Nat
        BY <1>1, <1>2
      <3> QED
        BY <2>3, <3>1
    <2>5. ASSUME NEW i \in 1 .. Len(s) - n PROVE n + i \in DOMAIN s /\ q[i] = s[n + i]
      <3>1. i \in 1 .. Len(s) - (n + 1) + 1 /\ n + 1 + i - 1 = n + i /\ n + i \in 1 .. Len(s)
        BY <1>1, <1>2
      <3>2. q[i] = s[n + 1 + i - 1]
        BY <2>3, <3>1
      <3> QED
        BY <1>1, <3>1, <3>2
    <2>6. q \in Seq(TimerEvent) /\ DOMAIN q = 1 .. Len(q)
      BY <2>3
    <2> QED
      BY <2>4, <2>5, <2>6
  <1>6. /\ \A i, j \in DOMAIN q : i <= j => left[q[i]] <= left[q[j]]
        /\ \A i, j \in DOMAIN q : q[i] = q[j] => i = j
    <2>1. n \in Int /\ DOMAIN q \subseteq Int
      BY <1>2, <1>5
    <2> SUFFICES ASSUME NEW i \in DOMAIN q, NEW j \in DOMAIN q
                 PROVE  (i <= j => left[q[i]] <= left[q[j]]) /\ (q[i] = q[j] => i = j)
      OBVIOUS
    <2>2. (i <= j => n + i <= n + j) /\ (n + i = n + j => i = j)
      BY <2>1
    <2>3. n + i \in DOMAIN s /\ q[i] = s[n + i] /\ n + j \in DOMAIN s /\ q[j] = s[n + j]
      BY <1>5
    <2> QED
      BY <1>1, <2>2, <2>3
  <1>7. DOMAIN temp' = 1 .. n /\ \A i \in 1 .. n : i \in DOMAIN s /\ temp'[i] = s[i]
    BY <1>1, <1>2, <1>3
  <1>8. temp' \in Seq(TimerEvent \cup {NoEvent})
    <2>1. \A i \in 1 .. n : temp'[i] \in TimerEvent \cup {NoEvent}
      BY <1>1, <1>7
    <2> QED
      BY <1>2, <2>1
  <1>9. \A i \in 1 .. n, j \in DOMAIN q : temp'[i] # q[j]
    <2> SUFFICES ASSUME NEW i \in 1 .. n, NEW j \in DOMAIN q PROVE temp'[i] # q[j]
      OBVIOUS
    <2>1. i # n + j
      BY <1>2, <1>5
    <2>2. i \in DOMAIN s /\ n + j \in DOMAIN s /\ temp'[i] = s[i] /\ q[j] = s[n + j]
      BY <1>5, <1>7
    <2>3. s[i] # s[n + j]
      BY <1>1, <2>1, <2>2
    <2> QED
      BY <2>2, <2>3
  <1>10. Sorted' /\ PendingOnce'
    <2>1. \A j \in DOMAIN q : q[j] \notin canceled
      BY <1>3, <1>5
    <2>2. Sorted'
      BY <1>4, <1>6 DEF q, Sorted
    <2>3. Pending' \cap canceled' = {}
      BY <1>4, <2>1 DEF q, Pending, ToSet
    <2> QED
      BY <1>6, <2>2, <2>3 DEF q, PendingOnce
  <1>11. \A i \in DOMAIN temp' : temp'[i] \notin Pending' \cup canceled'
    BY <1>3, <1>4, <1>7, <1>9 DEF q, Pending, ToSet
  <1> QED
    BY <1>1, <1>5, <1>7, <1>8, <1>10, <1>11 DEF q

-----------------------------------------------------------------------------
(* Every step keeps the invariant.                                         *)

LEMMA QueueSame ==
  ASSUME UNCHANGED <<m_pending_events, left, canceled, temp>>, Sorted, PendingOnce
  PROVE  /\ Sorted' /\ PendingOnce'
         /\ Collected /\ (loop_pc' # "repeat" => loop_pc # "repeat" \/ temp = << >>) => Collected'
  BY DEF Sorted, PendingOnce, Collected, Pending

LEMMA AddKeeps ==
  ASSUME IInv, NEW t \in Thread, NEW e \in TimerEvent, AddTimerEvent(t, e)
  PROVE  IInv'
  <1> USE DEF IInv, onTimerVars
  <1>1. /\ Emplace(t, e, Interval[e]) /\ Interval[e] \in Nat
        /\ canceled' = canceled \ {e}
        /\ UNCHANGED <<handler_queued, loop_pc, temp, tasks, current, timerfd, readable, copied>>
        /\ \E c \in {"copy", "none"} : reset_pc' = [reset_pc EXCEPT ![t] = c]
    BY DEF AddTimerEvent, Emplace
  <1>2. /\ \A i \in DOMAIN m_pending_events : m_pending_events[i] # e
        /\ \A i \in DOMAIN temp : temp[i] # e
    BY DEF AddTimerEvent, InUse, Pending, ToSet
  <1>3. \A i, j \in DOMAIN m_pending_events : m_pending_events[i] = m_pending_events[j] => i = j
    BY DEF PendingOnce
  <1>4. /\ m_pending_events' \in Seq(TimerEvent) /\ left' \in [TimerEvent -> Nat]
        /\ Sorted'
        /\ \A i, j \in DOMAIN m_pending_events' : m_pending_events'[i] = m_pending_events'[j] => i = j
        /\ \A f : f \in Pending' <=> f \in Pending \/ f = e
    BY <1>1, <1>2, <1>3, EmplaceKeeps
  <1>5. TypeOK'
    BY <1>1, <1>4 DEF TypeOK, ResetPc
  <1>6. Copied'
    BY <1>1 DEF Copied, TypeOK
  <1>7. PendingOnce'
    BY <1>1, <1>4 DEF PendingOnce
  <1>8. Collected'
    BY <1>1, <1>2, <1>4 DEF Collected
  <1> QED
    BY <1>4, <1>5, <1>6, <1>7, <1>8

LEMMA DeleteKeeps ==
  ASSUME IInv, NEW e \in TimerEvent, DeleteTimerEvent(e)
  PROVE  IInv'
  <1> USE DEF IInv, onTimerVars, resetVars
  <1>1. /\ m_pending_events' = RemoveFirst(m_pending_events, e)
        /\ canceled' = canceled \cup {e} /\ loop_pc # "repeat"
        /\ UNCHANGED <<left, timerfd, readable, handler_queued, loop_pc, temp, tasks, current,
                       reset_pc, copied>>
    BY DEF DeleteTimerEvent, Free
  <1>2. /\ m_pending_events' \in Seq(TimerEvent) /\ Sorted'
        /\ \A i, j \in DOMAIN m_pending_events' : m_pending_events'[i] = m_pending_events'[j] => i = j
        /\ Pending' \subseteq Pending \ {e}
    BY <1>1, RemoveKeeps
  <1>3. TypeOK'
    BY <1>1, <1>2 DEF TypeOK
  <1>4. Copied'
    BY <1>1 DEF Copied
  <1>5. PendingOnce'
    BY <1>1, <1>2 DEF PendingOnce
  <1>6. Collected'
    BY <1>1 DEF Collected
  <1> QED
    BY <1>2, <1>3, <1>4, <1>5, <1>6

LEMMA OnTimerKeeps ==
  ASSUME IInv, OnTimer
  PROVE  IInv'
  <1> USE DEF IInv, resetVars
  <1>1. /\ temp' = [i \in 1 .. Until(0) |-> IF m_pending_events[i] \in canceled
                                           THEN NoEvent ELSE m_pending_events[i]]
        /\ m_pending_events' = SubSeq(m_pending_events, Until(0) + 1, Len(m_pending_events))
        /\ tasks' = temp' /\ readable' = FALSE /\ handler_queued' = FALSE /\ loop_pc' = "repeat"
        /\ UNCHANGED <<left, canceled, timerfd, current, reset_pc, copied>>
    BY DEF OnTimer
  <1>2. Until(0) \in 0 .. Len(m_pending_events)
    BY UntilSplits
  <1>3. /\ m_pending_events' \in Seq(TimerEvent) /\ temp' \in Seq(TimerEvent \cup {NoEvent})
        /\ Sorted' /\ PendingOnce'
        /\ \A i, j \in DOMAIN temp' : temp'[i] = temp'[j] /\ temp'[i] # NoEvent => i = j
        /\ \A i \in DOMAIN temp' : temp'[i] \notin Pending' \cup canceled'
    BY <1>1, <1>2, TakeKeeps
  <1>4. TypeOK'
    BY <1>1, <1>3 DEF TypeOK, LoopPc
  <1>5. Copied' /\ Collected'
    BY <1>1, <1>3 DEF Copied, Collected
  <1> QED
    BY <1>3, <1>4, <1>5

LEMMA Popped ==
  ASSUME NEW S, NEW s \in Seq(S), s # << >>
  PROVE  /\ Head(s) = s[1] /\ s[1] \in S /\ 1 \in DOMAIN s
         /\ Tail(s) \in Seq(S)
         /\ \A i \in DOMAIN Tail(s) : i + 1 \in DOMAIN s /\ Tail(s)[i] = s[i + 1] /\ i + 1 # 1
         /\ \A i, j \in DOMAIN Tail(s) : i + 1 = j + 1 => i = j
  OBVIOUS

LEMMA RepeatKeeps ==
  ASSUME IInv, RepeatNext
  PROVE  IInv'
  <1> USE DEF IInv, resetVars
  <1>1. /\ temp # << >> /\ temp' = Tail(temp) /\ loop_pc = "repeat"
        /\ UNCHANGED <<canceled, handler_queued, loop_pc, tasks, current>>
    BY DEF RepeatNext
  <1>2. /\ Head(temp) = temp[1] /\ 1 \in DOMAIN temp
        /\ Tail(temp) \in Seq(TimerEvent \cup {NoEvent})
        /\ \A i \in DOMAIN Tail(temp) : i + 1 \in DOMAIN temp /\ Tail(temp)[i] = temp[i + 1] /\ i + 1 # 1
        /\ \A i, j \in DOMAIN Tail(temp) : i + 1 = j + 1 => i = j
    BY <1>1, Popped DEF TypeOK
  <1>3. /\ \A i, j \in DOMAIN temp' : temp'[i] = temp'[j] /\ temp'[i] # NoEvent => i = j
        /\ \A i \in DOMAIN temp' : temp'[i] \notin Pending \cup canceled
        /\ Head(temp) # NoEvent => \A i \in DOMAIN temp' : temp'[i] # Head(temp)
    BY <1>1, <1>2 DEF Collected
  <1>4. CASE Head(temp) \notin Repeated
    <2>1. UNCHANGED <<m_pending_events, left, timerfd, readable, reset_pc, copied>>
      BY <1>4 DEF RepeatNext
    <2>2. TypeOK'
      BY <1>1, <1>2, <2>1 DEF TypeOK
    <2>3. Sorted' /\ PendingOnce' /\ Copied'
      BY <1>1, <2>1 DEF Sorted, PendingOnce, Copied, Pending
    <2>4. Collected'
      BY <1>1, <1>3, <2>1 DEF Collected, Pending
    <2> QED
      BY <2>2, <2>3, <2>4
  <1>5. CASE Head(temp) \in Repeated
    <2> DEFINE e == Head(temp)
    <2>1. /\ Emplace(LoopThread, e, Interval[e]) /\ Interval[e] \in Nat /\ e \in TimerEvent
          /\ LoopThread \in Thread
          /\ UNCHANGED <<timerfd, readable, copied>>
          /\ \E c \in {"copy", "none"} : reset_pc' = [reset_pc EXCEPT ![LoopThread] = c]
      BY <1>5 DEF RepeatNext, Emplace, Thread
    <2>2. e \notin Pending \cup canceled
      BY <1>2 DEF Collected
    <2>3. /\ \A i \in DOMAIN m_pending_events : m_pending_events[i] # e
          /\ \A i, j \in DOMAIN m_pending_events : m_pending_events[i] = m_pending_events[j] => i = j
      BY <2>2 DEF PendingOnce, Pending, ToSet
    <2> HIDE DEF e
    <2>4. /\ m_pending_events' \in Seq(TimerEvent) /\ left' \in [TimerEvent -> Nat]
          /\ Sorted'
          /\ \A i, j \in DOMAIN m_pending_events' : m_pending_events'[i] = m_pending_events'[j] => i = j
          /\ \A f : f \in Pending' <=> f \in Pending \/ f = e
      BY <2>1, <2>3, EmplaceKeeps
    <2>5. TypeOK'
      BY <1>1, <1>2, <2>1, <2>4 DEF TypeOK, ResetPc
    <2>6. Copied'
      BY <2>1 DEF Copied, TypeOK
    <2>7. PendingOnce'
      BY <1>1, <2>2, <2>4 DEF PendingOnce
    <2>8. Collected'
      <3>1. e # NoEvent
        BY <2>1
      <3> QED
        BY <1>1, <1>3, <2>4, <3>1 DEF Collected, e
    <2> QED
      BY <2>4, <2>5, <2>6, <2>7, <2>8
  <1> QED
    BY <1>4, <1>5

LEMMA TickKeeps ==
  ASSUME IInv, Tick
  PROVE  IInv'
  <1> USE DEF IInv, onTimerVars, resetVars
  <1>1. /\ left' = [e \in TimerEvent |-> IF left[e] > 0 THEN left[e] - 1 ELSE 0]
        /\ UNCHANGED <<m_pending_events, canceled, handler_queued, loop_pc, temp, tasks, current,
                       reset_pc, copied>>
    BY DEF Tick
  <1>2. left' \in [TimerEvent -> Nat]
        /\ \A e, f \in TimerEvent : left[e] <= left[f] => left'[e] <= left'[f]
    BY <1>1 DEF TypeOK
  <1>3. timerfd' \in (Nat \ {0}) \cup {Off}
    <2>1. CASE timerfd \in {Off, 1}
      BY <2>1 DEF Tick
    <2>2. CASE timerfd \notin {Off, 1}
      <3>1. timerfd \in Nat \ {0, 1} /\ timerfd' = timerfd - 1
        BY <2>2 DEF Tick, TypeOK
      <3> QED
        BY <3>1
    <2> QED
      BY <2>1, <2>2
  <1>4. TypeOK'
    <2>1. readable' \in BOOLEAN
      BY DEF Tick, TypeOK
    <2> QED
      BY <1>1, <1>2, <1>3, <2>1 DEF TypeOK
  <1>5. Sorted'
    BY <1>1, <1>2, Queue DEF Sorted
  <1>6. Copied' /\ PendingOnce' /\ Collected'
    BY <1>1 DEF Copied, PendingOnce, Collected, Pending
  <1> QED
    BY <1>4, <1>5, <1>6

LEMMA StepIInv == IInv /\ [Next]_vars => IInv'
  <1> SUFFICES ASSUME IInv, [Next]_vars PROVE IInv'
    OBVIOUS
  <1> USE DEF IInv, onTimerVars, resetVars
  <1>1. ASSUME UNCHANGED <<m_pending_events, left, canceled, temp>>, TypeOK', Copied',
               loop_pc' # "repeat" => loop_pc # "repeat" \/ temp = << >>
        PROVE  IInv'
    BY <1>1, QueueSame
  <1>2. CASE Dispatch
    BY <1>1, <1>2 DEF Dispatch, TypeOK, Copied
  <1>3. CASE OnTimer
    BY <1>3, OnTimerKeeps
  <1>4. CASE RepeatNext
    BY <1>4, RepeatKeeps
  <1>5. CASE RepeatDone
    <2>1. reset_pc' \in [Thread -> ResetPc] /\ loop_pc' \in LoopPc
      BY <1>5 DEF RepeatDone, TypeOK, ResetPc, LoopPc
    <2>2. TypeOK'
      BY <1>5, <2>1 DEF RepeatDone, TypeOK
    <2>3. Copied'
      BY <1>5 DEF RepeatDone, TypeOK, Copied
    <2> QED
      BY <1>1, <1>5, <2>2, <2>3 DEF RepeatDone
  <1>6. CASE ResetDone
    BY <1>1, <1>6 DEF ResetDone, TypeOK, Copied, LoopPc
  <1>7. CASE CallNext
    <2>1. Head(tasks) \in TimerEvent \cup {NoEvent} /\ tasks' \in Seq(TimerEvent \cup {NoEvent})
      BY <1>7, Popped DEF CallNext, TypeOK
    <2>2. loop_pc' \in LoopPc
      BY <1>7 DEF CallNext, LoopPc
    <2> QED
      BY <1>1, <1>7, <2>1, <2>2 DEF CallNext, TypeOK, Copied
  <1>8. CASE CallbackReturns
    BY <1>1, <1>8 DEF CallbackReturns, TypeOK, Copied, LoopPc
  <1>9. CASE OnTimerReturns
    BY <1>1, <1>9 DEF OnTimerReturns, TypeOK, Copied, LoopPc
  <1>10. ASSUME NEW t \in Thread, CopyPending(t) PROVE IInv'
    <2>1. m_pending_events # << >> => Head(m_pending_events) \in TimerEvent
      BY Popped DEF TypeOK
    <2>2. reset_pc' \in [Thread -> ResetPc] /\ copied' \in [Thread -> TimerEvent \cup {NoEvent}]
      BY <1>10, <2>1 DEF CopyPending, TypeOK, ResetPc
    <2>3. TypeOK'
      BY <1>10, <2>2 DEF CopyPending, TypeOK
    <2>4. Copied'
      BY <1>10, <2>1 DEF CopyPending, TypeOK, Copied
    <2> QED
      BY <1>1, <1>10, <2>3, <2>4 DEF CopyPending
  <1>11. ASSUME NEW t \in Thread, SetTime(t) PROVE IInv'
    <2>1. left[copied[t]] \in Nat
      BY <1>11 DEF SetTime, TypeOK, Copied
    <2>2. timerfd' \in Nat \ {0}
      BY <1>11, <2>1 DEF SetTime
    <2>3. reset_pc' \in [Thread -> ResetPc] /\ copied' \in [Thread -> TimerEvent \cup {NoEvent}]
      BY <1>11 DEF SetTime, TypeOK, ResetPc
    <2>4. TypeOK'
      BY <1>11, <2>2, <2>3 DEF SetTime, TypeOK
    <2>5. Copied'
      BY <1>11 DEF SetTime, TypeOK, Copied
    <2> QED
      BY <1>1, <1>11, <2>4, <2>5 DEF SetTime
  <1>12. ASSUME NEW t \in Thread, NEW e \in TimerEvent, AddTimerEvent(t, e) PROVE IInv'
    BY <1>12, AddKeeps
  <1>13. ASSUME NEW e \in TimerEvent, DeleteTimerEvent(e) PROVE IInv'
    BY <1>13, DeleteKeeps
  <1>14. CASE Tick
    BY <1>14, TickKeeps
  <1>15. CASE UNCHANGED vars
    BY <1>1, <1>15 DEF vars, TypeOK, Copied
  <1> QED
    BY <1>2, <1>3, <1>4, <1>5, <1>6, <1>7, <1>8, <1>9, <1>10, <1>11, <1>12, <1>13, <1>14,
       <1>15 DEF Next, LoopStep, ResetStep

LEMMA Invariance == Spec => []IInv
  BY InitIInv, StepIInv, PTL DEF Spec

(* The variables of a timer keep their types: the timerfd is never set to  *)
(* expire at once, which would disarm it.                                  *)
THEOREM TypeCorrect == Spec => []TypeOK
  <1>1. IInv => TypeOK
    BY DEF IInv
  <1> QED
    BY <1>1, Invariance, PTL

(* deleteTimerEvent erases one entry, and that was the only one. *)
THEOREM AtMostOnce == Spec => []PendingOnce
  <1>1. IInv => PendingOnce
    BY DEF IInv
  <1> QED
    BY <1>1, Invariance, PTL

-----------------------------------------------------------------------------
(* Armed, when only the loop's thread adds events.                         *)

OnTime ==
  \/ readable \/ handler_queued
  \/ /\ timerfd # Off
     /\ timerfd <= left[Head(m_pending_events)] \/ timerfd <= Retry

(* The loop's thread has a copy of the head, or has set the timerfd.       *)
Lone ==
  /\ reset_pc[LoopThread] = "settime" =>
       m_pending_events # << >> /\ copied[LoopThread] = Head(m_pending_events)
  /\ reset_pc[LoopThread] = "none" /\ loop_pc # "repeat" /\ m_pending_events # << >> => OnTime

LEMMA HeadIsFirst ==
  ASSUME TypeOK
  PROVE  m_pending_events # << >> =>
           /\ Head(m_pending_events) = m_pending_events[1]
           /\ Head(m_pending_events) \in TimerEvent /\ left[Head(m_pending_events)] \in Nat
  BY DEF TypeOK

LEMMA EmplaceIsOnTime ==
  ASSUME IInv, IInv', Lone, NEW e \in TimerEvent, NEW arrive \in Nat,
         \A i \in DOMAIN m_pending_events : m_pending_events[i] # e,
         Emplace(LoopThread, e, arrive),
         reset_pc[LoopThread] = "none", UNCHANGED <<handler_queued, loop_pc>>
  PROVE  Lone'
  <1> USE DEF IInv
  <1>1. /\ LoopThread \in Thread
        /\ \A i, j \in DOMAIN m_pending_events : m_pending_events[i] = m_pending_events[j] => i = j
    BY DEF Thread, PendingOnce
  <1>2. Until(arrive) # 0 => /\ m_pending_events # << >> /\ m_pending_events' # << >>
                           /\ m_pending_events'[1] = m_pending_events[1]
                           /\ left'[m_pending_events[1]] = left[m_pending_events[1]]
    BY <1>1, EmplaceKeeps
  <1>3. /\ reset_pc'[LoopThread] = IF Until(arrive) = 0 THEN "copy" ELSE "none"
        /\ UNCHANGED <<timerfd, readable, copied>>
    <2>1. Until(arrive) \in Nat
      BY UntilSplits, Queue
    <2> QED
      BY <1>1, <2>1 DEF Emplace, TypeOK
  <1>4. CASE Until(arrive) = 0
    BY <1>3, <1>4 DEF Lone
  <1>5. CASE Until(arrive) # 0
    <2>1. Head(m_pending_events') = m_pending_events'[1]
      BY <1>2, <1>5, HeadIsFirst DEF TypeOK
    <2>2. Head(m_pending_events) = m_pending_events[1]
      BY <1>2, <1>5, HeadIsFirst
    <2> QED
      BY <1>2, <1>3, <1>5, <2>1, <2>2 DEF Lone, OnTime
  <1> QED
    BY <1>4, <1>5

LEMMA StepLone ==
  ASSUME Adder = {}, IInv, IInv', Lone, [Next]_vars
  PROVE  Lone'
  <1> USE DEF IInv, onTimerVars, resetVars
  <1>1. Thread = {LoopThread}
    BY DEF Thread
  <1>2. CASE Dispatch
    BY <1>2 DEF Dispatch, Lone, OnTime
  <1>3. CASE OnTimer
    BY <1>3 DEF OnTimer, Free, Lone
  <1>4. CASE RepeatNext
    <2>1. CASE Head(temp) \in Repeated
      <3> DEFINE e == Head(temp)
      <3>1. /\ Emplace(LoopThread, e, Interval[e]) /\ e \in TimerEvent /\ Interval[e] \in Nat
            /\ reset_pc[LoopThread] = "none" /\ UNCHANGED <<handler_queued, loop_pc>>
        BY <1>4, <2>1 DEF RepeatNext
      <3>2. \A i \in DOMAIN m_pending_events : m_pending_events[i] # e
        BY <1>4, Popped DEF RepeatNext, Collected, TypeOK, Pending, ToSet
      <3> HIDE DEF e
      <3> QED
        BY <3>1, <3>2, EmplaceIsOnTime
    <2>2. CASE Head(temp) \notin Repeated
      BY <1>4, <2>2 DEF RepeatNext, Lone
    <2> QED
      BY <2>1, <2>2
  <1>5. CASE RepeatDone
    BY <1>1, <1>5 DEF RepeatDone, Lone, TypeOK
  <1>6. CASE ResetDone
    BY <1>6 DEF ResetDone, Lone, OnTime
  <1>7. CASE CallNext \/ CallbackReturns \/ OnTimerReturns
    BY <1>7 DEF CallNext, CallbackReturns, OnTimerReturns, Lone, OnTime
  <1>8. ASSUME NEW t \in Thread, CopyPending(t) PROVE Lone'
    BY <1>1, <1>8 DEF CopyPending, Lone, TypeOK
  <1>9. ASSUME NEW t \in Thread, SetTime(t) PROVE Lone'
    <2>1. t = LoopThread /\ reset_pc[t] = "settime" /\ reset_pc'[t] = "none"
      BY <1>1, <1>9 DEF SetTime, TypeOK
    <2>2. /\ copied[t] = Head(m_pending_events) /\ left[Head(m_pending_events)] \in Nat
          /\ UNCHANGED <<m_pending_events, left>>
      BY <1>9, <2>1, HeadIsFirst DEF SetTime, Lone
    <2>3. timerfd' = IF left[Head(m_pending_events)] > 0 THEN left[Head(m_pending_events)] ELSE Retry
      BY <1>9, <2>2 DEF SetTime
    <2>4. timerfd' # Off /\ (timerfd' <= left[Head(m_pending_events)] \/ timerfd' <= Retry)
      BY <2>2, <2>3
    <2> QED
      BY <2>1, <2>2, <2>4 DEF Lone, OnTime
  <1>10. ASSUME NEW t \in Thread, NEW e \in TimerEvent, AddTimerEvent(t, e) PROVE Lone'
    <2>1. /\ t = LoopThread /\ Emplace(LoopThread, e, Interval[e]) /\ Interval[e] \in Nat
          /\ reset_pc[LoopThread] = "none" /\ UNCHANGED <<handler_queued, loop_pc>>
      BY <1>1, <1>10 DEF AddTimerEvent, Free
    <2>2. \A i \in DOMAIN m_pending_events : m_pending_events[i] # e
      BY <1>10 DEF AddTimerEvent, InUse, Pending, ToSet
    <2> QED
      BY <2>1, <2>2, EmplaceIsOnTime
  <1>11. ASSUME NEW e \in TimerEvent, DeleteTimerEvent(e) PROVE Lone'
    <2>1. /\ m_pending_events' = RemoveFirst(m_pending_events, e)
          /\ reset_pc[LoopThread] = "none" /\ loop_pc # "repeat"
          /\ UNCHANGED <<left, timerfd, readable, handler_queued, loop_pc, reset_pc, copied>>
      BY <1>11 DEF DeleteTimerEvent, Free
    <2>2. m_pending_events' # << >> =>
            m_pending_events # << >> /\ left[m_pending_events[1]] <= left[m_pending_events'[1]]
      BY <2>1, RemoveKeeps
    <2>3. CASE m_pending_events' = << >>
      BY <2>1, <2>3 DEF Lone
    <2>4. CASE m_pending_events' # << >>
      <3>1. Head(m_pending_events') = m_pending_events'[1] /\ left[m_pending_events'[1]] \in Nat
        <4>1. m_pending_events' \in Seq(TimerEvent)
          BY <2>1, RemoveKeeps
        <4>2. Head(m_pending_events') = m_pending_events'[1] /\ m_pending_events'[1] \in TimerEvent
          BY <2>4, <4>1
        <4> QED
          BY <4>2 DEF TypeOK
      <3>2. Head(m_pending_events) = m_pending_events[1] /\ left[m_pending_events[1]] \in Nat
        BY <2>2, <2>4, HeadIsFirst
      <3>3. timerfd # Off => timerfd \in Nat
        BY DEF TypeOK
      <3>4. OnTime
        BY <2>1, <2>2, <2>4 DEF Lone
      <3>5. timerfd # Off /\ timerfd <= left[Head(m_pending_events)]
              => timerfd' <= left'[Head(m_pending_events')]
        BY <2>1, <2>2, <2>4, <3>1, <3>2, <3>3
      <3>6. OnTime'
        <4>1. CASE readable \/ handler_queued
          BY <2>1, <4>1 DEF OnTime
        <4>2. CASE timerfd # Off /\ timerfd <= left[Head(m_pending_events)]
          BY <2>1, <3>5, <4>2 DEF OnTime
        <4>3. CASE timerfd # Off /\ timerfd <= Retry
          BY <2>1, <4>3 DEF OnTime
        <4> QED
          BY <3>4, <4>1, <4>2, <4>3 DEF OnTime
      <3> QED
        BY <2>1, <2>4, <3>6 DEF Lone
    <2> QED
      BY <2>3, <2>4
  <1>12. CASE Tick
    <2>1. UNCHANGED <<m_pending_events, handler_queued, loop_pc, reset_pc, copied>>
      BY <1>12 DEF Tick
    <2>2. m_pending_events # << >> =>
            /\ left[Head(m_pending_events)] \in Nat
            /\ left'[Head(m_pending_events)] =
                 IF left[Head(m_pending_events)] > 0 THEN left[Head(m_pending_events)] - 1 ELSE 0
      BY <1>12, HeadIsFirst DEF Tick
    <2>3. ASSUME m_pending_events # << >>, OnTime PROVE OnTime'
      <3>1. CASE readable \/ handler_queued
        <4>1. readable' = (readable \/ timerfd = 1) /\ handler_queued' = handler_queued
          BY <1>12, <2>1 DEF Tick
        <4>2. readable' \/ handler_queued'
          BY <3>1, <4>1, Zenon
        <4> QED
          BY <4>2, Zenon DEF OnTime
      <3>2. CASE timerfd = 1
        BY <1>12, <3>2 DEF Tick, OnTime
      <3>3. CASE /\ timerfd # Off /\ timerfd # 1
                 /\ timerfd <= left[Head(m_pending_events)] \/ timerfd <= Retry
        <4>1. timerfd \in Nat \ {0, 1} /\ timerfd' = timerfd - 1
          BY <1>12, <3>3 DEF Tick, TypeOK
        <4>2. timerfd' # Off /\ timerfd' \in Nat
          BY <4>1
        <4>3. timerfd' <= left'[Head(m_pending_events)] \/ timerfd' <= Retry
          BY <2>2, <2>3, <3>3, <4>1
        <4> QED
          BY <2>1, <4>2, <4>3 DEF OnTime
      <3> QED
        BY <2>3, <3>1, <3>2, <3>3 DEF OnTime
    <2> QED
      BY <2>1, <2>3 DEF Lone
  <1>13. CASE UNCHANGED vars
    BY <1>13 DEF vars, Lone, OnTime
  <1> QED
    BY <1>2, <1>3, <1>4, <1>5, <1>6, <1>7, <1>8, <1>9, <1>10, <1>11, <1>12, <1>13
       DEF Next, LoopStep, ResetStep

(* Whenever the loop may block, the timerfd expires in time for the first  *)
(* pending event, if no other thread adds events to the timer.             *)
THEOREM TimerfdInTime ==
  ASSUME Adder = {}
  PROVE  Spec => []Armed
  <1>1. Init => Lone
    BY DEF Init, Lone, Thread
  <1>2. IInv /\ IInv' /\ Lone /\ [Next]_vars => Lone'
    BY StepLone
  <1>3. Lone => Armed
    BY DEF Lone, OnTime, Armed, Thread
  <1> QED
    BY <1>1, <1>2, <1>3, Invariance, PTL DEF Spec
=============================================================================
