----------------------------- MODULE GrowthProofs -----------------------------
(***************************************************************************)
(* Proofs about the two vectors of the program that grow when they are too *)
(* small: FdEventGroup's, for any threads, descriptors and first size, and *)
(* CoroutinePool's, for any owners, first size and first index.            *)
(***************************************************************************)
EXTENDS FdEventGroup, CoroutinePool, SequenceTheorems, TLAPS

-----------------------------------------------------------------------------
(* FdEventGroup. *)

(* A thread in the table owns the mutex, and the other way round. *)
Ownership == \A t \in Thread : InTable(t) <=> m_mutex = t

(* Entry i + 1 is the FdEvent constructed for descriptor i, and a thread   *)
(* that grows the table constructs the next missing one.                   *)
Table ==
  /\ Len(m_fd_group) >= InitialSize
  /\ \A i \in 1 .. Len(m_fd_group) : m_fd_group[i] = i - 1
  /\ \A t \in Thread : pc[t] = "grow" => next[t] = Len(m_fd_group) /\ fd[t] >= InitialSize

IInv == TypeOK /\ Ownership /\ Table /\ EventOfItsFd

(* int(fd * 1.5) exceeds fd from 2 on: the reason for SizeAssumption. *)
LEMMA NewSizeSuffices == ASSUME NEW f \in Nat, f >= 2 PROVE f < NewSize(f) /\ NewSize(f) \in Nat
  BY DEF NewSize

LEMMA Arguments ==
  ASSUME TypeOK, NEW t \in Thread
  PROVE  /\ fd[t] \in Nat /\ next[t] \in Nat
         /\ Len(m_fd_group) \in Nat /\ DOMAIN m_fd_group = 1 .. Len(m_fd_group)
  <1>1. fd[t] \in Fd
    BY DEF TypeOK
  <1>2. fd[t] \in Nat
    BY <1>1, FdAssumption
  <1> QED
    BY <1>2 DEF TypeOK

(* Inside the table m_fd_group[fd] is the FdEvent of fd. *)
LEMMA EventAt ==
  ASSUME Table, NEW f \in Nat, Len(m_fd_group) \in Nat, f < Len(m_fd_group)
  PROVE  At(f) = f
  <1>1. f + 1 \in 1 .. Len(m_fd_group)
    OBVIOUS
  <1>2. m_fd_group[f + 1] = (f + 1) - 1
    BY <1>1 DEF Table
  <1> QED
    BY <1>2 DEF At

LEMMA InitIInv == Init => IInv
  <1> SUFFICES ASSUME Init PROVE IInv
    OBVIOUS
  <1> USE SizeAssumption, ThreadAssumption, EventAssumption
  <1>1. m_fd_group \in Seq(Nat) /\ Len(m_fd_group) = InitialSize
    BY DEF Init
  <1> QED
    BY <1>1 DEF Init, IInv, TypeOK, Pc, Ownership, InTable, Table, EventOfItsFd

LEMMA StepIInv == IInv /\ [Next]_vars => IInv'
  <1> SUFFICES ASSUME IInv, [Next]_vars PROVE IInv'
    OBVIOUS
  <1> USE SizeAssumption, ThreadAssumption, FdAssumption
  <1>1. ASSUME NEW t \in Thread, Call(t) PROVE IInv'
    BY <1>1 DEF Call, IInv, TypeOK, Pc, Ownership, InTable, Table, EventOfItsFd
  <1>2. ASSUME NEW t \in Thread, Lock(t) PROVE IInv'
    BY <1>2 DEF Lock, Construct, IInv, TypeOK, Pc, Ownership, InTable, Table, EventOfItsFd
  <1>3. ASSUME NEW t \in Thread, Found(t) PROVE IInv'
    <2>1. fd[t] \in Nat /\ fd[t] + 1 \in 1 .. Len(m_fd_group)
      BY <1>3, Arguments DEF Found, IInv
    <2>2. At(fd[t]) = fd[t]
      BY <1>3, <2>1, EventAt, Arguments DEF Found, IInv
    <2>3. EventOfItsFd' /\ TypeOK'
      BY <1>3, <2>1, <2>2 DEF Found, IInv, EventOfItsFd, TypeOK, Pc
    <2> QED
      BY <1>3, <2>3 DEF Found, IInv, TypeOK, Ownership, InTable, Table
  <1>4. ASSUME NEW t \in Thread, NotFound(t) PROVE IInv'
    <2>1. Len(m_fd_group) \in Nat /\ fd[t] \in Nat /\ fd[t] >= InitialSize
      BY <1>4, Arguments DEF NotFound, IInv, Table
    <2>2. TypeOK' /\ Ownership' /\ EventOfItsFd'
      BY <1>4, <2>1 DEF NotFound, IInv, TypeOK, Pc, Ownership, InTable, EventOfItsFd
    <2>3. Table'
      BY <1>4, <2>1 DEF NotFound, IInv, TypeOK, Table
    <2> QED
      BY <2>2, <2>3 DEF IInv
  <1>5. ASSUME NEW t \in Thread, Grow(t) PROVE IInv'
    <2> USE DEF Grow
    <2>1. TypeOK'
      BY <1>5 DEF IInv, TypeOK, Pc
    <2>2. Ownership'
      BY <1>5 DEF IInv, Ownership, InTable
    <2>3. next[t] = Len(m_fd_group) /\ m_fd_group \in Seq(Nat)
      BY <1>5 DEF IInv, Table, TypeOK
    <2>4. \A u \in Thread : pc'[u] = "grow" => u = t
      BY <1>5 DEF IInv, Ownership, InTable
    <2>5. Table'
      <3>1. /\ m_fd_group' = Append(m_fd_group, next[t])
            /\ Len(m_fd_group') = Len(m_fd_group) + 1 /\ Len(m_fd_group) \in Nat
        BY <1>5, <2>3
      <3>2. \A i \in 1 .. Len(m_fd_group') : m_fd_group'[i] = i - 1
        <4> SUFFICES ASSUME NEW i \in 1 .. Len(m_fd_group) + 1 PROVE m_fd_group'[i] = i - 1
          BY <3>1
        <4>1. CASE i \in 1 .. Len(m_fd_group)
          <5>1. m_fd_group'[i] = m_fd_group[i]
            BY <4>1, <3>1, <2>3
          <5> QED
            BY <5>1, <4>1 DEF IInv, Table
        <4>2. CASE i = Len(m_fd_group) + 1
          <5>1. m_fd_group'[i] = next[t]
            BY <4>2, <3>1, <2>3
          <5> QED
            BY <5>1, <4>2, <3>1, <2>3
        <4> QED
          BY <4>1, <4>2, <3>1
      <3>3. next'[t] = Len(m_fd_group') /\ fd'[t] = fd[t] /\ fd[t] >= InitialSize
        BY <1>5, <3>1, <2>3 DEF IInv, Table, TypeOK
      <3>4. ASSUME NEW u \in Thread, pc'[u] = "grow"
            PROVE  next'[u] = Len(m_fd_group') /\ fd'[u] >= InitialSize
        BY <3>3, <3>4, <2>4
      <3>5. Len(m_fd_group') >= InitialSize
        BY <3>1 DEF IInv, Table
      <3> QED
        BY <3>2, <3>4, <3>5 DEF Table
    <2>6. EventOfItsFd'
      BY <1>5 DEF IInv, EventOfItsFd
    <2> QED
      BY <2>1, <2>2, <2>5, <2>6 DEF IInv
  <1>6. ASSUME NEW t \in Thread, Grown(t) PROVE IInv'
    <2> USE DEF Grown
    <2>1. fd[t] \in Nat /\ fd[t] >= 2 /\ next[t] = Len(m_fd_group)
      BY <1>6, Arguments DEF IInv, Table
    <2>2. fd[t] < Len(m_fd_group) /\ Len(m_fd_group) \in Nat
      BY <1>6, <2>1, NewSizeSuffices, Arguments DEF IInv
    <2>3. At(fd[t]) = fd[t]
      BY <2>1, <2>2, EventAt DEF IInv
    <2>4. TypeOK' /\ Ownership' /\ EventOfItsFd'
      BY <1>6, <2>1, <2>3 DEF IInv, TypeOK, Pc, Ownership, InTable, EventOfItsFd
    <2>5. Table'
      BY <1>6 DEF IInv, TypeOK, Table
    <2> QED
      BY <2>4, <2>5 DEF IInv
  <1>7. ASSUME NEW t \in Thread, Return(t) PROVE IInv'
    BY <1>7 DEF Return, Destruct, IInv, TypeOK, Pc, Ownership, InTable, Table, EventOfItsFd
  <1>8. CASE UNCHANGED vars
    BY <1>8 DEF vars, IInv, TypeOK, Ownership, InTable, Table, EventOfItsFd
  <1> QED
    BY <1>1, <1>2, <1>3, <1>4, <1>5, <1>6, <1>7, <1>8 DEF Next

LEMMA Invariance == Spec => []IInv
  BY InitIInv, StepIInv, PTL DEF Spec

(* The variables of the group and of its callers keep their types. *)
THEOREM TypeCorrect == Spec => []TypeOK
  <1>1. IInv => TypeOK
    BY DEF IInv
  <1> QED
    BY Invariance, <1>1, PTL

(* A guard released by its scope alone excludes: mutual exclusion in       *)
(* getFdEvent for any number of threads.                                   *)
THEOREM MutualExclusion == Spec => []Exclusive
  <1>1. IInv => Exclusive
    BY DEF IInv, Ownership, Exclusive
  <1> QED
    BY Invariance, <1>1, PTL

(* getFdEvent returns the FdEvent of its argument, however the table grew. *)
THEOREM RightEvent == Spec => []EventOfItsFd
  <1>1. IInv => EventOfItsFd
    BY DEF IInv
  <1> QED
    BY Invariance, <1>1, PTL

-----------------------------------------------------------------------------
(* CoroutinePool. *)

(* While the pool has its first size, entry i holds coroutine i, and what  *)
(* an owner holds is a flagged entry of the scanned range.                 *)
FirstSize ==
  /\ \A i \in m_index .. PoolSize + m_index - 1 : m_free_cors[i].first = i
  /\ \A o \in Owner : holds[o] # NoCor =>
       /\ holds[o] \in m_index .. PoolSize - 1
       /\ m_free_cors[holds[o]].second
  /\ HeldOnce

PoolIInv == PoolTypeOK /\ (m_pool_size = PoolSize => FirstSize)

LEMMA IndexType == m_index \in Nat /\ m_index >= 1 /\ PoolSize \in Nat
  BY IndexAssumption, PoolAssumption DEF m_index

(* From 2 on every growth makes the pool larger. *)
LEMMA NewPoolSizeGrows ==
  ASSUME PoolTypeOK
  PROVE  /\ NewPoolSize \in Nat /\ NewPoolSize > m_pool_size /\ NewPoolSize - m_pool_size \in Nat
         /\ NewPoolSize - m_pool_size <= m_pool_size
  BY PoolAssumption DEF PoolTypeOK, NewPoolSize

LEMMA InitPoolIInv == PoolInit => PoolIInv
  <1> SUFFICES ASSUME PoolInit PROVE PoolIInv
    OBVIOUS
  <1> USE IndexType, NoCorAssumption DEF PoolInit
  <1>1. m_free_cors \in [0 .. m_pool_size + m_index - 1 -> Entry]
    BY DEF Entry
  <1>2. PoolTypeOK
    BY <1>1 DEF PoolTypeOK
  <1>3. FirstSize
    BY DEF FirstSize, HeldOnce
  <1> QED
    BY <1>2, <1>3 DEF PoolIInv

LEMMA DispatchStep ==
  ASSUME PoolIInv, NEW o \in Owner, Dispatch(o) PROVE PoolIInv'
  <1> USE IndexType
  <1>1. PICK i \in Dispatchable :
          /\ m_free_cors' = [m_free_cors EXCEPT ![i].second = TRUE]
          /\ holds' = [holds EXCEPT ![o] = m_free_cors[i].first]
    BY DEF Dispatch
  <1>2. /\ i \in m_index .. m_pool_size - 1 /\ ~m_free_cors[i].second
        /\ m_pool_size \in Nat /\ i \in 0 .. m_pool_size + m_index - 1
        /\ m_free_cors[i] \in Entry
    BY DEF Dispatchable, PoolIInv, PoolTypeOK
  <1>3. PoolTypeOK'
    BY <1>1, <1>2 DEF Dispatch, PoolIInv, PoolTypeOK, Entry
  <1>4. ASSUME m_pool_size = PoolSize PROVE FirstSize'
    <2>1. FirstSize /\ m_free_cors[i].first = i
      BY <1>2, <1>4 DEF PoolIInv, FirstSize
    <2>2. \A p \in Owner : holds[p] # i
      BY <1>2, <2>1, NoCorAssumption DEF FirstSize
    <2>3. \A j \in m_index .. PoolSize + m_index - 1 : m_free_cors'[j].first = j
      BY <1>1, <1>2, <1>4, <2>1 DEF PoolIInv, PoolTypeOK, Entry, FirstSize
    <2>4. \A p \in Owner : holds'[p] # NoCor =>
            holds'[p] \in m_index .. PoolSize - 1 /\ m_free_cors'[holds'[p]].second
      BY <1>1, <1>2, <1>4, <2>1 DEF PoolIInv, PoolTypeOK, Entry, FirstSize
    <2>5. HeldOnce'
      BY <1>1, <2>1, <2>2 DEF FirstSize, HeldOnce, PoolIInv, PoolTypeOK
    <2> QED
      BY <2>3, <2>4, <2>5 DEF FirstSize
  <1> QED
    BY <1>3, <1>4 DEF PoolIInv, Dispatch

LEMMA ExpandStep ==
  ASSUME PoolIInv, NEW o \in Owner, Expand(o) PROVE PoolIInv'
  <1> USE IndexType
  <1> DEFINE k == NewPoolSize - m_pool_size
             size == m_pool_size + m_index
             new(i) == [first |-> t_cur_coroutine_id + i, second |-> FALSE]
  <1>1. /\ PoolTypeOK /\ NewPoolSize \in Nat /\ NewPoolSize > m_pool_size /\ k \in Nat
        /\ m_pool_size \in Nat /\ size \in Nat /\ m_pool_size < size
    BY NewPoolSizeGrows DEF PoolIInv, PoolTypeOK
  <1>2. m_pool_size' = NewPoolSize /\ m_pool_size' > PoolSize
    BY <1>1 DEF Expand, PoolTypeOK
  <1>3. /\ m_free_cors' = [i \in 0 .. size + k - 1 |->
             IF i < k THEN new(i) ELSE IF i < size THEN m_free_cors[i] ELSE new(i - size)]
        /\ holds' = [holds EXCEPT ![o] = m_free_cors'[m_pool_size].first]
    BY DEF Expand, GrownPool
  <1>4. \A i \in Nat : new(i) \in Entry
    BY DEF PoolIInv, PoolTypeOK, Entry
  <1>5. m_free_cors' \in [0 .. size + k - 1 -> Entry]
    <2>1. ASSUME NEW i \in 0 .. size + k - 1, ~(i < k), i < size
          PROVE  m_free_cors[i] \in Entry
      BY <2>1, <1>1 DEF PoolTypeOK
    <2>2. ASSUME NEW i \in 0 .. size + k - 1, ~(i < size)
          PROVE  new(i - size) \in Entry
      BY <2>2, <1>1, <1>4
    <2> HIDE DEF new, k, size
    <2> QED
      BY <1>3, <1>4, <2>1, <2>2
  <1>6. 0 .. size + k - 1 = 0 .. m_pool_size' + m_index - 1
    BY <1>1, <1>2
  <1>7. m_free_cors'[m_pool_size].first \in Nat \cup {NoCor}
    BY <1>1, <1>5 DEF Entry
  <1>8. PoolTypeOK'
    BY <1>1, <1>2, <1>3, <1>5, <1>6, <1>7 DEF Expand, PoolTypeOK
  <1> QED
    BY <1>2, <1>8, IndexType DEF PoolIInv

LEMMA ReturnStep ==
  ASSUME PoolIInv, NEW o \in Owner, returnCoroutine(o) PROVE PoolIInv'
  <1> USE IndexType, NoCorAssumption
  <1> DEFINE c == holds[o]
  <1>1. /\ c \in 0 .. m_pool_size + m_index - 1 /\ m_free_cors[c] \in Entry
        /\ m_free_cors' = [m_free_cors EXCEPT ![c].second = FALSE]
        /\ holds' = [holds EXCEPT ![o] = NoCor] /\ c # NoCor
    BY DEF returnCoroutine, PoolIInv, PoolTypeOK
  <1>2. PoolTypeOK'
    <2>1. [m_free_cors[c] EXCEPT !.second = FALSE] \in Entry
      BY <1>1 DEF Entry
    <2>2. m_free_cors' \in [0 .. m_pool_size + m_index - 1 -> Entry]
      BY <1>1, <2>1 DEF PoolIInv, PoolTypeOK
    <2> QED
      BY <1>1, <2>2 DEF returnCoroutine, PoolIInv, PoolTypeOK
  <1>3. ASSUME m_pool_size = PoolSize PROVE FirstSize'
    <2>1. FirstSize
      BY <1>3 DEF PoolIInv
    <2>2. \A p \in Owner : holds'[p] # NoCor => p # o /\ holds'[p] = holds[p] /\ holds[p] # c
      BY <1>1, <2>1 DEF FirstSize, HeldOnce, PoolIInv, PoolTypeOK
    <2>3. \A j \in m_index .. PoolSize + m_index - 1 : m_free_cors'[j].first = j
      BY <1>1, <1>3, <2>1 DEF PoolIInv, PoolTypeOK, Entry, FirstSize
    <2>4. \A p \in Owner : holds'[p] # NoCor =>
            holds'[p] \in m_index .. PoolSize - 1 /\ m_free_cors'[holds'[p]].second
      BY <1>1, <1>3, <2>1, <2>2 DEF PoolIInv, PoolTypeOK, Entry, FirstSize
    <2>5. HeldOnce'
      BY <2>1, <2>2 DEF FirstSize, HeldOnce
    <2> QED
      BY <2>3, <2>4, <2>5 DEF FirstSize
  <1> QED
    BY <1>2, <1>3 DEF PoolIInv, returnCoroutine

LEMMA OtherSteps ==
  ASSUME PoolIInv,
         \/ \E o \in Owner : Run(o) \/ Drop(o)
         \/ \E cor \in in_cofunc : Finish(cor)
         \/ CreateElsewhere \/ UNCHANGED poolVars
  PROVE  PoolIInv'
  <1> USE DEF PoolIInv, PoolTypeOK, FirstSize, HeldOnce
  <1>1. ASSUME NEW o \in Owner, Run(o) PROVE PoolIInv'
    BY <1>1 DEF Run
  <1>2. ASSUME NEW o \in Owner, Drop(o) PROVE PoolIInv'
    BY <1>2 DEF Drop
  <1>3. ASSUME NEW cor \in in_cofunc, Finish(cor) PROVE PoolIInv'
    BY <1>3 DEF Finish
  <1>4. CASE CreateElsewhere
    BY <1>4 DEF CreateElsewhere
  <1>5. CASE UNCHANGED poolVars
    BY <1>5 DEF poolVars
  <1> QED
    BY <1>1, <1>2, <1>3, <1>4, <1>5

LEMMA PoolInvariance == PoolSpec => []PoolIInv
  <1>1. PoolIInv /\ [PoolNext]_poolVars => PoolIInv'
    BY DispatchStep, ExpandStep, ReturnStep, OtherSteps DEF PoolNext
  <1> QED
    BY InitPoolIInv, <1>1, PTL DEF PoolSpec
-----------------------------------------------------------------------------
(* The vector is always as long as the pool's size says: the scan and the  *)
(* index at the old size are inside it, however often the pool grew.       *)
THEOREM PoolTypeCorrect == PoolSpec => []PoolTypeOK
  <1>1. PoolIInv => PoolTypeOK
    BY DEF PoolIInv
  <1> QED
    BY PoolInvariance, <1>1, PTL

(* Until its first growth the pool gives no coroutine to two owners.       *)
THEOREM ExclusiveDispatch == PoolSpec => []ExclusiveUntilGrown
  <1>1. PoolIInv => ExclusiveUntilGrown
    BY DEF PoolIInv, FirstSize, ExclusiveUntilGrown
  <1> QED
    BY PoolInvariance, <1>1, PTL

LEMMA GivenIdleStep ==
  PoolIInv /\ [PoolNext]_poolVars =>
    [\A o \in Owner : m_pool_size' = PoolSize /\ holds'[o] # holds[o] =>
       holds'[o] \notin in_cofunc]_poolVars
  <1> SUFFICES ASSUME PoolIInv, PoolNext, NEW o \in Owner,
                      m_pool_size' = PoolSize, holds'[o] # holds[o]
               PROVE  holds'[o] \notin in_cofunc
    BY DEF poolVars
  <1> USE DEF PoolIInv, PoolTypeOK
  <1>1. ASSUME NEW p \in Owner, Dispatch(p) PROVE holds'[o] \notin in_cofunc
    BY <1>1 DEF Dispatch, Dispatchable
  <1>2. ASSUME NEW p \in Owner, Expand(p) PROVE FALSE
    BY <1>2, NewPoolSizeGrows, PoolAssumption DEF Expand
  <1>3. ASSUME NEW p \in Owner, returnCoroutine(p) \/ Drop(p) PROVE holds'[o] \notin in_cofunc
    BY <1>3, NoCorAssumption DEF returnCoroutine, Drop
  <1>4. CASE \/ \E p \in Owner : Run(p)
             \/ \E cor \in in_cofunc : Finish(cor)
             \/ CreateElsewhere
    BY <1>4 DEF Run, Finish, CreateElsewhere
  <1> QED
    BY <1>1, <1>2, <1>3, <1>4 DEF PoolNext

(* Until then, too, no owner is given a coroutine inside its callback.     *)
THEOREM IdleDispatch == PoolSpec => GivenIdle
  BY PoolInvariance, GivenIdleStep, PTL DEF PoolSpec, GivenIdle
=============================================================================
