---------------------------- MODULE CoroutinePool ----------------------------
(***************************************************************************)
(* rocket::CoroutinePool (rocket/coroutine/coroutine_pool.{h,cpp}): the    *)
(* coroutines one thread hands out to its connections, in a vector of      *)
(* (coroutine, dispatched) pairs that grows when no coroutine is free.     *)
(*                                                                         *)
(* A coroutine is represented by its m_cor_id, the value that the thread's *)
(* t_cur_coroutine_id had when it was constructed.                         *)
(***************************************************************************)
EXTENDS Naturals

CONSTANTS
  Owner,       \* who asks for coroutines, one each: connections, tests
  PoolSize,    \* what GetCoroutinePool passes to the constructor (1000)
  FirstIndex,  \* getCoroutineIndex() when the pool is constructed
  MaxId,       \* bound: no coroutine beyond this id is constructed
  NoCor        \* an owner that holds none, a null shared_ptr

ASSUME PoolAssumption == PoolSize \in Nat /\ PoolSize >= 2
ASSUME IndexAssumption == FirstIndex \in Nat /\ MaxId \in Nat
ASSUME NoCorAssumption == NoCor \notin Nat

VARIABLES
  m_free_cors,         \* index -> coroutine (first) and dispatched flag (second)
  m_pool_size,
  t_cur_coroutine_id,  \* the id of the next coroutine of this thread
  in_cofunc,           \* coroutines inside their callback (m_is_in_cofunc)
  holds                \* the coroutine each owner was given and still holds

poolVars == <<m_free_cors, m_pool_size, t_cur_coroutine_id, in_cofunc, holds>>

(* Entries below m_index stay null: the main coroutine is not pooled. *)
m_index == IF FirstIndex = 0 THEN 1 ELSE FirstIndex

Entry == [first : Nat \cup {NoCor}, second : BOOLEAN]

PoolInit ==
  /\ m_free_cors = [i \in 0 .. PoolSize + m_index - 1 |->
                      [first |-> IF i < m_index THEN NoCor ELSE i, second |-> FALSE]]
  /\ m_pool_size = PoolSize
  /\ t_cur_coroutine_id = PoolSize + m_index
  /\ in_cofunc = {}
  /\ holds = [o \in Owner |-> NoCor]

(* Mutant: without the test of getIsInCoFunc. *)
DispatchableBusy == {i \in m_index .. m_pool_size - 1 : ~m_free_cors[i].second}

(* The entries that getCoroutineInstanse scans and may dispatch. *)
Dispatchable ==
  {i \in m_index .. m_pool_size - 1 :
     m_free_cors[i].first \notin in_cofunc /\ ~m_free_cors[i].second}

(* Mutant: the entry is given away and not marked. *)
DispatchUnmarked(o) ==
  /\ holds[o] = NoCor
  /\ \E i \in Dispatchable :
       /\ \A j \in Dispatchable : i <= j
       /\ holds' = [holds EXCEPT ![o] = m_free_cors[i].first]
  /\ UNCHANGED <<m_free_cors, m_pool_size, t_cur_coroutine_id, in_cofunc>>

(* getCoroutineInstanse finds a free entry. *)
Dispatch(o) ==
  /\ holds[o] = NoCor
  /\ \E i \in Dispatchable :
       /\ \A j \in Dispatchable : i <= j
       /\ m_free_cors' = [m_free_cors EXCEPT ![i].second = TRUE]
       /\ holds' = [holds EXCEPT ![o] = m_free_cors[i].first]
  /\ UNCHANGED <<m_pool_size, t_cur_coroutine_id, in_cofunc>>

(* Mutant: the new coroutines are only written over old entries. *)
GrownInPlace(k) ==
  [i \in DOMAIN m_free_cors |->
     IF i < k THEN [first |-> t_cur_coroutine_id + i, second |-> FALSE] ELSE m_free_cors[i]]

(* The vector after k new coroutines: each is written over one of the      *)
(* first k entries and then pushed to the end as well.                     *)
GrownPool(k) ==
  LET size   == m_pool_size + m_index
      new(i) == [first |-> t_cur_coroutine_id + i, second |-> FALSE]
  IN [i \in 0 .. size + k - 1 |->
        IF i < k THEN new(i) ELSE IF i < size THEN m_free_cors[i] ELSE new(i - size)]

(* (int)(1.5 * m_pool_size) *)
NewPoolSize == (3 * m_pool_size) \div 2

(* getCoroutineInstanse finds none: the pool grows, and the coroutine at   *)
(* the old size is given away with its flag left as it is.                 *)
Expand(o) ==
  /\ holds[o] = NoCor
  /\ Dispatchable = {}
  /\ t_cur_coroutine_id + (NewPoolSize - m_pool_size) <= MaxId
  /\ m_free_cors' = GrownPool(NewPoolSize - m_pool_size)
  /\ m_pool_size' = NewPoolSize
  /\ t_cur_coroutine_id' = t_cur_coroutine_id + (NewPoolSize - m_pool_size)
  /\ holds' = [holds EXCEPT ![o] = m_free_cors'[m_pool_size].first]
  /\ UNCHANGED in_cofunc

(* The owner sets the callback and resumes the coroutine. *)
Run(o) ==
  /\ holds[o] # NoCor
  /\ holds[o] \notin in_cofunc
  /\ in_cofunc' = in_cofunc \cup {holds[o]}
  /\ UNCHANGED <<m_free_cors, m_pool_size, t_cur_coroutine_id, holds>>

(* CoFunction: the callback returns. *)
Finish(cor) ==
  /\ cor \in in_cofunc
  /\ in_cofunc' = in_cofunc \ {cor}
  /\ UNCHANGED <<m_free_cors, m_pool_size, t_cur_coroutine_id, holds>>

(* returnCoroutine takes the id for the index; the coroutine may still be  *)
(* inside its callback.  Past the end of the vector the effect is          *)
(* undefined and not modelled.                                             *)
returnCoroutine(o) ==
  /\ holds[o] \in DOMAIN m_free_cors
  /\ m_free_cors' = [m_free_cors EXCEPT ![holds[o]].second = FALSE]
  /\ holds' = [holds EXCEPT ![o] = NoCor]
  /\ UNCHANGED <<m_pool_size, t_cur_coroutine_id, in_cofunc>>

(* The owner goes away and returns nothing, as connections do. *)
Drop(o) ==
  /\ holds[o] # NoCor
  /\ holds' = [holds EXCEPT ![o] = NoCor]
  /\ UNCHANGED <<m_free_cors, m_pool_size, t_cur_coroutine_id, in_cofunc>>

(* The thread constructs a coroutine of its own. *)
CreateElsewhere ==
  /\ t_cur_coroutine_id < MaxId
  /\ t_cur_coroutine_id' = t_cur_coroutine_id + 1
  /\ UNCHANGED <<m_free_cors, m_pool_size, in_cofunc, holds>>

PoolNext ==
  \/ \E o \in Owner : Dispatch(o) \/ Expand(o) \/ Run(o) \/ returnCoroutine(o) \/ Drop(o)
  \/ \E cor \in in_cofunc : Finish(cor)
  \/ CreateElsewhere

PoolSpec == PoolInit /\ [][PoolNext]_poolVars
-----------------------------------------------------------------------------
(* The size and the vector grow together, so that every index the pool     *)
(* uses, the one past the scan included, exists.                           *)
PoolTypeOK ==
  /\ m_pool_size \in Nat /\ m_pool_size >= PoolSize
  /\ m_free_cors \in [0 .. m_pool_size + m_index - 1 -> Entry]
  /\ t_cur_coroutine_id \in Nat
  /\ in_cofunc \subseteq Nat
  /\ holds \in [Owner -> Nat \cup {NoCor}]

(* coroutine_pool.h:30, a dispatched coroutine can't be dispatched: no two *)
(* owners hold the same one.                                               *)
HeldOnce ==
  \A o, p \in Owner : holds[o] = holds[p] /\ holds[o] # NoCor => o = p

(* Until it grows for the first time the pool keeps that promise, through  *)
(* any sequence of dispatches, runs and returns.                           *)
ExclusiveUntilGrown == m_pool_size = PoolSize => HeldOnce

(* Nor does it hand out, until then, a coroutine that is inside its        *)
(* callback: the owner's setCallBack would be refused.                     *)
GivenIdle ==
  [][\A o \in Owner : m_pool_size' = PoolSize /\ holds'[o] # holds[o] =>
        holds'[o] \notin in_cofunc]_poolVars
=============================================================================
