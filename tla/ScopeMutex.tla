----------------------------- MODULE ScopeMutex -----------------------------
(***************************************************************************)
(* rocket/common/mutex.h: the pthread mutex behind class Mutex and the     *)
(* guard template ScopeMutex.  A component that owns a mutex EXTENDS this  *)
(* module (or instantiates it, when it owns two) and uses the operators    *)
(* below for the constructor, the explicit unlock and the destructor of    *)
(* each guard.                                                             *)
(*                                                                         *)
(* unlock() never clears m_is_lock and the destructor does not read it, so *)
(* a guard that was unlocked explicitly unlocks a second time when its     *)
(* scope ends.  pthread_mutex_unlock of a default mutex does not look at   *)
(* its owner: whoever owns the mutex then has lost it.                     *)
(***************************************************************************)
CONSTANT NoOwner    \* the value of a mutex that nobody owns

VARIABLE m_mutex    \* the thread that owns the mutex, or NoOwner

(* The constructor blocks in pthread_mutex_lock until the mutex is free. *)
Construct(t) ==
  /\ m_mutex = NoOwner
  /\ m_mutex' = t

(* m_is_lock is TRUE from the constructor on: every call unlocks. *)
Unlock == m_mutex' = NoOwner

(* The end of the guard's scope unlocks, whether or not unlock() ran. *)
Destruct == m_mutex' = NoOwner
=============================================================================
