----------------------------- MODULE FdEventGroup -----------------------------
(***************************************************************************)
(* rocket::FdEventGroup (rocket/net/fd_event_group.{h,cpp}): the table of  *)
(* FdEvent objects indexed by descriptor, shared by every thread of the    *)
(* process and grown on demand under a guard that only its scope releases. *)
(*                                                                         *)
(* An FdEvent is represented by the descriptor it was constructed with.    *)
(***************************************************************************)
EXTENDS ScopeMutex, Naturals, Sequences

CONSTANTS
  Thread,       \* the threads that call getFdEvent
  Fd,           \* the descriptors they ask for
  InitialSize,  \* what GetFdEventGroup passes to the constructor (128)
  NoEvent,      \* a thread that was given nothing yet
  OutOfBounds   \* what m_fd_group[fd] yields past the end: no FdEvent

ASSUME ThreadAssumption == NoOwner \notin Thread
ASSUME FdAssumption == Fd \subseteq Nat
ASSUME SizeAssumption == InitialSize \in Nat /\ InitialSize >= 2
ASSUME EventAssumption == NoEvent \notin Nat /\ OutOfBounds \notin Nat

VARIABLES
  m_fd_group,   \* the table: entry fd + 1 belongs to descriptor fd
  pc,           \* where each thread is in getFdEvent
  fd,           \* its argument
  next,         \* its loop counter i: the FdEvent it constructs next
  result        \* what it was given

vars == <<m_mutex, m_fd_group, pc, fd, next, result>>

Pc == {"idle", "lock", "check", "grow", "unlock"}

Init ==
  /\ m_mutex = NoOwner
  /\ m_fd_group = [i \in 1 .. InitialSize |-> i - 1]
  /\ pc = [t \in Thread |-> "idle"]
  /\ fd \in [Thread -> Fd]
  /\ next = [t \in Thread |-> 0]
  /\ result = [t \in Thread |-> NoEvent]

(* Mutant: the table grows up to fd only. *)
NewSizeExact(f) == f

(* int(fd * 1.5) *)
NewSize(f) == (3 * f) \div 2

(* operator[] of the vector checks nothing. *)
At(f) == IF f < Len(m_fd_group) THEN m_fd_group[f + 1] ELSE OutOfBounds

Call(t) ==
  /\ pc[t] = "idle"
  /\ \E f \in Fd : fd' = [fd EXCEPT ![t] = f]
  /\ pc' = [pc EXCEPT ![t] = "lock"]
  /\ result' = [result EXCEPT ![t] = NoEvent]
  /\ UNCHANGED <<m_mutex, m_fd_group, next>>

Lock(t) ==
  /\ pc[t] = "lock"
  /\ Construct(t)
  /\ pc' = [pc EXCEPT ![t] = "check"]
  /\ UNCHANGED <<m_fd_group, fd, next, result>>

Found(t) ==
  /\ pc[t] = "check"
  /\ fd[t] < Len(m_fd_group)
  /\ result' = [result EXCEPT ![t] = At(fd[t])]
  /\ pc' = [pc EXCEPT ![t] = "unlock"]
  /\ UNCHANGED <<m_mutex, m_fd_group, fd, next>>

(* Mutant: the guard is unlocked while the new events are constructed. *)
NotFoundUnlocked(t) ==
  /\ pc[t] = "check"
  /\ fd[t] >= Len(m_fd_group)
  /\ Unlock
  /\ next' = [next EXCEPT ![t] = Len(m_fd_group)]
  /\ pc' = [pc EXCEPT ![t] = "grow"]
  /\ UNCHANGED <<m_fd_group, fd, result>>

NotFound(t) ==
  /\ pc[t] = "check"
  /\ fd[t] >= Len(m_fd_group)
  /\ next' = [next EXCEPT ![t] = Len(m_fd_group)]
  /\ pc' = [pc EXCEPT ![t] = "grow"]
  /\ UNCHANGED <<m_mutex, m_fd_group, fd, result>>

(* Mutant: the table is resized, and nothing constructed in the new entries. *)
GrowEmpty(t) ==
  /\ pc[t] = "grow"
  /\ next[t] < NewSize(fd[t])
  /\ m_fd_group' = Append(m_fd_group, NoEvent)
  /\ next' = [next EXCEPT ![t] = next[t] + 1]
  /\ UNCHANGED <<m_mutex, pc, fd, result>>

(* One turn of the loop: push_back(new FdEvent(i)). *)
Grow(t) ==
  /\ pc[t] = "grow"
  /\ next[t] < NewSize(fd[t])
  /\ m_fd_group' = Append(m_fd_group, next[t])
  /\ next' = [next EXCEPT ![t] = next[t] + 1]
  /\ UNCHANGED <<m_mutex, pc, fd, result>>

Grown(t) ==
  /\ pc[t] = "grow"
  /\ next[t] >= NewSize(fd[t])
  /\ result' = [result EXCEPT ![t] = At(fd[t])]
  /\ pc' = [pc EXCEPT ![t] = "unlock"]
  /\ UNCHANGED <<m_mutex, m_fd_group, fd, next>>

(* The guard goes out of scope when the function returns. *)
Return(t) ==
  /\ pc[t] = "unlock"
  /\ Destruct
  /\ pc' = [pc EXCEPT ![t] = "idle"]
  /\ UNCHANGED <<m_fd_group, fd, next, result>>

Next ==
  \E t \in Thread :
    \/ Call(t) \/ Lock(t) \/ Found(t) \/ NotFound(t)
    \/ Grow(t) \/ Grown(t) \/ Return(t)

Spec == Init /\ [][Next]_vars
-----------------------------------------------------------------------------
TypeOK ==
  /\ m_mutex \in Thread \cup {NoOwner}
  /\ m_fd_group \in Seq(Nat)
  /\ pc \in [Thread -> Pc]
  /\ fd \in [Thread -> Fd]
  /\ next \in [Thread -> Nat]
  /\ result \in [Thread -> Nat \cup {NoEvent, OutOfBounds}]

InTable(t) == pc[t] \in {"check", "grow", "unlock"}

(* fd_event_group.cpp:33, a guard on the stack needs no unlock: two        *)
(* threads are never in the table together.                                *)
Exclusive == \A t, u \in Thread : InTable(t) /\ InTable(u) => t = u

(* Whoever asks, while others make the table grow, is given the FdEvent of *)
(* the descriptor it asked for and nothing past the end of the table.      *)
EventOfItsFd == \A t \in Thread : result[t] \in {NoEvent, fd[t]}
=============================================================================
