--------------------------- MODULE TcpServerProofs ---------------------------
(***************************************************************************)
(* The safety of TcpServer for every number of IO threads, clients and     *)
(* descriptors: its invariants follow from the inductive IInv.             *)
(***************************************************************************)
EXTENDS TcpServer, FiniteSetTheorems, FunctionTheorems, TLAPS

USE IoThreadsAssumption, ClientAssumption

-----------------------------------------------------------------------------
(* Queues.                                                                 *)

LEMMA AppendAt ==
  ASSUME NEW S, NEW s \in Seq(S), NEW e \in S
  PROVE  /\ Append(s, e) \in Seq(S) /\ DOMAIN Append(s, e) = 1 .. Len(s) + 1
         /\ \A k \in DOMAIN s : Append(s, e)[k] = s[k]
         /\ Append(s, e)[Len(s) + 1] = e
         /\ Len(s) \in Nat /\ DOMAIN s = 1 .. Len(s)
  OBVIOUS

LEMMA TailAt ==
  ASSUME NEW S, NEW s \in Seq(S), s # <<>>
  PROVE  /\ Tail(s) \in Seq(S) /\ DOMAIN Tail(s) = 1 .. Len(s) - 1
         /\ \A k \in DOMAIN Tail(s) : Tail(s)[k] = s[k + 1] /\ k + 1 \in DOMAIN s
         /\ Head(s) = s[1] /\ s[1] \in S
         /\ Len(s) \in Nat \ {0} /\ DOMAIN s = 1 .. Len(s) /\ 1 \in DOMAIN s
  OBVIOUS

-----------------------------------------------------------------------------
(* The parts of the invariant.                                             *)

(* The threads from here on are not created yet. *)
NotCreated(i) == \/ main_pc = "create" /\ i >= turn
                 \/ main_pc = "init_wait" /\ i > turn

(* A thread that its constructor has waited for has its loop, and no       *)
(* client is accepted before that.                                         *)
Ready ==
  /\ accept_pc # "none" <=> main_pc \in {"start", "loop"}
  /\ main_pc \in {"start", "loop"} => \A i \in Io : m_event_loop[i]
  /\ \A i \in Io : i < turn => m_event_loop[i]
  /\ \A i \in Io : m_init_semaphore[i] > 0 => m_event_loop[i]
  /\ \A i \in Io : io_pc[i] \notin {"none", "main"} => m_event_loop[i]
  /\ \A i \in Io : NotCreated(i) => io_pc[i] = "none"

(* Before there is a group, no thread has anything to do that needs it.    *)
Grouped ==
  /\ groups \in {0, 1}
  /\ groups = 0 => /\ accept_pc \in {"none", "group", "new_group"}
                   /\ \A i \in Io : pending_tasks[i] = <<>> /\ ~Constructing(i)
  /\ groups = 1 => /\ accept_pc # "new_group"
                   /\ \A i \in Io : io_pc[i] # "new_group"

Pos == Nat \ {0}        \* places in a queue

(* Where a client can be. *)
Kept(c) == accept_pc = "dispatch" /\ client_fd = c
Queued(i, k, c) == k \in DOMAIN pending_tasks[i] /\ pending_tasks[i][k] = <<"client", c>>
Held(i, c) == c \in m_clients[i] \/ (Constructing(i) /\ io_fd[i] = c)

(* An accepted client is somewhere, no other is anywhere ... *)
Placed ==
  /\ \A c \in accepted : c \notin outside /\ c \notin backlog
  /\ \A c \in backlog : c \notin outside
  /\ \A c \in Client \ accepted :
       ~Kept(c) /\ \A i \in Io : ~Held(i, c) /\ \A k \in Pos : ~Queued(i, k, c)
  /\ \A c \in accepted :
       Kept(c) \/ \E i \in Io : Held(i, c) \/ \E k \in Pos : Queued(i, k, c)

(* ... and in one place. *)
Apart ==
  /\ \A c \in Client, i \in Io : Kept(c) => ~Held(i, c) /\ \A k \in Pos : ~Queued(i, k, c)
  /\ \A c \in Client, i, j \in Io :
       Held(i, c) => (Held(j, c) => i = j) /\ \A k \in Pos : ~Queued(j, k, c)
  /\ \A c \in Client, i, j \in Io, k, l \in Pos :
       Queued(i, k, c) /\ Queued(j, l, c) => i = j /\ k = l

(* A coroutine is of the pool of the thread that has its connection. *)
Owned ==
  /\ \A c \in Client : pool[c] = {i \in Io : c \in m_clients[i]}
  /\ \A i \in Io : served[i] \subseteq m_clients[i]
  /\ \A i \in Io : \A k \in DOMAIN pending_tasks[i] :
       pending_tasks[i][k][1] = "resume" => pending_tasks[i][k][2] \in m_clients[i]

IInv == TypeOK /\ Ready /\ Grouped /\ Placed /\ Apart /\ Owned

LEMMA InitIInv == Init => IInv
  <1> SUFFICES ASSUME Init PROVE IInv
    OBVIOUS
  <1> USE DEF Init
  <1>1. TypeOK
    <2>1. pending_tasks \in [Io -> Seq(Task)]
      OBVIOUS
    <2>2. pool \in [Client -> SUBSET (0 .. IoThreads)] /\ turn \in 0 .. IoThreads /\ m_index \in 0 .. IoThreads
      OBVIOUS
    <2>3. m_clients \in [Io -> SUBSET Client] /\ served \in [Io -> SUBSET Client]
      OBVIOUS
    <2>4. /\ m_init_semaphore \in [Io -> Nat] /\ m_start_semaphore \in [Io -> Nat]
          /\ m_event_loop \in [Io -> BOOLEAN]
      OBVIOUS
    <2> QED
      BY <2>1, <2>2, <2>3, <2>4 DEF TypeOK
  <1>2. Ready /\ Grouped
    BY DEF Ready, NotCreated, Grouped, Constructing, Io
  <1>3. \A c \in Client :
          ~Kept(c) /\ \A i \in Io : ~Held(i, c) /\ \A k \in Pos : ~Queued(i, k, c)
    BY DEF Kept, Queued, Held, Constructing
  <1>4. Placed
    <2>1. accepted = {} /\ backlog = {}
      OBVIOUS
    <2> HIDE DEF Init
    <2> QED
      BY <1>3, <2>1 DEF Placed
  <1>5. Apart
    BY <1>3 DEF Apart
  <1>6. Owned
    BY DEF Owned
  <1> QED
    BY <1>1, <1>2, <1>4, <1>5, <1>6 DEF IInv

-----------------------------------------------------------------------------
(* Steps that move no client keep the parts about clients.                 *)

Still ==
  /\ UNCHANGED <<pending_tasks, pool, m_clients, served, outside, backlog, accepted>>
  /\ \A c \in Client : Kept(c)' <=> Kept(c)
  /\ \A i \in Io, c \in Client : Held(i, c)' <=> Held(i, c)

LEMMA StillPlaces ==
  ASSUME TypeOK, Placed, Apart, Owned, Still
  PROVE  Placed' /\ Apart' /\ Owned'
  <1>1. \A i \in Io, c \in Client, k \in Pos : Queued(i, k, c)' <=> Queued(i, k, c)
    BY DEF Still, Queued
  <1>2. Placed'
    <2>1. accepted \subseteq Client
      BY DEF TypeOK
    <2> QED
      BY <1>1, <2>1 DEF Still, Placed
  <1>3. Apart'
    BY <1>1 DEF Still, Apart
  <1>4. Owned'
    BY DEF Still, Owned
  <1> QED
    BY <1>2, <1>3, <1>4

-----------------------------------------------------------------------------
(* Every step keeps the types and the order of starting.                   *)

LEMMA StepTypeOK == IInv /\ [Next]_vars => TypeOK'
  <1> SUFFICES ASSUME IInv, [Next]_vars PROVE TypeOK'
    OBVIOUS
  <1> USE DEF IInv, main_vars, accept_vars, io_vars, semaphores
  <1>1. CASE CreateThread
    BY <1>1 DEF CreateThread, TypeOK, InMain, Io
  <1>2. CASE InitWaited
    <2>1. turn \in Io /\ turn + 1 \in 0 .. IoThreads
      BY <1>2 DEF InitWaited, TypeOK, Io
    <2>2. m_init_semaphore' \in [Io -> Nat]
      BY <1>2, <2>1 DEF InitWaited, TypeOK
    <2> QED
      BY <1>2, <2>1, <2>2 DEF InitWaited, TypeOK
  <1>3. CASE ResumeAccept
    BY <1>3 DEF ResumeAccept, TypeOK, InMain
  <1>4. CASE StartThread
    <2>1. turn \in Io /\ turn + 1 \in 0 .. IoThreads
      BY <1>4 DEF StartThread, TypeOK, Io
    <2>2. m_start_semaphore' \in [Io -> Nat]
      BY <1>4, <2>1 DEF StartThread, TypeOK
    <2> QED
      BY <1>4, <2>1, <2>2 DEF StartThread, TypeOK, InMain
  <1>5. CASE StartLoop
    BY <1>5 DEF StartLoop, TypeOK, InMain
  <1>6. CASE EpollWait \/ RunHandler
    BY <1>6 DEF EpollWait, RunHandler, TypeOK, InMain
  <1>7. CASE FindGroup \/ CreateGroup
    <2>1. groups' \in Nat /\ accept_pc' \in {"new_group", "accept"}
      BY <1>7 DEF FindGroup, CreateGroup, TypeOK
    <2> QED
      BY <1>7, <2>1 DEF FindGroup, CreateGroup, TypeOK
  <1>8. CASE Accept \/ AcceptYields \/ AcceptAgain
    BY <1>8 DEF Accept, AcceptYields, AcceptAgain, Take, TypeOK
  <1>9. CASE OnAccept
    <2>1. ThreadIndex \in Io /\ ThreadIndex + 1 \in 0 .. IoThreads
      BY DEF TypeOK, ThreadIndex, Io
    <2>2. <<"client", client_fd>> \in Task
      BY DEF TypeOK, Task
    <2>3. pending_tasks' \in [Io -> Seq(Task)]
      BY <1>9, <2>1, <2>2 DEF OnAccept, TypeOK
    <2> QED
      BY <1>9, <2>1, <2>3, BoundAssumption DEF OnAccept, TypeOK
  <1>10. ASSUME NEW i \in Io, NewLoop(i) \/ PostInit(i) \/ Started(i) PROVE TypeOK'
    <2>1. /\ m_event_loop' \in [Io -> BOOLEAN]
          /\ m_init_semaphore' \in [Io -> Nat]
          /\ m_start_semaphore' \in [Io -> Nat]
      <3>1. CASE NewLoop(i)
        BY <3>1 DEF NewLoop, TypeOK
      <3>2. CASE PostInit(i)
        BY <3>2 DEF PostInit, TypeOK
      <3>3. CASE Started(i)
        BY <3>3 DEF Started, TypeOK
      <3> QED
        BY <1>10, <3>1, <3>2, <3>3
    <2>2. \E s \in {"post", "start_wait", "loop"} : io_pc' = [io_pc EXCEPT ![i] = s]
      BY <1>10 DEF NewLoop, PostInit, Started
    <2>3. io_pc' \in [Io -> {"none", "main", "post", "start_wait", "loop",
                            "group", "new_group", "construct"}]
      BY <2>2 DEF TypeOK
    <2>4. UNCHANGED <<main_vars, accept_vars, io_fd, pool, m_clients, served, posted,
                     groups, pending_tasks, outside, backlog, broken>>
      BY <1>10 DEF NewLoop, PostInit, Started
    <2> QED
      BY <2>1, <2>3, <2>4 DEF TypeOK
  <1>11. ASSUME NEW i \in Io, AddClient(i) PROVE TypeOK'
    <2>1. pending_tasks[i] \in Seq(Task) /\ pending_tasks[i] # <<>>
      BY <1>11 DEF AddClient, IsNext, TypeOK
    <2>2. Tail(pending_tasks[i]) \in Seq(Task) /\ Head(pending_tasks[i]) \in Task
      BY <2>1
    <2>3. Head(pending_tasks[i])[2] \in Client \cup {NoClient}
      BY <2>2 DEF Task
    <2>4. pending_tasks' \in [Io -> Seq(Task)]
      BY <1>11, <2>2 DEF AddClient, TypeOK
    <2> QED
      BY <1>11, <2>3, <2>4 DEF AddClient, TypeOK
  <1>12. ASSUME NEW i \in Io, IoFindGroup(i) \/ IoCreateGroup(i) PROVE TypeOK'
    <2>1. \E s \in {"new_group", "construct"} : io_pc' = [io_pc EXCEPT ![i] = s]
      BY <1>12 DEF IoFindGroup, IoCreateGroup
    <2>2. groups' \in Nat
      BY <1>12 DEF IoFindGroup, IoCreateGroup, TypeOK
    <2> QED
      BY <1>12, <2>1, <2>2 DEF IoFindGroup, IoCreateGroup, TypeOK
  <1>13. ASSUME NEW i \in Io, Construct(i) PROVE TypeOK'
    <2>1. io_fd[i] \in Client /\ i \in 0 .. IoThreads
      BY <1>13 DEF Construct, TypeOK, Io
    <2>2. pending_tasks' \in [Io -> Seq(Task)]
      <3>1. <<"resume", io_fd[i]>> \in Task
        BY <2>1 DEF Task
      <3> QED
        BY <1>13, <3>1 DEF Construct, TypeOK
    <2>3. pool' \in [Client -> SUBSET (0 .. IoThreads)] /\ m_clients' \in [Io -> SUBSET Client]
      BY <1>13, <2>1 DEF Construct, TypeOK
    <2> QED
      BY <1>13, <2>2, <2>3 DEF Construct, TypeOK
  <1>14. ASSUME NEW i \in Io, ConstructFails(i) PROVE TypeOK'
    BY <1>14 DEF ConstructFails, TypeOK
  <1>15. ASSUME NEW i \in Io, RunCoroutine(i) PROVE TypeOK'
    <2> pending_tasks[i] \in Seq(Task) /\ pending_tasks[i] # <<>>
      BY <1>15 DEF RunCoroutine, IsNext, TypeOK
    <2>1. /\ pending_tasks' \in [Io -> Seq(Task)] /\ 1 \in DOMAIN pending_tasks[i]
          /\ Head(pending_tasks[i]) = pending_tasks[i][1]
      BY <1>15, TailAt DEF RunCoroutine, TypeOK
    <2>2. Head(pending_tasks[i])[2] \in Client
      BY <1>15, <2>1 DEF RunCoroutine, IsNext, Owned, TypeOK
    <2>3. served' \in [Io -> SUBSET Client]
      BY <1>15, <2>2 DEF RunCoroutine, TypeOK
    <2> QED
      BY <1>15, <2>1, <2>3 DEF RunCoroutine, TypeOK
  <1>16. ASSUME NEW c \in Client, Connect(c) \/ Abort(c) PROVE TypeOK'
    BY <1>16 DEF Connect, Abort, TypeOK
  <1>17. CASE UNCHANGED vars
    BY <1>17 DEF vars, TypeOK
  <1> QED
    BY <1>1, <1>2, <1>3, <1>4, <1>5, <1>6, <1>7, <1>8, <1>9, <1>10, <1>11, <1>12,
       <1>13, <1>14, <1>15, <1>16, <1>17 DEF Next, MainStep, IoStep

LEMMA StepReady == IInv /\ [Next]_vars => Ready'
  <1> SUFFICES ASSUME IInv, [Next]_vars PROVE Ready'
    OBVIOUS
  <1> USE DEF IInv, NotCreated, main_vars, accept_vars, io_vars, semaphores
  <1>1. CASE CreateThread
    <2>1. \A i \in Io : i > turn => i >= turn /\ i # turn
      BY DEF Io, TypeOK
    <2> QED
      BY <1>1, <2>1 DEF CreateThread, TypeOK, Ready, InMain
  <1>2. CASE InitWaited
    <2>1. turn \in Io /\ m_init_semaphore[turn] > 0 /\ m_event_loop[turn]
      BY <1>2 DEF InitWaited, TypeOK, Ready, Io
    <2>2. \A i \in Io : (i < turn + 1 => i < turn \/ i = turn) /\ (i >= turn + 1 => i > turn)
      BY DEF TypeOK, Io
    <2>3. \A i \in Io : m_init_semaphore'[i] > 0 => m_init_semaphore[i] > 0
      BY <1>2, <2>1 DEF InitWaited, TypeOK
    <2> QED
      BY <1>2, <2>1, <2>2, <2>3 DEF InitWaited, TypeOK, Ready
  <1>3. CASE ResumeAccept
    <2>1. \A i \in Io : m_event_loop[i] /\ ~(i < 0)
      BY <1>3 DEF ResumeAccept, Ready, Io
    <2> QED
      BY <1>3, <2>1 DEF ResumeAccept, Ready
  <1>4. CASE StartThread \/ StartLoop
    BY <1>4 DEF StartThread, StartLoop, TypeOK, Ready
  <1>5. CASE EpollWait \/ RunHandler
    BY <1>5 DEF EpollWait, RunHandler, Ready
  <1>6. CASE \/ FindGroup \/ CreateGroup \/ Accept \/ AcceptYields
             \/ AcceptAgain \/ OnAccept
    BY <1>6 DEF FindGroup, CreateGroup, Accept, AcceptYields, AcceptAgain, OnAccept, Take, Ready
  <1>7. ASSUME NEW i \in Io, NewLoop(i) PROVE Ready'
    BY <1>7 DEF NewLoop, TypeOK, Ready
  <1>8. ASSUME NEW i \in Io, PostInit(i) PROVE Ready'
    BY <1>8 DEF PostInit, TypeOK, Ready
  <1>9. ASSUME NEW i \in Io, Started(i) PROVE Ready'
    BY <1>9 DEF Started, TypeOK, Ready
  <1>10. ASSUME NEW i \in Io, AddClient(i) PROVE Ready'
    BY <1>10 DEF AddClient, IsNext, TypeOK, Ready
  <1>11. ASSUME NEW i \in Io, IoFindGroup(i) \/ IoCreateGroup(i) \/ Construct(i) PROVE Ready'
    <2>1. io_pc[i] \notin {"none", "main"} /\ \E s : io_pc' = [io_pc EXCEPT ![i] = s]
      BY <1>11 DEF IoFindGroup, IoCreateGroup, Construct
    <2>2. UNCHANGED <<main_vars, accept_pc, semaphores>>
      BY <1>11 DEF IoFindGroup, IoCreateGroup, Construct
    <2> QED
      BY <2>1, <2>2 DEF TypeOK, Ready
  <1>12. ASSUME NEW i \in Io, ConstructFails(i) \/ RunCoroutine(i) PROVE Ready'
    BY <1>12 DEF ConstructFails, RunCoroutine, Ready
  <1>13. ASSUME NEW c \in Client, Connect(c) \/ Abort(c) PROVE Ready'
    BY <1>13 DEF Connect, Abort, Ready
  <1>14. CASE UNCHANGED vars
    BY <1>14 DEF vars, Ready
  <1> QED
    BY <1>1, <1>2, <1>3, <1>4, <1>5, <1>6, <1>7, <1>8, <1>9, <1>10, <1>11, <1>12,
       <1>13, <1>14 DEF Next, MainStep, IoStep

(* While there is no group, only the accept coroutine can ask for it.      *)
LEMMA StepGrouped == IInv /\ [Next]_vars => Grouped'
  <1> SUFFICES ASSUME IInv, [Next]_vars PROVE Grouped'
    OBVIOUS
  <1> USE DEF IInv, main_vars, accept_vars, io_vars, semaphores
  <1>1. CASE \/ CreateThread \/ (\E i \in Io : NewLoop(i) \/ PostInit(i) \/ Started(i))
    <2>1. UNCHANGED <<groups, accept_pc, pending_tasks>>
      BY <1>1 DEF CreateThread, NewLoop, PostInit, Started
    <2>2. \E i \in Io, s \in {"main", "post", "start_wait", "loop"} :
            io_pc' = [io_pc EXCEPT ![i] = s]
      <3>1. ASSUME CreateThread PROVE turn \in Io /\ io_pc' = [io_pc EXCEPT ![turn] = "main"]
        BY <3>1, IoThreadsAssumption DEF CreateThread, TypeOK, Io
      <3> QED
        BY <1>1, <3>1 DEF NewLoop, PostInit, Started
    <2> QED
      BY <2>1, <2>2 DEF Grouped, Constructing, TypeOK
  <1>2. CASE InitWaited \/ StartThread \/ StartLoop \/ EpollWait
    BY <1>2 DEF InitWaited, StartThread, StartLoop, EpollWait, Grouped, Constructing
  <1>3. CASE ResumeAccept
    BY <1>3 DEF ResumeAccept, Grouped, Constructing
  <1>4. CASE RunHandler
    BY <1>4 DEF RunHandler, InMain, Ready, Grouped, Constructing
  <1>5. CASE FindGroup \/ CreateGroup
    BY <1>5 DEF FindGroup, CreateGroup, Grouped, Constructing
  <1>6. CASE Accept \/ AcceptYields \/ AcceptAgain \/ OnAccept
    BY <1>6 DEF Accept, AcceptYields, AcceptAgain, OnAccept, Grouped, Constructing
  <1>7. ASSUME NEW i \in Io, AddClient(i) PROVE Grouped'
    BY <1>7 DEF AddClient, IsNext, TypeOK, Grouped
  <1>8. ASSUME NEW i \in Io, IoFindGroup(i) \/ IoCreateGroup(i) \/ Construct(i) PROVE Grouped'
    <2>1. groups = 1 /\ io_pc[i] # "new_group"
      BY <1>8 DEF IoFindGroup, IoCreateGroup, Construct, Grouped, Constructing
    <2>2. /\ UNCHANGED <<groups, accept_pc>>
          /\ \E s \in {"construct", "loop"} : io_pc' = [io_pc EXCEPT ![i] = s]
      BY <1>8, <2>1 DEF IoFindGroup, IoCreateGroup, Construct
    <2> QED
      BY <2>1, <2>2 DEF Grouped, TypeOK
  <1>9. ASSUME NEW i \in Io, ConstructFails(i) \/ RunCoroutine(i) PROVE Grouped'
    BY <1>9 DEF ConstructFails, RunCoroutine, IsNext, Grouped, Constructing
  <1>10. ASSUME NEW c \in Client, Connect(c) \/ Abort(c) PROVE Grouped'
    BY <1>10 DEF Connect, Abort, Grouped, Constructing
  <1>11. CASE UNCHANGED vars
    BY <1>11 DEF vars, Grouped, Constructing
  <1> QED
    BY <1>1, <1>2, <1>3, <1>4, <1>5, <1>6, <1>7, <1>8, <1>9, <1>10, <1>11
       DEF Next, MainStep, IoStep

-----------------------------------------------------------------------------
(* Every step keeps a client in one place.                                 *)

LEMMA QueueTaken ==
  ASSUME TypeOK, NEW i \in Io, pending_tasks[i] # <<>>,
         pending_tasks' = [pending_tasks EXCEPT ![i] = Tail(@)]
  PROVE  /\ \A j \in Io, k \in Pos, c \in Client :
              Queued(j, k, c)' <=> Queued(j, IF j = i THEN k + 1 ELSE k, c)
         /\ \A j \in Io : \A k \in DOMAIN pending_tasks'[j] :
              \E l \in DOMAIN pending_tasks[j] : pending_tasks'[j][k] = pending_tasks[j][l]
         /\ 1 \in DOMAIN pending_tasks[i] /\ Head(pending_tasks[i]) = pending_tasks[i][1]
         /\ pending_tasks[i][1] \in Task
  <1>1. pending_tasks[i] \in Seq(Task)
    BY DEF TypeOK
  <1>2. /\ DOMAIN Tail(pending_tasks[i]) = 1 .. Len(pending_tasks[i]) - 1
        /\ \A k \in DOMAIN Tail(pending_tasks[i]) :
             /\ Tail(pending_tasks[i])[k] = pending_tasks[i][k + 1]
             /\ k + 1 \in DOMAIN pending_tasks[i]
        /\ Head(pending_tasks[i]) = pending_tasks[i][1] /\ pending_tasks[i][1] \in Task
        /\ Len(pending_tasks[i]) \in Nat \ {0}
        /\ DOMAIN pending_tasks[i] = 1 .. Len(pending_tasks[i]) /\ 1 \in DOMAIN pending_tasks[i]
    BY <1>1, TailAt
  <1>3. \A j \in Io : pending_tasks'[j] = IF j = i THEN Tail(pending_tasks[i]) ELSE pending_tasks[j]
    BY DEF TypeOK
  <1>4. \A k \in Pos : k \in DOMAIN Tail(pending_tasks[i]) <=> k + 1 \in DOMAIN pending_tasks[i]
    BY <1>2 DEF Pos
  <1>5. \A j \in Io, k \in Pos, c \in Client :
          Queued(j, k, c)' <=> Queued(j, IF j = i THEN k + 1 ELSE k, c)
    BY <1>2, <1>3, <1>4 DEF Queued
  <1> QED
    BY <1>2, <1>3, <1>5

After(i) == Len(pending_tasks[i]) + 1      \* where a task is appended

Longer(i, task) == [pending_tasks EXCEPT ![i] = Append(@, task)]

LEMMA QueueLonger ==
  ASSUME TypeOK, NEW i \in Io, NEW task \in Task,
         pending_tasks' = Longer(i, task)
  PROVE  /\ After(i) \in Pos /\ After(i) \notin DOMAIN pending_tasks[i]
         /\ \A j \in Io, k \in Pos, c \in Client :
              Queued(j, k, c)' <=>
                Queued(j, k, c) \/ (j = i /\ k = After(i) /\ task = <<"client", c>>)
         /\ \A j \in Io : \A k \in DOMAIN pending_tasks'[j] :
              \/ k \in DOMAIN pending_tasks[j] /\ pending_tasks'[j][k] = pending_tasks[j][k]
              \/ j = i /\ k = After(i) /\ pending_tasks'[j][k] = task
  <1>1. pending_tasks[i] \in Seq(Task)
    BY DEF TypeOK
  <1>2. /\ DOMAIN Append(pending_tasks[i], task) = 1 .. After(i)
        /\ \A k \in DOMAIN pending_tasks[i] :
             Append(pending_tasks[i], task)[k] = pending_tasks[i][k]
        /\ Append(pending_tasks[i], task)[After(i)] = task
        /\ DOMAIN pending_tasks[i] = 1 .. After(i) - 1
        /\ After(i) \in Pos
    BY <1>1, AppendAt DEF Pos, After
  <1>3. \A j \in Io : pending_tasks'[j] =
          IF j = i THEN Append(pending_tasks[i], task) ELSE pending_tasks[j]
    BY DEF TypeOK, Longer
  <1>4. /\ After(i) \notin DOMAIN pending_tasks[i]
        /\ \A k \in DOMAIN Append(pending_tasks[i], task) :
             k \in DOMAIN pending_tasks[i] \/ k = After(i)
        /\ \A k \in DOMAIN pending_tasks[i] : k \in DOMAIN Append(pending_tasks[i], task)
        /\ After(i) \in DOMAIN Append(pending_tasks[i], task)
    BY <1>2 DEF Pos
  <1>5. \A j \in Io, k \in Pos, c \in Client :
          Queued(j, k, c)' <=>
            Queued(j, k, c) \/ (j = i /\ k = After(i) /\ task = <<"client", c>>)
    BY <1>2, <1>3, <1>4 DEF Queued
  <1>6. \A j \in Io : \A k \in DOMAIN pending_tasks'[j] :
          \/ k \in DOMAIN pending_tasks[j] /\ pending_tasks'[j][k] = pending_tasks[j][k]
          \/ j = i /\ k = After(i) /\ pending_tasks'[j][k] = task
    BY <1>2, <1>3, <1>4
  <1> QED
    BY <1>2, <1>4, <1>5, <1>6

(* The steps that move no client. *)
LEMMA StillSteps ==
  ASSUME IInv,
         \/ CreateThread \/ InitWaited \/ ResumeAccept \/ StartThread \/ StartLoop
         \/ EpollWait \/ RunHandler \/ FindGroup \/ CreateGroup \/ AcceptYields
         \/ \E i \in Io : \/ NewLoop(i) \/ PostInit(i) \/ Started(i)
                          \/ IoFindGroup(i) \/ IoCreateGroup(i) \/ ConstructFails(i)
         \/ UNCHANGED vars
  PROVE  Still
  <1> USE DEF IInv, main_vars, accept_vars, io_vars, semaphores, Still, Kept, Held
  <1>1. CASE InitWaited \/ StartThread \/ StartLoop \/ EpollWait
    BY <1>1 DEF InitWaited, StartThread, StartLoop, EpollWait, Constructing
  <1>2. CASE ResumeAccept \/ RunHandler \/ FindGroup \/ CreateGroup \/ AcceptYields
    BY <1>2 DEF ResumeAccept, RunHandler, FindGroup, CreateGroup, AcceptYields, InMain, Constructing
  <1>3. CASE CreateThread \/ \E i \in Io : NewLoop(i) \/ PostInit(i) \/ Started(i)
    <2>0. CreateThread => turn \in Io /\ turn >= turn
      BY DEF CreateThread, TypeOK, Io
    <2>1. PICK i \in Io, s \in {"main", "post", "start_wait", "loop"} :
            ~Constructing(i) /\ io_pc' = [io_pc EXCEPT ![i] = s]
      BY <1>3, <2>0 DEF CreateThread, NewLoop, PostInit, Started, Ready, NotCreated, Constructing
    <2>2. \A j \in Io : Constructing(j)' <=> Constructing(j)
      BY <2>1 DEF TypeOK, Constructing
    <2> QED
      BY <1>3, <2>2 DEF CreateThread, NewLoop, PostInit, Started
  <1>4. ASSUME NEW i \in Io, IoFindGroup(i) \/ IoCreateGroup(i) PROVE Still
    <2>1. \A j \in Io : Constructing(j)' <=> Constructing(j)
      BY <1>4 DEF IoFindGroup, IoCreateGroup, TypeOK, Constructing
    <2> QED
      BY <1>4, <2>1 DEF IoFindGroup, IoCreateGroup
  <1>5. ASSUME NEW i \in Io, ConstructFails(i) PROVE Still
    BY <1>5 DEF ConstructFails, Constructing
  <1>6. CASE UNCHANGED vars
    BY <1>6 DEF vars, Constructing
  <1> QED
    BY <1>1, <1>2, <1>3, <1>4, <1>5, <1>6

(* A client leaves the backlog, or none does: Accept, AcceptAgain. *)
LEMMA AcceptPlaces ==
  ASSUME IInv, Accept \/ AcceptAgain
  PROVE  Placed' /\ Apart' /\ Owned'
  <1> USE DEF IInv
  <1>1. /\ UNCHANGED <<pending_tasks, pool, m_clients, served, outside, io_pc, io_fd>>
        /\ accept_pc # "dispatch" /\ accept_pc' = "dispatch"
        /\ \/ \E c \in backlog : Take(c)
           \/ client_fd' = NoClient /\ UNCHANGED <<backlog, accepted>>
    BY DEF Accept, AcceptAgain, io_vars
  <1>2. \A i \in Io, c \in Client, k \in Pos :
          (Held(i, c)' <=> Held(i, c)) /\ (Queued(i, k, c)' <=> Queued(i, k, c)) /\ ~Kept(c)
    BY <1>1 DEF Held, Queued, Kept, Constructing
  <1>3. Pos # {} /\ Io # {}
    BY DEF Pos, Io
  <1>4. accepted \subseteq Client /\ backlog \subseteq Client
    BY DEF TypeOK
  <1>5. Owned'
    BY <1>1 DEF Owned
  <1>6. CASE client_fd' = NoClient /\ UNCHANGED <<backlog, accepted>>
    <2>1. \A c \in Client : ~Kept(c)'
      BY <1>6 DEF Kept
    <2>2. Placed'
      BY <1>1, <1>2, <1>3, <1>4, <1>6, <2>1 DEF Placed
    <2>3. Apart'
      BY <1>2, <1>3, <2>1 DEF Apart
    <2> QED
      BY <1>5, <2>2, <2>3
  <1>7. ASSUME NEW d \in backlog, Take(d) PROVE Placed' /\ Apart' /\ Owned'
    <2>1. \A c \in Client : Kept(c)' <=> c = d
      BY <1>1, <1>7 DEF Take, Kept
    <2>2. d \in Client /\ d \notin accepted /\ d \notin outside
      BY <1>4 DEF Placed
    <2>3. Placed'
      BY <1>1, <1>2, <1>3, <1>4, <1>7, <2>1, <2>2 DEF Placed, Take
    <2>4. Apart'
      BY <1>2, <1>3, <2>1, <2>2 DEF Apart, Placed
    <2> QED
      BY <1>5, <2>3, <2>4
  <1> QED
    BY <1>1, <1>6, <1>7

(* The client becomes a task. *)
LEMMA OnAcceptPlaces ==
  ASSUME IInv, OnAccept
  PROVE  Placed' /\ Apart' /\ Owned'
  <1> USE DEF IInv
  <1> DEFINE t == ThreadIndex
             task == <<"client", client_fd>>
  <1>1. t \in Io /\ task \in Task
    BY DEF TypeOK, ThreadIndex, Task, Io
  <1>2. /\ pending_tasks' = Longer(t, task)
        /\ accept_pc = "dispatch" /\ accept_pc' = "group" /\ UNCHANGED client_fd
        /\ UNCHANGED <<pool, m_clients, served, outside, backlog, accepted, io_pc, io_fd>>
    BY DEF OnAccept, io_vars, Longer
  <1> HIDE DEF t
  <1>3. /\ After(t) \in Pos /\ After(t) \notin DOMAIN pending_tasks[t]
        /\ \A j \in Io, k \in Pos, c \in Client :
             Queued(j, k, c)' <=>
               Queued(j, k, c) \/ (j = t /\ k = After(t) /\ task = <<"client", c>>)
        /\ \A j \in Io : \A k \in DOMAIN pending_tasks'[j] :
             \/ k \in DOMAIN pending_tasks[j] /\ pending_tasks'[j][k] = pending_tasks[j][k]
             \/ j = t /\ k = After(t) /\ pending_tasks'[j][k] = task
    BY <1>1, <1>2, QueueLonger DEF IInv
  <1>4. \A j \in Io, k \in Pos, c \in Client :
          Queued(j, k, c)' <=> Queued(j, k, c) \/ (j = t /\ k = After(t) /\ Kept(c))
    BY <1>2, <1>3 DEF Kept
  <1>5. \A i \in Io, c \in Client : (Held(i, c)' <=> Held(i, c)) /\ ~Kept(c)'
    BY <1>2 DEF Held, Kept, Constructing
  <1>6. accepted \subseteq Client /\ \A c, d \in Client : Kept(c) /\ Kept(d) => c = d
    BY DEF TypeOK, Kept
  <1>7. Placed'
    <2>1. \A c \in Client \ accepted :
            ~Kept(c)' /\ \A i \in Io : ~Held(i, c)' /\ \A k \in Pos : ~Queued(i, k, c)'
      BY <1>1, <1>4, <1>5 DEF Placed
    <2>2. \A c \in accepted : \E i \in Io : Held(i, c)' \/ \E k \in Pos : Queued(i, k, c)'
      BY <1>1, <1>3, <1>4, <1>5, <1>6 DEF Placed
    <2> QED
      BY <1>2, <2>1, <2>2 DEF Placed
  <1>8. Apart'
    BY <1>4, <1>5, <1>6 DEF Apart
  <1>9. Owned'
    BY <1>2, <1>3 DEF Owned
  <1> QED
    BY <1>7, <1>8, <1>9

(* The task becomes a connection that is under construction. *)
LEMMA AddClientPlaces ==
  ASSUME IInv, NEW i \in Io, AddClient(i)
  PROVE  Placed' /\ Apart' /\ Owned'
  <1> USE DEF IInv
  <1>1. /\ pending_tasks[i] # <<>> /\ pending_tasks' = [pending_tasks EXCEPT ![i] = Tail(@)]
        /\ UNCHANGED <<pool, m_clients, served, outside, backlog, accepted, accept_pc, client_fd>>
        /\ ~Constructing(i) /\ io_pc' = [io_pc EXCEPT ![i] = "group"]
        /\ io_fd' = [io_fd EXCEPT ![i] = Head(pending_tasks[i])[2]]
        /\ Head(pending_tasks[i])[1] = "client"
    BY DEF AddClient, IsNext, accept_vars, Constructing
  <1>2. /\ \A j \in Io, k \in Pos, c \in Client :
             Queued(j, k, c)' <=> Queued(j, IF j = i THEN k + 1 ELSE k, c)
        /\ \A j \in Io : \A k \in DOMAIN pending_tasks'[j] :
             \E l \in DOMAIN pending_tasks[j] : pending_tasks'[j][k] = pending_tasks[j][l]
        /\ 1 \in DOMAIN pending_tasks[i] /\ Head(pending_tasks[i]) = pending_tasks[i][1]
        /\ pending_tasks[i][1] \in Task
    BY <1>1, QueueTaken
  <1>3. \A c \in Client : Queued(i, 1, c) <=> Head(pending_tasks[i])[2] = c
    BY <1>1, <1>2 DEF Queued, Task
  <1>4. \A j \in Io, c \in Client : Held(j, c)' <=> Held(j, c) \/ (j = i /\ Queued(i, 1, c))
    BY <1>1, <1>3 DEF Held, Constructing, TypeOK
  <1>5. /\ accepted \subseteq Client /\ 1 \in Pos
        /\ \A k \in Pos : k + 1 \in Pos /\ k + 1 # 1 /\ \A l \in Pos : k + 1 = l + 1 => k = l
        /\ \A k \in Pos : k = 1 \/ \E l \in Pos : k = l + 1
    BY DEF TypeOK, Pos
  <1>6. \A c \in Client : Kept(c)' <=> Kept(c)
    BY <1>1 DEF Kept
  <1>7. Placed'
    <2>1. ASSUME NEW c \in accepted, NEW j \in Io, NEW k \in Pos, Queued(j, k, c)
          PROVE  Held(i, c)' \/ \E l \in Pos : Queued(j, l, c)'
      BY <1>2, <1>4, <1>5, <2>1
    <2>2. \A c \in accepted : Kept(c)' \/ \E j \in Io : Held(j, c)' \/ \E k \in Pos : Queued(j, k, c)'
      BY <1>4, <1>5, <1>6, <2>1 DEF Placed
    <2>3. \A c \in Client \ accepted : ~Kept(c)' /\ \A j \in Io : ~Held(j, c)' /\ \A k \in Pos : ~Queued(j, k, c)'
      BY <1>2, <1>4, <1>5, <1>6 DEF Placed
    <2> QED
      BY <1>1, <2>2, <2>3 DEF Placed
  <1>8. Apart'
    <2>1. ASSUME NEW c \in Client, NEW j \in Io, Kept(c)'
          PROVE  ~Held(j, c)' /\ \A k \in Pos : ~Queued(j, k, c)'
      BY <1>2, <1>4, <1>5, <1>6, <2>1 DEF Apart
    <2>2. ASSUME NEW c \in Client, NEW j \in Io, Held(j, c)', NEW l \in Io
          PROVE  (Held(l, c)' => j = l) /\ \A k \in Pos : ~Queued(l, k, c)'
      <3>1. CASE Held(j, c)
        BY <1>2, <1>4, <1>5, <2>2, <3>1 DEF Apart
      <3>2. CASE j = i /\ Queued(i, 1, c)
        BY <1>2, <1>4, <1>5, <2>2, <3>2 DEF Apart
      <3> QED
        BY <1>4, <2>2, <3>1, <3>2
    <2>3. ASSUME NEW c \in Client, NEW j \in Io, NEW k \in Pos, Queued(j, k, c)',
                 NEW l \in Io, NEW m \in Pos, Queued(l, m, c)'
          PROVE  j = l /\ k = m
      BY <1>2, <1>5, <2>3 DEF Apart
    <2> QED
      BY <2>1, <2>2, <2>3 DEF Apart
  <1>9. Owned'
    BY <1>1, <1>2 DEF Owned
  <1> QED
    BY <1>7, <1>8, <1>9

(* The connection is constructed. *)
LEMMA ConstructPlaces ==
  ASSUME IInv, NEW i \in Io, Construct(i)
  PROVE  Placed' /\ Apart' /\ Owned'
  <1> USE DEF IInv
  <1> DEFINE task == <<"resume", io_fd[i]>>
  <1>1. io_fd[i] \in Client /\ task \in Task
    BY DEF Construct, TypeOK, Task
  <1>2. /\ pending_tasks' = Longer(i, task)
        /\ UNCHANGED <<served, outside, backlog, accepted, accept_pc, client_fd, io_fd>>
        /\ Constructing(i) /\ io_pc' = [io_pc EXCEPT ![i] = "loop"]
        /\ m_clients' = [m_clients EXCEPT ![i] = @ \cup {io_fd[i]}]
        /\ pool' = [pool EXCEPT ![io_fd[i]] = @ \cup {i}]
    BY DEF Construct, accept_vars, Constructing, Longer
  <1>3. /\ After(i) \in Pos /\ After(i) \notin DOMAIN pending_tasks[i]
        /\ \A j \in Io, k \in Pos, c \in Client :
             Queued(j, k, c)' <=>
               Queued(j, k, c) \/ (j = i /\ k = After(i) /\ task = <<"client", c>>)
        /\ \A j \in Io : \A k \in DOMAIN pending_tasks'[j] :
             \/ k \in DOMAIN pending_tasks[j] /\ pending_tasks'[j][k] = pending_tasks[j][k]
             \/ j = i /\ k = After(i) /\ pending_tasks'[j][k] = task
    BY <1>1, <1>2, QueueLonger DEF IInv
  <1>4. \A j \in Io, k \in Pos, c \in Client : Queued(j, k, c)' <=> Queued(j, k, c)
    BY <1>3
  <1>5. \A j \in Io, c \in Client : Held(j, c)' <=> Held(j, c)
    BY <1>1, <1>2 DEF Held, Constructing, TypeOK
  <1>6. \A c \in Client : Kept(c)' <=> Kept(c)
    BY <1>2 DEF Kept
  <1>7. Placed'
    <2>1. accepted \subseteq Client
      BY DEF TypeOK
    <2> QED
      BY <1>2, <1>4, <1>5, <1>6, <2>1 DEF Placed
  <1>8. Apart'
    BY <1>4, <1>5, <1>6 DEF Apart
  <1>9. Owned'
    <2>1. \A j \in Io : m_clients[j] \subseteq m_clients'[j]
      BY <1>2 DEF TypeOK
    <2>2. io_fd[i] \in m_clients'[i]
      BY <1>2 DEF TypeOK
    <2>3. \A c \in Client : pool'[c] = {j \in Io : c \in m_clients'[j]}
      <3>1. ASSUME NEW c \in Client, c # io_fd[i] PROVE pool'[c] = {j \in Io : c \in m_clients'[j]}
        BY <1>2, <3>1 DEF Owned, TypeOK
      <3>2. pool'[io_fd[i]] = {j \in Io : io_fd[i] \in m_clients'[j]}
        BY <1>1, <1>2 DEF Owned, TypeOK
      <3> QED
        BY <3>1, <3>2
    <2>4. \A j \in Io : \A k \in DOMAIN pending_tasks'[j] :
            pending_tasks'[j][k][1] = "resume" => pending_tasks'[j][k][2] \in m_clients'[j]
      BY <1>3, <2>1, <2>2 DEF Owned
    <2> QED
      BY <1>2, <2>1, <2>3, <2>4 DEF Owned
  <1> QED
    BY <1>7, <1>8, <1>9

(* Its coroutine starts. *)
LEMMA RunCoroutinePlaces ==
  ASSUME IInv, NEW i \in Io, RunCoroutine(i)
  PROVE  Placed' /\ Apart' /\ Owned'
  <1> USE DEF IInv
  <1>1. /\ pending_tasks[i] # <<>> /\ pending_tasks' = [pending_tasks EXCEPT ![i] = Tail(@)]
        /\ UNCHANGED <<pool, m_clients, outside, backlog, accepted, accept_pc, client_fd, io_pc, io_fd>>
        /\ served' = [served EXCEPT ![i] = @ \cup {Head(pending_tasks[i])[2]}]
        /\ Head(pending_tasks[i])[1] = "resume"
    BY DEF RunCoroutine, IsNext, accept_vars
  <1>2. /\ \A j \in Io, k \in Pos, c \in Client :
             Queued(j, k, c)' <=> Queued(j, IF j = i THEN k + 1 ELSE k, c)
        /\ \A j \in Io : \A k \in DOMAIN pending_tasks'[j] :
             \E l \in DOMAIN pending_tasks[j] : pending_tasks'[j][k] = pending_tasks[j][l]
        /\ 1 \in DOMAIN pending_tasks[i] /\ Head(pending_tasks[i]) = pending_tasks[i][1]
    BY <1>1, QueueTaken
  <1>3. \A c \in Client : ~Queued(i, 1, c)
    BY <1>1, <1>2 DEF Queued
  <1>4. \A j \in Io, c \in Client : (Held(j, c)' <=> Held(j, c)) /\ (Kept(c)' <=> Kept(c))
    BY <1>1 DEF Held, Constructing, Kept
  <1>5. /\ accepted \subseteq Client /\ 1 \in Pos
        /\ \A k \in Pos : k + 1 \in Pos /\ k + 1 # 1 /\ \A l \in Pos : k + 1 = l + 1 => k = l
        /\ \A k \in Pos : k = 1 \/ \E l \in Pos : k = l + 1
    BY DEF TypeOK, Pos
  <1>6. Placed'
    <2>1. ASSUME NEW c \in accepted, NEW j \in Io, NEW k \in Pos, Queued(j, k, c)
          PROVE  \E l \in Pos : Queued(j, l, c)'
      BY <1>2, <1>3, <1>5, <2>1
    <2>2. Io # {}
      BY DEF Io
    <2> QED
      BY <1>1, <1>2, <1>4, <1>5, <2>1, <2>2 DEF Placed
  <1>7. Apart'
    BY <1>2, <1>4, <1>5 DEF Apart
  <1>8. Owned'
    <2>1. Head(pending_tasks[i])[2] \in m_clients[i]
      BY <1>1, <1>2 DEF Owned
    <2> QED
      BY <1>1, <1>2, <2>1 DEF Owned, TypeOK
  <1> QED
    BY <1>6, <1>7, <1>8

LEMMA StepPlaces == IInv /\ [Next]_vars => Placed' /\ Apart' /\ Owned'
  <1> SUFFICES ASSUME IInv, [Next]_vars PROVE Placed' /\ Apart' /\ Owned'
    OBVIOUS
  <1>1. CASE Accept \/ AcceptAgain
    BY <1>1, AcceptPlaces
  <1>2. CASE OnAccept
    BY <1>2, OnAcceptPlaces
  <1>3. ASSUME NEW i \in Io, AddClient(i) PROVE Placed' /\ Apart' /\ Owned'
    BY <1>3, AddClientPlaces
  <1>4. ASSUME NEW i \in Io, Construct(i) PROVE Placed' /\ Apart' /\ Owned'
    BY <1>4, ConstructPlaces
  <1>5. ASSUME NEW i \in Io, RunCoroutine(i) PROVE Placed' /\ Apart' /\ Owned'
    BY <1>5, RunCoroutinePlaces
  <1>6. ASSUME NEW d \in Client, Connect(d) \/ Abort(d) PROVE Placed' /\ Apart' /\ Owned'
    <2>1. UNCHANGED <<accept_vars, io_vars, pending_tasks>>
      BY <1>6 DEF Connect, Abort
    <2>2. \A i \in Io, k \in Pos, c \in Client :
            (Held(i, c)' <=> Held(i, c)) /\ (Queued(i, k, c)' <=> Queued(i, k, c))
      BY <2>1 DEF io_vars, Held, Queued, Constructing
    <2>3. \A c \in Client : Kept(c)' <=> Kept(c)
      BY <2>1 DEF accept_vars, Kept
    <2>4. 1 \in Pos /\ 0 \in Io /\ accepted \subseteq Client
      BY DEF Pos, Io, IInv, TypeOK
    <2>5. /\ \A c \in accepted' : c \notin outside' /\ c \notin backlog'
          /\ \A c \in backlog' : c \notin outside'
      BY <1>6, <2>1, <2>4 DEF Connect, Abort, accept_vars, IInv, Placed
    <2>6. accepted' = accepted
      BY <2>1 DEF accept_vars
    <2>7. Placed'
      BY <2>2, <2>3, <2>4, <2>5, <2>6 DEF IInv, Placed
    <2>8. Apart'
      BY <2>2, <2>3, <2>4 DEF IInv, Apart
    <2>9. Owned'
      BY <2>1 DEF io_vars, IInv, Owned
    <2> QED
      BY <2>7, <2>8, <2>9
  <1>7. CASE Still
    BY <1>7, StillPlaces DEF IInv
  <1> QED
    BY <1>1, <1>2, <1>3, <1>4, <1>5, <1>6, <1>7, StillSteps DEF Next, MainStep, IoStep

LEMMA Invariance == Spec => []IInv
  <1>1. IInv /\ [Next]_vars => IInv'
    BY StepTypeOK, StepReady, StepGrouped, StepPlaces DEF IInv
  <1> QED
    BY <1>1, InitIInv, PTL DEF Spec

-----------------------------------------------------------------------------
(* The variables of a server keep their types. *)
THEOREM TypeCorrect == Spec => []TypeOK
  <1>1. IInv => TypeOK
    BY DEF IInv
  <1> QED
    BY <1>1, Invariance, PTL

(* No client is handed to an IO thread that has no loop yet, the one that  *)
(* getIOThread wraps to included (io_thread.cpp:20).                       *)
THEOREM LoopBeforeClient == Spec => []LoopExists
  <1>1. IInv => LoopExists
    <2> SUFFICES ASSUME IInv PROVE LoopExists
      OBVIOUS
    <2>1. ThreadIndex \in Io
      BY DEF IInv, TypeOK, ThreadIndex, Io
    <2> QED
      BY <2>1 DEF IInv, Ready, LoopExists
  <1> QED
    BY <1>1, Invariance, PTL

(* The unlocked test of GetFdEventGroup is never made by two threads while *)
(* there is no table: a server has one.                                    *)
THEOREM SingleGroup == Spec => []OneGroup
  <1>1. IInv => OneGroup
    BY DEF IInv, Grouped, OneGroup
  <1> QED
    BY <1>1, Invariance, PTL

(* An accepted client is handed to exactly one IO thread. *)
THEOREM ExactlyOnce == Spec => []HandedOnce
  <1>1. IInv => HandedOnce
    <2> SUFFICES ASSUME IInv, NEW c \in accepted
                 PROVE  LET queued == UNION {{<<i, k>> : k \in {k \in DOMAIN pending_tasks[i] :
                                        pending_tasks[i][k] = <<"client", c>>}} : i \in Io}
                            held == {i \in Io : c \in m_clients[i] \/ (Constructing(i) /\ io_fd[i] = c)}
                            kept == IF accept_pc = "dispatch" /\ client_fd = c THEN {c} ELSE {}
                        IN  Cardinality(queued) + Cardinality(held) + Cardinality(kept) = 1
      BY DEF HandedOnce
    <2> DEFINE queued == UNION {{<<i, k>> : k \in {k \in DOMAIN pending_tasks[i] :
                                  pending_tasks[i][k] = <<"client", c>>}} : i \in Io}
               held == {i \in Io : c \in m_clients[i] \/ (Constructing(i) /\ io_fd[i] = c)}
               kept == IF accept_pc = "dispatch" /\ client_fd = c THEN {c} ELSE {}
    <2>1. c \in Client /\ \A i \in Io : DOMAIN pending_tasks[i] \subseteq Pos
      BY DEF IInv, TypeOK, Pos
    <2>2. \A p : p \in queued <=> \E i \in Io, k \in Pos : p = <<i, k>> /\ Queued(i, k, c)
      BY <2>1 DEF Queued
    <2>3. \A i : i \in held <=> i \in Io /\ Held(i, c)
      BY DEF Held
    <2>4. kept = IF Kept(c) THEN {c} ELSE {}
      BY DEF Kept
    <2>5. /\ Kept(c) => \A i \in Io : ~Held(i, c) /\ \A k \in Pos : ~Queued(i, k, c)
          /\ \A i, j \in Io : Held(i, c) => (Held(j, c) => i = j) /\ \A k \in Pos : ~Queued(j, k, c)
          /\ \A i, j \in Io, k, l \in Pos : Queued(i, k, c) /\ Queued(j, l, c) => i = j /\ k = l
      BY <2>1 DEF IInv, Apart
    <2>6. Kept(c) \/ \E i \in Io : Held(i, c) \/ \E k \in Pos : Queued(i, k, c)
      BY DEF IInv, Placed
    <2> HIDE DEF queued, held, kept
    <2>7. Cardinality({}) = 0 /\ \A x : Cardinality({x}) = 1
      BY FS_EmptySet, FS_Singleton
    <2>8. CASE Kept(c)
      <3>1. queued = {} /\ held = {} /\ kept = {c}
        BY <2>2, <2>3, <2>4, <2>5, <2>8
      <3>2. Cardinality(queued) = 0 /\ Cardinality(held) = 0 /\ Cardinality(kept) = 1
        BY <3>1, <2>7, Zenon
      <3> QED
        BY <3>2 DEF queued, held, kept
    <2>9. ASSUME NEW i \in Io, Held(i, c)
          PROVE  Cardinality(queued) + Cardinality(held) + Cardinality(kept) = 1
      <3>1. queued = {} /\ held = {i} /\ kept = {}
        BY <2>2, <2>3, <2>4, <2>5, <2>9
      <3>2. Cardinality(queued) = 0 /\ Cardinality(held) = 1 /\ Cardinality(kept) = 0
        BY <3>1, <2>7, Zenon
      <3> QED
        BY <3>2
    <2>10. ASSUME NEW i \in Io, NEW k \in Pos, Queued(i, k, c)
           PROVE  Cardinality(queued) + Cardinality(held) + Cardinality(kept) = 1
      <3>1. queued = {<<i, k>>} /\ held = {} /\ kept = {}
        BY <2>2, <2>3, <2>4, <2>5, <2>10
      <3>2. Cardinality(queued) = 1 /\ Cardinality(held) = 0 /\ Cardinality(kept) = 0
        BY <3>1, <2>7, Zenon
      <3> QED
        BY <3>2
    <2> QED
      BY <2>6, <2>8, <2>9, <2>10 DEF queued, held, kept
  <1> QED
    BY <1>1, Invariance, PTL

(* A connection's coroutine is of the pool of the thread that runs it and  *)
(* of no other, although each pool is used without a lock.                 *)
THEOREM PoolOfItsThread == Spec => []OwnPool
  <1>1. IInv => OwnPool
    <2> SUFFICES ASSUME IInv, NEW i \in Io, NEW c \in served[i]
                 PROVE  c \in m_clients[i] /\ pool[c] = {i}
      BY DEF OwnPool
    <2>1. c \in Client /\ c \in m_clients[i]
      BY DEF IInv, TypeOK, Owned
    <2>2. \A j \in Io : c \in m_clients[j] <=> j = i
      BY <2>1 DEF IInv, Apart, Held
    <2> QED
      BY <2>1, <2>2 DEF IInv, Owned
  <1> QED
    BY <1>1, Invariance, PTL

-----------------------------------------------------------------------------
(* Loads.                                                                  *)

Places(s) == {k \in DOMAIN s : s[k][1] = "client"}

LEMMA PlacesFinite ==
  ASSUME NEW s \in Seq(Task)
  PROVE  IsFiniteSet(Places(s)) /\ Cardinality(Places(s)) \in Nat
  <1>1. Len(s) \in Nat /\ DOMAIN s = 1 .. Len(s)
    OBVIOUS
  <1>2. IsFiniteSet(1 .. Len(s))
    BY <1>1, FS_Interval
  <1>3. Places(s) \in SUBSET (1 .. Len(s))
    BY <1>1 DEF Places
  <1>4. IsFiniteSet(Places(s))
    BY <1>2, <1>3, FS_Subset
  <1> QED
    BY <1>4, FS_CardinalityType

LEMMA PlacesAppend ==
  ASSUME NEW s \in Seq(Task), NEW e \in Task
  PROVE  Cardinality(Places(Append(s, e)))
           = Cardinality(Places(s)) + (IF e[1] = "client" THEN 1 ELSE 0)
  <1> DEFINE t == Append(s, e)
             n == Len(s) + 1
  <1>1. /\ DOMAIN t = 1 .. n /\ \A k \in DOMAIN s : t[k] = s[k]
        /\ t[n] = e /\ n \in Nat \ {0} /\ DOMAIN s = 1 .. n - 1
    BY AppendAt
  <1> HIDE DEF t, n
  <1>2. n \in DOMAIN t /\ n \notin DOMAIN s /\ DOMAIN t = DOMAIN s \cup {n}
    BY <1>1
  <1>3. CASE e[1] = "client"
    <2>1. Places(t) = Places(s) \cup {n} /\ n \notin Places(s)
      BY <1>1, <1>2, <1>3 DEF Places
    <2>2. Cardinality(Places(s) \cup {n}) = Cardinality(Places(s)) + 1
      BY <2>1, PlacesFinite, FS_AddElement
    <2> QED
      BY <1>3, <2>1, <2>2 DEF t
  <1>4. CASE e[1] # "client"
    <2>1. Places(t) = Places(s)
      BY <1>1, <1>2, <1>4 DEF Places
    <2>2. Cardinality(Places(s)) \in Nat
      BY PlacesFinite
    <2> QED
      BY <1>4, <2>1, <2>2 DEF t
  <1> QED
    BY <1>3, <1>4

LEMMA PlacesTail ==
  ASSUME NEW s \in Seq(Task), s # <<>>
  PROVE  Cardinality(Places(s))
           = Cardinality(Places(Tail(s))) + (IF Head(s)[1] = "client" THEN 1 ELSE 0)
  <1> DEFINE t == Tail(s)
             moved == {k + 1 : k \in Places(t)}
             n == Len(s)
  <1>1. /\ t \in Seq(Task) /\ DOMAIN t = 1 .. n - 1 /\ \A k \in DOMAIN t : t[k] = s[k + 1]
        /\ Head(s) = s[1] /\ n \in Nat \ {0} /\ DOMAIN s = 1 .. n
    BY TailAt
  <1> HIDE DEF t, n
  <1>2. IsFiniteSet(moved) /\ Cardinality(moved) = Cardinality(Places(t))
    <2> DEFINE f == [k \in Places(t) |-> k + 1]
    <2>1. Places(t) \subseteq Nat
      BY <1>1 DEF Places
    <2>2. f \in Bijection(Places(t), moved)
      <3>1. f \in [Places(t) -> moved] /\ \A x \in moved : \E k \in Places(t) : f[k] = x
        OBVIOUS
      <3>2. \A k, l \in Places(t) : f[k] = f[l] => k = l
        BY <2>1
      <3> HIDE DEF f, moved
      <3> QED
        BY <3>1, <3>2, Fun_IsBij
    <2>3. ExistsBijection(Places(t), moved)
      BY <2>2 DEF ExistsBijection
    <2> HIDE DEF moved
    <2> QED
      BY <1>1, <2>3, PlacesFinite, FS_Bijection
  <1>3. \A k : k \in moved <=> k \in DOMAIN s /\ k # 1 /\ s[k][1] = "client"
    <2>1. ASSUME NEW k \in moved PROVE k \in DOMAIN s /\ k # 1 /\ s[k][1] = "client"
      BY <1>1 DEF Places
    <2>2. ASSUME NEW k \in DOMAIN s, k # 1, s[k][1] = "client" PROVE k \in moved
      <3>1. k - 1 \in DOMAIN t /\ (k - 1) + 1 = k
        BY <1>1, <2>2
      <3>2. k - 1 \in Places(t)
        BY <1>1, <2>2, <3>1 DEF Places
      <3> QED
        BY <3>1, <3>2
    <2> HIDE DEF moved
    <2> QED
      BY <2>1, <2>2
  <1>4. 1 \in DOMAIN s
    BY <1>1
  <1> HIDE DEF moved
  <1>5. CASE Head(s)[1] = "client"
    <2>1. Places(s) = moved \cup {1} /\ 1 \notin moved
      BY <1>1, <1>3, <1>4, <1>5 DEF Places
    <2>2. Cardinality(moved \cup {1}) = Cardinality(moved) + 1
      BY <1>2, <2>1, FS_AddElement
    <2> QED
      BY <1>2, <1>5, <2>1, <2>2 DEF t
  <1>6. CASE Head(s)[1] # "client"
    <2>1. Places(s) = moved
      BY <1>1, <1>3, <1>6 DEF Places
    <2>2. Cardinality(Places(t)) \in Nat
      BY <1>1, PlacesFinite
    <2> QED
      BY <1>2, <1>6, <2>1, <2>2 DEF t
  <1> QED
    BY <1>5, <1>6

-----------------------------------------------------------------------------
(* What a thread has been given is its connections, the one that it        *)
(* constructs, which is not among them, and the tasks that bring others.   *)
Counted ==
  \A i \in Io : /\ IsFiniteSet(m_clients[i])
                /\ Constructing(i) => io_fd[i] \notin m_clients[i]

(* The threads below m_index are one ahead. *)
Ahead(i) == IF i < m_index THEN 1 ELSE 0
Even == \A i, j \in Io : Load(i) + Ahead(j) = Load(j) + Ahead(i)

Busy(i) == IF Constructing(i) THEN 1 ELSE 0

LEMMA LoadParts ==
  ASSUME TypeOK, Counted, NEW i \in Io
  PROVE  /\ Load(i) = Cardinality(m_clients[i]) + Busy(i) + Cardinality(Places(pending_tasks[i]))
         /\ Cardinality(m_clients[i]) \in Nat /\ Cardinality(Places(pending_tasks[i])) \in Nat
         /\ Load(i) \in Nat
  <1>1. Cardinality(m_clients[i]) \in Nat
    BY FS_CardinalityType DEF Counted
  <1>2. Cardinality(Places(pending_tasks[i])) \in Nat
    BY PlacesFinite DEF TypeOK
  <1>3. Load(i) = Cardinality(m_clients[i]) + Busy(i) + Cardinality(Places(pending_tasks[i]))
    BY Zenon DEF Load, Busy, Places
  <1> QED
    BY <1>1, <1>2, <1>3 DEF Busy

LEMMA InitEven == Init => Counted /\ Even
  <1> SUFFICES ASSUME Init PROVE Counted /\ Even
    OBVIOUS
  <1>1. Counted
    BY FS_EmptySet DEF Init, Counted, Constructing
  <1>2. \A i \in Io : pending_tasks[i] = <<>> /\ m_clients[i] = {} /\ ~Constructing(i) /\ Ahead(i) = 0
    BY DEF Init, Constructing, Ahead, Io
  <1>3. Places(<<>>) = {}
    BY DEF Places
  <1>4. ASSUME NEW i \in Io PROVE Load(i) = 0 /\ Ahead(i) = 0
    <2>1. Cardinality(m_clients[i]) = 0 /\ Cardinality(Places(pending_tasks[i])) = 0
      BY <1>2, <1>3, FS_EmptySet, Zenon
    <2> QED
      BY <1>1, <1>2, <2>1, LoadParts, InitIInv DEF IInv, Busy
  <1> QED
    BY <1>1, <1>4 DEF Even

(* Steps in which no thread is given anything. *)
Quiet ==
  /\ UNCHANGED <<pending_tasks, m_clients, io_fd, m_index>>
  /\ \A i \in Io : Constructing(i)' <=> Constructing(i)

LEMMA QuietSteps ==
  ASSUME IInv,
         \/ CreateThread \/ InitWaited \/ ResumeAccept \/ StartThread \/ StartLoop
         \/ EpollWait \/ RunHandler \/ FindGroup \/ CreateGroup
         \/ Accept \/ AcceptYields \/ AcceptAgain
         \/ \E i \in Io : \/ NewLoop(i) \/ PostInit(i) \/ Started(i)
                          \/ IoFindGroup(i) \/ IoCreateGroup(i) \/ ConstructFails(i)
         \/ \E c \in Client : Connect(c) \/ Abort(c)
         \/ UNCHANGED vars
  PROVE  Quiet
  <1> USE DEF IInv, main_vars, accept_vars, io_vars, semaphores, Quiet
  <1>1. CASE InitWaited \/ StartThread \/ StartLoop \/ EpollWait
    BY <1>1 DEF InitWaited, StartThread, StartLoop, EpollWait, Constructing
  <1>2. CASE ResumeAccept \/ RunHandler \/ FindGroup \/ CreateGroup
    BY <1>2 DEF ResumeAccept, RunHandler, FindGroup, CreateGroup, Constructing
  <1>3. CASE Accept \/ AcceptYields \/ AcceptAgain
    BY <1>3 DEF Accept, AcceptYields, AcceptAgain, Take, Constructing
  <1>4. CASE CreateThread \/ \E i \in Io : NewLoop(i) \/ PostInit(i) \/ Started(i)
    <2>1. CreateThread => turn \in Io /\ turn >= turn
      BY DEF CreateThread, TypeOK, Io
    <2>2. PICK i \in Io, s \in {"main", "post", "start_wait", "loop"} :
            ~Constructing(i) /\ io_pc' = [io_pc EXCEPT ![i] = s]
      BY <1>4, <2>1 DEF CreateThread, NewLoop, PostInit, Started, Ready, NotCreated, Constructing
    <2>3. \A j \in Io : Constructing(j)' <=> Constructing(j)
      BY <2>2 DEF TypeOK, Constructing
    <2> QED
      BY <1>4, <2>3 DEF CreateThread, NewLoop, PostInit, Started
  <1>5. ASSUME NEW i \in Io, IoFindGroup(i) \/ IoCreateGroup(i) PROVE Quiet
    <2>1. \A j \in Io : Constructing(j)' <=> Constructing(j)
      BY <1>5 DEF IoFindGroup, IoCreateGroup, TypeOK, Constructing
    <2> QED
      BY <1>5, <2>1 DEF IoFindGroup, IoCreateGroup
  <1>6. ASSUME NEW i \in Io, ConstructFails(i) PROVE Quiet
    BY <1>6 DEF ConstructFails, Constructing
  <1>7. ASSUME NEW c \in Client, Connect(c) \/ Abort(c) PROVE Quiet
    BY <1>7 DEF Connect, Abort, Constructing
  <1>8. CASE UNCHANGED vars
    BY <1>8 DEF vars, Constructing
  <1> QED
    BY <1>1, <1>2, <1>3, <1>4, <1>5, <1>6, <1>7, <1>8

(* A thread's load is the same when what it is given moves on. *)
SameLoads == Counted' /\ (\A i \in Io : Load(i)' = Load(i)) /\ m_index' = m_index

LEMMA QuietLoads ==
  ASSUME Counted, Quiet
  PROVE  SameLoads
  <1>1. Counted'
    BY DEF Quiet, Counted
  <1>2. \A i \in Io : Load(i)' = Load(i)
    BY Zenon DEF Quiet, Load
  <1> QED
    BY <1>1, <1>2 DEF Quiet, SameLoads

LEMMA AddClientLoads ==
  ASSUME IInv, TypeOK', Counted, NEW i \in Io, AddClient(i)
  PROVE  SameLoads
  <1> USE DEF IInv
  <1>1. /\ pending_tasks[i] # <<>> /\ pending_tasks' = [pending_tasks EXCEPT ![i] = Tail(@)]
        /\ ~Constructing(i) /\ io_pc' = [io_pc EXCEPT ![i] = "group"]
        /\ io_fd' = [io_fd EXCEPT ![i] = Head(pending_tasks[i])[2]]
        /\ Head(pending_tasks[i])[1] = "client"
        /\ UNCHANGED <<m_clients, m_index>>
    BY DEF AddClient, IsNext, accept_vars, Constructing
  <1>2. pending_tasks[i] \in Seq(Task)
    BY DEF TypeOK
  <1>3. Head(pending_tasks[i])[2] \notin m_clients[i]
    <2> DEFINE c == Head(pending_tasks[i])[2]
    <2>1. Head(pending_tasks[i]) \in Task /\ Head(pending_tasks[i]) = pending_tasks[i][1]
          /\ 1 \in DOMAIN pending_tasks[i]
      BY <1>1, <1>2, TailAt
    <2>2. pending_tasks[i][1] = <<"client", c>>
      BY <1>1, <2>1 DEF Task
    <2>3. ASSUME c \in Client PROVE ~Held(i, c)
      BY <2>1, <2>2, <2>3 DEF Apart, Queued, Pos
    <2> QED
      BY <2>3 DEF Held, TypeOK
  <1>4. \A j \in Io : Constructing(j)' <=> Constructing(j) \/ j = i
    BY <1>1 DEF TypeOK, Constructing
  <1>5. Counted'
    BY <1>1, <1>3, <1>4 DEF Counted, TypeOK
  <1>6. ASSUME NEW j \in Io PROVE Load(j)' = Load(j)
    <2>1. CASE j = i
      <3>1. /\ Cardinality(Places(pending_tasks[i])) = Cardinality(Places(pending_tasks'[i])) + 1
            /\ Cardinality(Places(pending_tasks'[i])) \in Nat
        <4>1. pending_tasks'[i] = Tail(pending_tasks[i]) /\ Tail(pending_tasks[i]) \in Seq(Task)
          BY <1>1, <1>2, TailAt DEF TypeOK
        <4> QED
          BY <1>1, <1>2, <4>1, PlacesTail, PlacesFinite
      <3>2. /\ Load(i) = Cardinality(m_clients[i]) + Busy(i) + Cardinality(Places(pending_tasks[i]))
            /\ Cardinality(m_clients[i]) \in Nat
        BY LoadParts
      <3>3. Load(i)' = Cardinality(m_clients[i]) + Busy(i)' + Cardinality(Places(pending_tasks'[i]))
        BY <1>1, Zenon DEF Load, Busy, Places
      <3>4. Busy(i) = 0 /\ Busy(i)' = 1
        BY <1>1, <1>4 DEF Busy
      <3> QED
        BY <2>1, <3>1, <3>2, <3>3, <3>4
    <2>2. CASE j # i
      <3>1. pending_tasks'[j] = pending_tasks[j] /\ m_clients'[j] = m_clients[j]
            /\ (Constructing(j)' <=> Constructing(j))
        BY <1>1, <1>4, <2>2 DEF TypeOK
      <3> QED
        BY <3>1, Zenon DEF Load
    <2> QED
      BY <2>1, <2>2
  <1> QED
    BY <1>1, <1>5, <1>6 DEF SameLoads

LEMMA ConstructLoads ==
  ASSUME IInv, TypeOK', Counted, NEW i \in Io, Construct(i)
  PROVE  SameLoads
  <1> USE DEF IInv
  <1> DEFINE task == <<"resume", io_fd[i]>>
  <1>1. /\ io_fd[i] \in Client /\ task \in Task
        /\ pending_tasks' = [pending_tasks EXCEPT ![i] = Append(@, task)]
        /\ Constructing(i) /\ io_pc' = [io_pc EXCEPT ![i] = "loop"]
        /\ m_clients' = [m_clients EXCEPT ![i] = @ \cup {io_fd[i]}]
        /\ UNCHANGED <<io_fd, m_index>>
    BY DEF Construct, accept_vars, Constructing, TypeOK, Task
  <1>2. \A j \in Io : Constructing(j)' <=> Constructing(j) /\ j # i
    BY <1>1 DEF TypeOK, Constructing
  <1>3. \A j \in Io : m_clients'[j] = IF j = i THEN m_clients[i] \cup {io_fd[i]} ELSE m_clients[j]
    BY <1>1 DEF TypeOK
  <1>4. /\ IsFiniteSet(m_clients[i] \cup {io_fd[i]})
        /\ Cardinality(m_clients[i] \cup {io_fd[i]}) = Cardinality(m_clients[i]) + 1
    BY <1>1, FS_AddElement DEF Counted
  <1>5. Counted'
    BY <1>1, <1>2, <1>3, <1>4 DEF Counted
  <1>6. ASSUME NEW j \in Io PROVE Load(j)' = Load(j)
    <2>1. CASE j = i
      <3>1. Cardinality(Places(pending_tasks'[i])) = Cardinality(Places(pending_tasks[i]))
        <4>1. pending_tasks'[i] = Append(pending_tasks[i], task) /\ pending_tasks[i] \in Seq(Task)
          BY <1>1 DEF TypeOK
        <4>2. Cardinality(Places(pending_tasks[i])) \in Nat /\ task[1] = "resume"
          BY LoadParts
        <4> HIDE DEF task
        <4> QED
          BY <1>1, <4>1, <4>2, PlacesAppend
      <3>2. /\ Load(i) = Cardinality(m_clients[i]) + Busy(i) + Cardinality(Places(pending_tasks[i]))
            /\ Cardinality(m_clients[i]) \in Nat /\ Cardinality(Places(pending_tasks[i])) \in Nat
        BY LoadParts
      <3>3. Load(i)' = Cardinality(m_clients'[i]) + Busy(i)' + Cardinality(Places(pending_tasks'[i]))
        BY Zenon DEF Load, Busy, Places
      <3>4. Busy(i) = 1 /\ Busy(i)' = 0
        BY <1>1, <1>2 DEF Busy
      <3>5. Cardinality(m_clients'[i]) = Cardinality(m_clients[i]) + 1
        BY <1>3, <1>4, Zenon
      <3> QED
        BY <2>1, <3>1, <3>2, <3>3, <3>4, <3>5
    <2>2. CASE j # i
      <3>1. pending_tasks'[j] = pending_tasks[j] /\ m_clients'[j] = m_clients[j]
            /\ (Constructing(j)' <=> Constructing(j))
        BY <1>1, <1>2, <1>3, <2>2 DEF TypeOK
      <3> QED
        BY <3>1, Zenon DEF Load
    <2> QED
      BY <2>1, <2>2
  <1> QED
    BY <1>1, <1>5, <1>6 DEF SameLoads

LEMMA RunCoroutineLoads ==
  ASSUME IInv, Counted, NEW i \in Io, RunCoroutine(i)
  PROVE  SameLoads
  <1> USE DEF IInv
  <1>1. /\ pending_tasks[i] # <<>> /\ pending_tasks' = [pending_tasks EXCEPT ![i] = Tail(@)]
        /\ Head(pending_tasks[i])[1] = "resume"
        /\ UNCHANGED <<m_clients, m_index, io_pc, io_fd>>
    BY DEF RunCoroutine, IsNext, accept_vars
  <1>2. pending_tasks[i] \in Seq(Task)
    BY DEF TypeOK
  <1>3. \A j \in Io : Constructing(j)' <=> Constructing(j)
    BY <1>1 DEF Constructing
  <1>4. Counted'
    BY <1>1, <1>3 DEF Counted
  <1>5. ASSUME NEW j \in Io PROVE Load(j)' = Load(j)
    <2>1. Cardinality(Places(pending_tasks'[j])) = Cardinality(Places(pending_tasks[j]))
      <3>1. CASE j = i
        <4>1. pending_tasks'[i] = Tail(pending_tasks[i]) /\ Tail(pending_tasks[i]) \in Seq(Task)
          BY <1>1, <1>2, TailAt DEF TypeOK
        <4>2. Cardinality(Places(Tail(pending_tasks[i]))) \in Nat
          BY <4>1, PlacesFinite
        <4> QED
          BY <1>1, <1>2, <3>1, <4>1, <4>2, PlacesTail
      <3>2. CASE j # i
        BY <1>1, <3>2 DEF TypeOK
      <3> QED
        BY <3>1, <3>2
    <2> QED
      BY <1>1, <1>3, <2>1, Zenon DEF Load, Places
  <1> QED
    BY <1>1, <1>4, <1>5 DEF SameLoads

(* The next thread is given one more, and m_index passes it. *)
LEMMA OnAcceptEven ==
  ASSUME IInv, Counted, Even, OnAccept
  PROVE  Counted' /\ Even'
  <1> USE DEF IInv
  <1> DEFINE t == ThreadIndex
             task == <<"client", client_fd>>
  <1>1. /\ t \in Io /\ task \in Task
        /\ pending_tasks' = [pending_tasks EXCEPT ![t] = Append(@, task)]
        /\ m_index' = t + 1
        /\ UNCHANGED <<m_clients, io_pc, io_fd>>
    BY DEF OnAccept, ThreadIndex, TypeOK, Io, Task, io_vars
  <1>2. /\ \/ t = m_index /\ m_index < IoThreads
           \/ t = 0 /\ m_index = IoThreads
        /\ m_index \in Nat
    BY DEF ThreadIndex, TypeOK
  <1>3. \A j \in Io : Constructing(j)' <=> Constructing(j)
    BY <1>1 DEF Constructing
  <1>4. Counted'
    BY <1>1, <1>3 DEF Counted
  <1>5. task[1] = "client"
    OBVIOUS
  <1> HIDE DEF t, task
  <1>6. ASSUME NEW j \in Io PROVE Load(j)' = Load(j) + (IF j = t THEN 1 ELSE 0)
    <2>1. Cardinality(Places(pending_tasks'[j]))
            = Cardinality(Places(pending_tasks[j])) + (IF j = t THEN 1 ELSE 0)
      <3>1. pending_tasks[j] \in Seq(Task) /\ Cardinality(Places(pending_tasks[j])) \in Nat
        BY LoadParts DEF TypeOK
      <3>2. pending_tasks'[j] = IF j = t THEN Append(pending_tasks[j], task) ELSE pending_tasks[j]
        BY <1>1 DEF TypeOK
      <3>3. CASE j = t
        BY <1>1, <1>5, <3>1, <3>2, <3>3, PlacesAppend
      <3>4. CASE j # t
        BY <3>1, <3>2, <3>4
      <3> QED
        BY <3>3, <3>4
    <2>2. Load(j)' = Cardinality(m_clients[j]) + Busy(j) + Cardinality(Places(pending_tasks'[j]))
      BY <1>1, <1>3, Zenon DEF Load, Busy, Places
    <2>3. /\ Load(j) = Cardinality(m_clients[j]) + Busy(j) + Cardinality(Places(pending_tasks[j]))
          /\ Cardinality(m_clients[j]) \in Nat /\ Cardinality(Places(pending_tasks[j])) \in Nat
      BY LoadParts
    <2> QED
      BY <2>1, <2>2, <2>3 DEF Busy
  <1>7. Even'
    <2> SUFFICES ASSUME NEW i \in Io, NEW j \in Io
                 PROVE  Load(i)' + Ahead(j)' = Load(j)' + Ahead(i)'
      BY DEF Even
    <2>1. Load(i) + Ahead(j) = Load(j) + Ahead(i) /\ Load(i) \in Nat /\ Load(j) \in Nat
      BY LoadParts DEF Even
    <2>2. \A k \in Io : Ahead(k)' = (IF k <= t THEN 1 ELSE 0)
      BY <1>1 DEF Ahead, Io
    <2>3. \A k \in Io : Ahead(k) = IF t = m_index THEN (IF k < t THEN 1 ELSE 0) ELSE 1
      BY <1>2 DEF Ahead, Io
    <2>4. i \in Nat /\ j \in Nat /\ t \in Nat /\ (t # m_index => t = 0)
      BY <1>1, <1>2 DEF Io
    <2>5. /\ Load(i)' = Load(i) + (IF i = t THEN 1 ELSE 0)
          /\ Load(j)' = Load(j) + (IF j = t THEN 1 ELSE 0)
      BY <1>6
    <2> QED
      BY <2>1, <2>2, <2>3, <2>4, <2>5
  <1> QED
    BY <1>4, <1>7

LEMMA StepEven == IInv /\ TypeOK' /\ Counted /\ Even /\ [Next]_vars => Counted' /\ Even'
  <1> SUFFICES ASSUME IInv, TypeOK', Counted, Even, [Next]_vars PROVE Counted' /\ Even'
    OBVIOUS
  <1>1. CASE OnAccept
    BY <1>1, OnAcceptEven
  <1>2. CASE SameLoads
    BY <1>2 DEF SameLoads, Even, Ahead
  <1>3. ASSUME NEW i \in Io, AddClient(i) \/ Construct(i) \/ RunCoroutine(i)
        PROVE  SameLoads
    BY <1>3, AddClientLoads, ConstructLoads, RunCoroutineLoads
  <1>4. CASE Quiet
    BY <1>2, <1>4, QuietLoads
  <1> QED
    BY <1>1, <1>2, <1>3, <1>4, QuietSteps DEF Next, MainStep, IoStep

(* getIOThread never gives a thread two clients more than another one.     *)
THEOREM RoundRobin == Spec => []Balanced
  <1>1. IInv /\ Counted /\ Even => Balanced
    <2> SUFFICES ASSUME IInv, Counted, Even, NEW i \in Io, NEW j \in Io
                 PROVE  Load(i) <= Load(j) + 1
      BY DEF Balanced
    <2>1. Load(i) \in Nat /\ Load(j) \in Nat
      BY LoadParts DEF IInv
    <2> QED
      BY <2>1 DEF Even, Ahead
  <1>2. IInv => TypeOK
    BY DEF IInv
  <1> QED
    BY <1>1, <1>2, InitEven, StepEven, Invariance, PTL DEF Spec
=============================================================================
