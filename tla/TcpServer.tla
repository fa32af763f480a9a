----------------------------- MODULE TcpServer ------------------------------
(***************************************************************************)
(* How a server starts and hands out its clients: rocket::TcpServer and    *)
(* TcpAcceptor (rocket/net/tcp/tcp_server.cpp, tcp_acceptor.cpp), IOThread *)
(* and IOThreadGroup (rocket/net/io_thread*.cpp), the hook of accept, and  *)
(* the construction of a TcpConnection on its IO thread.                   *)
(*                                                                         *)
(* The main thread creates the IO threads, runs the accept coroutine until *)
(* it first waits, starts the threads and then its own loop.  An IO        *)
(* thread's loop is the FIFO queue of TaskQueue, which EventLoop           *)
(* implements: a task runs some time after it was added, be it because     *)
(* epoll_wait times out.  A client stands for its connection and the       *)
(* descriptor: the server closes none, so that no number is used again.    *)
(*                                                                         *)
(* getFdEvent of the descriptor -1 reads in front of the table's vector:   *)
(* undefined, and the model ends there (broken).                           *)
(***************************************************************************)
EXTENDS Naturals, Sequences, FiniteSets

CONSTANTS
  IoThreads,   \* m_io_threads of the configuration
  Client,      \* those who may connect
  FdLimit,     \* how many descriptors accept may open
  MaxCounts,   \* bound: calls of accept that return, failures included
  NoClient     \* a failed accept: the descriptor -1

ASSUME IoThreadsAssumption == IoThreads \in Nat \ {0}
ASSUME ClientAssumption == NoClient \notin Client
ASSUME FdLimitAssumption == FdLimit \in Nat
ASSUME BoundAssumption == MaxCounts \in Nat

Io == 0 .. IoThreads - 1        \* indices into m_io_thread_groups

VARIABLES
  main_pc,         \* the main thread outside its accept coroutine
  turn,            \* i of the loop over the group that it is in
  accept_pc,       \* the accept coroutine
  client_fd,       \* what toAccept returned last
  m_index,         \* of the IOThreadGroup
  m_client_counts,
  listening,       \* the listening descriptor is registered with epoll
  posted,          \* its handler is a task of the main loop
  groups,          \* FdEventGroups that GetFdEventGroup has constructed
  m_event_loop,    \* per IO thread: whether it has its loop yet
  m_init_semaphore, m_start_semaphore,
  io_pc, io_fd,    \* per IO thread: where it is, with which client
  pending_tasks,   \* per IO thread: the queue of its loop
  pool,            \* per client: the thread of its coroutine's pool
  m_clients,       \* per IO thread
  served,          \* clients whose coroutine has started, with the thread
  outside,         \* clients that have not connected yet
  backlog,         \* clients that wait to be accepted
  accepted,        \* descriptors that were opened
  broken

main_vars == <<main_pc, turn>>
accept_vars == <<accept_pc, client_fd, m_index, m_client_counts, listening, accepted>>
io_vars == <<io_pc, io_fd, pool, m_clients, served>>
semaphores == <<m_event_loop, m_init_semaphore, m_start_semaphore>>
vars == <<main_vars, accept_vars, io_vars, semaphores, posted, groups,
          pending_tasks, outside, backlog, broken>>

Init ==
  /\ main_pc = "create" /\ turn = 0
  /\ accept_pc = "none" /\ client_fd = NoClient
  /\ m_index = 0 /\ m_client_counts = 0
  /\ listening = FALSE /\ posted = FALSE
  /\ groups = 0
  /\ m_event_loop = [i \in Io |-> FALSE]
  /\ m_init_semaphore = [i \in Io |-> 0]
  /\ m_start_semaphore = [i \in Io |-> 0]
  /\ io_pc = [i \in Io |-> "none"]
  /\ io_fd = [i \in Io |-> NoClient]
  /\ pending_tasks = [i \in Io |-> <<>>]
  /\ pool = [c \in Client |-> {}]
  /\ m_clients = [i \in Io |-> {}]
  /\ served = [i \in Io |-> {}]
  /\ outside = Client /\ backlog = {} /\ accepted = {}
  /\ broken = FALSE

-----------------------------------------------------------------------------
(* The main thread, when its coroutine does not run.                       *)

InMain == accept_pc \in {"none", "wait"}

(* The constructor of the next IOThread: pthread_create ... *)
CreateThread ==
  /\ InMain /\ main_pc = "create" /\ turn < IoThreads
  /\ io_pc' = [io_pc EXCEPT ![turn] = "main"]
  /\ main_pc' = "init_wait"
  /\ UNCHANGED <<turn, accept_vars, io_fd, pool, m_clients, served, semaphores,
                 posted, groups, pending_tasks, outside, backlog, broken>>

(* Mutant: the constructor does not wait for the thread. *)
InitUnwaited ==
  /\ main_pc = "init_wait"
  /\ turn' = turn + 1
  /\ main_pc' = "create"
  /\ UNCHANGED <<accept_vars, io_vars, semaphores, posted, groups,
                 pending_tasks, outside, backlog, broken>>

(* ... and sem_wait, until the thread has a loop. *)
InitWaited ==
  /\ main_pc = "init_wait"
  /\ m_init_semaphore[turn] > 0
  /\ m_init_semaphore' = [m_init_semaphore EXCEPT ![turn] = @ - 1]
  /\ turn' = turn + 1
  /\ main_pc' = "create"
  /\ UNCHANGED <<accept_vars, io_vars, m_event_loop, m_start_semaphore, posted,
                 groups, pending_tasks, outside, backlog, broken>>

(* init resumes the accept coroutine, which comes back when it yields. *)
ResumeAccept ==
  /\ InMain /\ main_pc = "create" /\ turn = IoThreads
  /\ main_pc' = "start" /\ turn' = 0
  /\ accept_pc' = "group"
  /\ UNCHANGED <<client_fd, m_index, m_client_counts, listening, accepted,
                 io_vars, semaphores, posted, groups, pending_tasks, outside,
                 backlog, broken>>

(* Mutant: start() goes one past the group. *)
StartThreadPast ==
  /\ InMain /\ main_pc = "start" /\ turn <= IoThreads
  /\ m_start_semaphore' = [m_start_semaphore EXCEPT ![turn % IoThreads] = @ + 1]
  /\ turn' = turn + 1
  /\ UNCHANGED <<main_pc, accept_vars, io_vars, m_event_loop, m_init_semaphore,
                 posted, groups, pending_tasks, outside, backlog, broken>>

(* start(): one sem_post per thread, then the loop. *)
StartThread ==
  /\ InMain /\ main_pc = "start" /\ turn < IoThreads
  /\ m_start_semaphore' = [m_start_semaphore EXCEPT ![turn] = @ + 1]
  /\ turn' = turn + 1
  /\ UNCHANGED <<main_pc, accept_vars, io_vars, m_event_loop, m_init_semaphore,
                 posted, groups, pending_tasks, outside, backlog, broken>>

StartLoop ==
  /\ InMain /\ main_pc = "start" /\ turn = IoThreads
  /\ main_pc' = "loop"
  /\ UNCHANGED <<turn, accept_vars, io_vars, semaphores, posted, groups,
                 pending_tasks, outside, backlog, broken>>

(* The main loop posts the handler of the listening descriptor ... *)
EpollWait ==
  /\ InMain /\ main_pc = "loop"
  /\ listening /\ backlog # {} /\ ~posted
  /\ posted' = TRUE
  /\ UNCHANGED <<main_vars, accept_vars, io_vars, semaphores, groups,
                 pending_tasks, outside, backlog, broken>>

(* ... and runs it: the coroutine goes on behind its yield. *)
RunHandler ==
  /\ InMain /\ main_pc = "loop" /\ posted
  /\ posted' = FALSE
  /\ accept_pc' = "again"
  /\ UNCHANGED <<main_vars, client_fd, m_index, m_client_counts, listening,
                 accepted, io_vars, semaphores, groups, pending_tasks, outside,
                 backlog, broken>>

-----------------------------------------------------------------------------
(* The accept coroutine: onAccept, toAccept and the hook of accept.        *)

(* accept(2): a client and a descriptor, or the failure -1. *)
Acceptable == backlog # {} /\ Cardinality(accepted) < FdLimit

Take(c) ==
  /\ client_fd' = c
  /\ backlog' = backlog \ {c}
  /\ accepted' = accepted \cup {c}

(* Mutant: the listening descriptor has an FdEvent of its own, outside the *)
(* table, as in the code that tcp_server.cpp:48 comments out.              *)
FindGroupNot ==
  /\ accept_pc = "group"
  /\ accept_pc' = "accept"
  /\ UNCHANGED <<main_vars, client_fd, m_index, m_client_counts, listening,
                 accepted, io_vars, semaphores, posted, groups, pending_tasks,
                 outside, backlog, broken>>

(* GetFdEventGroup tests the singleton and creates it, without a lock. *)
FindGroup ==
  /\ accept_pc = "group"
  /\ accept_pc' = IF groups = 0 THEN "new_group" ELSE "accept"
  /\ UNCHANGED <<main_vars, client_fd, m_index, m_client_counts, listening,
                 accepted, io_vars, semaphores, posted, groups, pending_tasks,
                 outside, backlog, broken>>

CreateGroup ==
  /\ accept_pc = "new_group"
  /\ groups' = groups + 1
  /\ accept_pc' = "accept"
  /\ UNCHANGED <<main_vars, client_fd, m_index, m_client_counts, listening,
                 accepted, io_vars, semaphores, posted, pending_tasks, outside,
                 backlog, broken>>

(* The first accept of the hook succeeds ... *)
Accept ==
  /\ accept_pc = "accept" /\ Acceptable
  /\ \E c \in backlog : Take(c)
  /\ accept_pc' = "dispatch"
  /\ UNCHANGED <<main_vars, m_index, m_client_counts, listening, io_vars,
                 semaphores, posted, groups, pending_tasks, outside, broken>>

(* Mutant: the hook yields without the registration. *)
AcceptYieldsUnregistered ==
  /\ accept_pc = "accept" /\ ~Acceptable
  /\ accept_pc' = "wait"
  /\ UNCHANGED <<main_vars, client_fd, m_index, m_client_counts, listening, accepted, io_vars,
                 semaphores, posted, groups, pending_tasks, outside, backlog,
                 broken>>

(* ... or it registers the descriptor and yields. *)
AcceptYields ==
  /\ accept_pc = "accept" /\ ~Acceptable
  /\ listening' = TRUE
  /\ accept_pc' = "wait"
  /\ UNCHANGED <<main_vars, client_fd, m_index, m_client_counts, accepted, io_vars,
                 semaphores, posted, groups, pending_tasks, outside, backlog,
                 broken>>

(* What the second accept returns is passed on, the failure too. *)
AcceptAgain ==
  /\ accept_pc = "again"
  /\ listening' = FALSE
  /\ \/ Acceptable /\ \E c \in backlog : Take(c)
     \/ ~Acceptable /\ client_fd' = NoClient /\ UNCHANGED <<backlog, accepted>>
  /\ accept_pc' = "dispatch"
  /\ UNCHANGED <<main_vars, m_index, m_client_counts, io_vars, semaphores,
                 posted, groups, pending_tasks, outside, broken>>

(* Mutant: the index wraps to the second thread. *)
ThreadIndexOne == IF m_index = IoThreads THEN 1 % IoThreads ELSE m_index

(* getIOThread *)
ThreadIndex == IF m_index = IoThreads THEN 0 ELSE m_index

(* Mutant: the connection is constructed on the main thread, with a        *)
(* coroutine of the main thread's pool (IoThreads stands for that thread). *)
OnAcceptInMain ==
  /\ accept_pc = "dispatch"
  /\ client_fd # NoClient
  /\ m_client_counts' = m_client_counts + 1
  /\ m_index' = ThreadIndex + 1
  /\ pool' = [pool EXCEPT ![client_fd] = @ \cup {IoThreads}]
  /\ m_clients' = [m_clients EXCEPT ![ThreadIndex] = @ \cup {client_fd}]
  /\ pending_tasks' = [pending_tasks EXCEPT ![ThreadIndex] = Append(@, <<"resume", client_fd>>)]
  /\ accept_pc' = "group"
  /\ UNCHANGED <<main_vars, client_fd, listening, accepted, io_pc, io_fd, served,
                 semaphores, posted, groups, outside, backlog, broken>>

(* onAccept: the client is a task of the next thread's loop, and accept is *)
(* called again.                                                           *)
OnAccept ==
  /\ accept_pc = "dispatch"
  /\ m_client_counts < MaxCounts
  /\ m_client_counts' = m_client_counts + 1
  /\ m_index' = ThreadIndex + 1
  /\ pending_tasks' = [pending_tasks EXCEPT ![ThreadIndex] = Append(@, <<"client", client_fd>>)]
  /\ accept_pc' = "group"
  /\ UNCHANGED <<main_vars, client_fd, listening, accepted, io_vars, semaphores,
                 posted, groups, outside, backlog, broken>>

-----------------------------------------------------------------------------
(* IOThread::Main                                                          *)

NewLoop(i) ==
  /\ io_pc[i] = "main"
  /\ m_event_loop' = [m_event_loop EXCEPT ![i] = TRUE]
  /\ io_pc' = [io_pc EXCEPT ![i] = "post"]
  /\ UNCHANGED <<main_vars, accept_vars, io_fd, pool, m_clients, served,
                 m_init_semaphore, m_start_semaphore, posted, groups,
                 pending_tasks, outside, backlog, broken>>

PostInit(i) ==
  /\ io_pc[i] = "post"
  /\ m_init_semaphore' = [m_init_semaphore EXCEPT ![i] = @ + 1]
  /\ io_pc' = [io_pc EXCEPT ![i] = "start_wait"]
  /\ UNCHANGED <<main_vars, accept_vars, io_fd, pool, m_clients, served,
                 m_event_loop, m_start_semaphore, posted, groups,
                 pending_tasks, outside, backlog, broken>>

Started(i) ==
  /\ io_pc[i] = "start_wait"
  /\ m_start_semaphore[i] > 0
  /\ m_start_semaphore' = [m_start_semaphore EXCEPT ![i] = @ - 1]
  /\ io_pc' = [io_pc EXCEPT ![i] = "loop"]
  /\ UNCHANGED <<main_vars, accept_vars, io_fd, pool, m_clients, served,
                 m_event_loop, m_init_semaphore, posted, groups,
                 pending_tasks, outside, backlog, broken>>

IsNext(i, kind) ==
  /\ io_pc[i] = "loop"
  /\ pending_tasks[i] # <<>>
  /\ Head(pending_tasks[i])[1] = kind

(* Mutant: the task holds a reference to client_fd instead of its value. *)
AddClientByReference(i) ==
  /\ IsNext(i, "client")
  /\ io_fd' = [io_fd EXCEPT ![i] = client_fd]
  /\ pending_tasks' = [pending_tasks EXCEPT ![i] = Tail(@)]
  /\ io_pc' = [io_pc EXCEPT ![i] = "group"]
  /\ UNCHANGED <<main_vars, accept_vars, pool, m_clients, served, semaphores,
                 posted, groups, outside, backlog, broken>>

(* The task of onAccept: addClient constructs the TcpConnection. *)
AddClient(i) ==
  /\ IsNext(i, "client")
  /\ io_fd' = [io_fd EXCEPT ![i] = Head(pending_tasks[i])[2]]
  /\ pending_tasks' = [pending_tasks EXCEPT ![i] = Tail(@)]
  /\ io_pc' = [io_pc EXCEPT ![i] = "group"]
  /\ UNCHANGED <<main_vars, accept_vars, pool, m_clients, served, semaphores,
                 posted, groups, outside, backlog, broken>>

IoFindGroup(i) ==
  /\ io_pc[i] = "group"
  /\ io_pc' = [io_pc EXCEPT ![i] = IF groups = 0 THEN "new_group" ELSE "construct"]
  /\ UNCHANGED <<main_vars, accept_vars, io_fd, pool, m_clients, served,
                 semaphores, posted, groups, pending_tasks, outside, backlog,
                 broken>>

IoCreateGroup(i) ==
  /\ io_pc[i] = "new_group"
  /\ groups' = groups + 1
  /\ io_pc' = [io_pc EXCEPT ![i] = "construct"]
  /\ UNCHANGED <<main_vars, accept_vars, io_fd, pool, m_clients, served,
                 semaphores, posted, pending_tasks, outside, backlog, broken>>

(* The rest of the constructor: a coroutine of this thread's pool, which   *)
(* addCoroutine hands to this thread's loop.                               *)
Construct(i) ==
  /\ io_pc[i] = "construct" /\ io_fd[i] # NoClient
  /\ pool' = [pool EXCEPT ![io_fd[i]] = @ \cup {i}]
  /\ pending_tasks' = [pending_tasks EXCEPT ![i] = Append(@, <<"resume", io_fd[i]>>)]
  /\ m_clients' = [m_clients EXCEPT ![i] = @ \cup {io_fd[i]}]
  /\ io_pc' = [io_pc EXCEPT ![i] = "loop"]
  /\ UNCHANGED <<main_vars, accept_vars, io_fd, served, semaphores, posted,
                 groups, outside, backlog, broken>>

(* getFdEvent(-1): neither below the table's size nor above a new one. *)
ConstructFails(i) ==
  /\ io_pc[i] = "construct" /\ io_fd[i] = NoClient
  /\ broken' = TRUE
  /\ UNCHANGED <<main_vars, accept_vars, io_vars, semaphores, posted, groups,
                 pending_tasks, outside, backlog>>

(* The connection's coroutine starts: MainServerLoopCorFunc. *)
RunCoroutine(i) ==
  /\ IsNext(i, "resume")
  /\ served' = [served EXCEPT ![i] = @ \cup {Head(pending_tasks[i])[2]}]
  /\ pending_tasks' = [pending_tasks EXCEPT ![i] = Tail(@)]
  /\ UNCHANGED <<main_vars, accept_vars, io_pc, io_fd, pool, m_clients,
                 semaphores, posted, groups, outside, backlog, broken>>

-----------------------------------------------------------------------------
(* The clients and the kernel.                                             *)

Connect(c) ==
  /\ c \in outside
  /\ outside' = outside \ {c} /\ backlog' = backlog \cup {c}
  /\ UNCHANGED <<main_vars, accept_vars, io_vars, semaphores, posted, groups,
                 pending_tasks, broken>>

(* A connection is gone before it was accepted. *)
Abort(c) ==
  /\ c \in backlog
  /\ backlog' = backlog \ {c}
  /\ UNCHANGED <<main_vars, accept_vars, io_vars, semaphores, posted, groups,
                 pending_tasks, outside, broken>>

MainStep ==
  \/ CreateThread \/ InitWaited \/ ResumeAccept \/ StartThread \/ StartLoop
  \/ EpollWait \/ RunHandler
  \/ FindGroup \/ CreateGroup \/ Accept \/ AcceptYields \/ AcceptAgain
  \/ OnAccept

IoStep(i) ==
  \/ NewLoop(i) \/ PostInit(i) \/ Started(i)
  \/ AddClient(i) \/ IoFindGroup(i) \/ IoCreateGroup(i)
  \/ Construct(i) \/ ConstructFails(i) \/ RunCoroutine(i)

Next ==
  /\ ~broken
  /\ \/ MainStep
     \/ \E i \in Io : IoStep(i)
     \/ \E c \in Client : Connect(c) \/ Abort(c)

Spec == Init /\ [][Next]_vars

(* Every thread keeps running; clients come and go as they like. *)
FairSpec ==
  /\ Spec
  /\ WF_vars(~broken /\ MainStep)
  /\ \A i \in Io : WF_vars(~broken /\ IoStep(i))
-----------------------------------------------------------------------------
Constructing(i) == io_pc[i] \in {"group", "new_group", "construct"}

Task == {"client", "resume"} \X (Client \cup {NoClient})

TypeOK ==
  /\ main_pc \in {"create", "init_wait", "start", "loop"}
  /\ turn \in 0 .. IoThreads
  /\ main_pc = "init_wait" => turn < IoThreads
  /\ accept_pc \in {"none", "group", "new_group", "accept", "wait", "again", "dispatch"}
  /\ client_fd \in Client \cup {NoClient}
  /\ m_index \in 0 .. IoThreads
  /\ m_client_counts \in Nat
  /\ listening \in BOOLEAN /\ posted \in BOOLEAN /\ broken \in BOOLEAN
  /\ groups \in Nat
  /\ m_event_loop \in [Io -> BOOLEAN]
  /\ m_init_semaphore \in [Io -> Nat]
  /\ m_start_semaphore \in [Io -> Nat]
  /\ io_pc \in [Io -> {"none", "main", "post", "start_wait", "loop",
                       "group", "new_group", "construct"}]
  /\ io_fd \in [Io -> Client \cup {NoClient}]
  /\ pending_tasks \in [Io -> Seq(Task)]
  /\ pool \in [Client -> SUBSET (0 .. IoThreads)]
  /\ m_clients \in [Io -> SUBSET Client]
  /\ served \in [Io -> SUBSET Client]
  /\ outside \subseteq Client /\ backlog \subseteq Client /\ accepted \subseteq Client

(* io_thread.cpp:20, the constructor waits for the new thread because its  *)
(* object must not be used before it is initialised: a client is handed to *)
(* a thread, and a thread to the loop, only when the thread has its loop.  *)
LoopExists ==
  /\ accept_pc = "dispatch" => m_event_loop[ThreadIndex]
  /\ \A i \in Io : io_pc[i] \in {"start_wait", "loop"} => m_event_loop[i]

(* GetFdEventGroup has no lock, and every IO thread calls it: the accept   *)
(* coroutine has made the table before any thread can ask, and there is    *)
(* never a second one.                                                     *)
OneGroup == groups <= 1

(* Every accepted client is on its way to, or at, exactly one IO thread    *)
(* (tcp_server.cpp:66-76): none is lost and none is constructed twice,     *)
(* however the tasks of different clients overlap.                         *)
HandedOnce ==
  \A c \in accepted :
    LET queued == UNION {{<<i, k>> : k \in {k \in DOMAIN pending_tasks[i] :
                             pending_tasks[i][k] = <<"client", c>>}} : i \in Io}
        held == {i \in Io : c \in m_clients[i] \/ (Constructing(i) /\ io_fd[i] = c)}
        kept == IF accept_pc = "dispatch" /\ client_fd = c THEN {c} ELSE {}
    IN  Cardinality(queued) + Cardinality(held) + Cardinality(kept) = 1

Load(i) ==
  Cardinality(m_clients[i]) + (IF Constructing(i) THEN 1 ELSE 0)
    + Cardinality({k \in DOMAIN pending_tasks[i] : pending_tasks[i][k][1] = "client"})

(* getIOThread goes round: no thread is given two clients more than        *)
(* another, failed accepts included.                                       *)
Balanced == \A i, j \in Io : Load(i) <= Load(j) + 1

(* tcp_server.cpp:68-72, connections are constructed by a task of the IO   *)
(* thread so that each thread has its own coroutine pool: a connection's   *)
(* coroutine is of the pool of the thread that runs it, and it only runs   *)
(* there.                                                                  *)
OwnPool == \A i \in Io : \A c \in served[i] : c \in m_clients[i] /\ pool[c] = {i}

(* A client in the backlog has its coroutine started in the end, whether   *)
(* it came before start(), between two tries of accept or while the        *)
(* coroutine waited, unless it left or an accept failed.                   *)
ClientServed ==
  \A c \in Client :
    c \in backlog ~> (broken \/ c \notin backlog \cup accepted
                             \/ \E i \in Io : c \in served[i])
=============================================================================
