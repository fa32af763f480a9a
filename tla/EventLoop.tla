------------------------------ MODULE EventLoop ------------------------------
(***************************************************************************)
(* rocket::EventLoop (rocket/net/eventloop.{h,cpp}): one thread that swaps *)
(* the queue of pending tasks out under m_mutex, runs the batch, blocks in *)
(* epoll_wait and posts the handlers of the events it is given as tasks of *)
(* the next batch, while other threads hand tasks over with addTask.       *)
(*                                                                         *)
(* Threads take one step at a time.  The unsynchronised parts of the code  *)
(* are the pushes and the swap of m_pending_tasks, which m_mutex guards;   *)
(* when two threads are nevertheless at them together (Raced), what the    *)
(* std::queue holds is undefined: neither of them has a next step here.    *)
(***************************************************************************)
EXTENDS ScopeMutex, Naturals, Sequences, FiniteSets, Functions

CONSTANTS
  LoopThread,   \* the thread that created the loop and runs loop()
  Poster,       \* other threads, which hold a pointer to the loop
  Client,       \* closures handed to addTask by them or by running tasks
  Fd,           \* file descriptors the loop may listen on
  WakeupFd,     \* m_wakeup_fd, one of Fd
  WakeFlags,    \* the values callers pass for is_wake_up
  Requests,     \* the registrations callers ask for: <<fd, "ADD" or "DEL">>
  Arrivals,     \* the events that occur on descriptors: <<fd, kind>>
  MaxEvents,    \* g_epoll_max_events
  NoTask        \* the cb of a loop that has run nothing

ASSUME ThreadAssumption == LoopThread \notin Poster /\ NoOwner \notin Poster \cup {LoopThread}
ASSUME FdAssumption == WakeupFd \in Fd
ASSUME WakeAssumption == WakeFlags \subseteq BOOLEAN
ASSUME MaxEventsAssumption == MaxEvents \in Nat \ {0}

Thread       == Poster \cup {LoopThread}
Handler      == Fd \X {"IN", "OUT"}     \* the read and write callbacks
Registration == Fd \X {"ADD", "DEL"}    \* the closures of add/deleteEpollEvent
Event        == Fd \X {"IN", "OUT", "ERR"}
WakeEvent    == <<WakeupFd, "IN">>
Task         == Client \cup Handler \cup Registration

ASSUME EnvironmentAssumption ==
  /\ Requests \subseteq Registration /\ \A r \in Requests : r[1] # WakeupFd
  /\ Arrivals \subseteq Event /\ \A e \in Arrivals : e[1] # WakeupFd
ASSUME TaskAssumption ==
  /\ Client \cap (Handler \cup Registration) = {}
  /\ NoTask \notin Task

VARIABLES
  m_pending_tasks,  \* the shared queue
  temp_tasks,       \* loop()'s local queue, what is left of the batch
  cb,               \* loop()'s local cb: the task run last
  m_stop_flag,
  m_listen_fds,     \* the fds registered with epoll
  ready,            \* the kernel's side: events that are pending on fds
  result_events,    \* what epoll_wait returned and was not dispatched yet
  loop_pc,          \* where loop() is
  add_pc,           \* where each thread is in addTask() or stop()
  add_callback,     \* the task it hands over
  add_wake          \* its is_wake_up

loopVars == <<temp_tasks, cb, result_events, loop_pc>>
addVars  == <<add_pc, add_callback, add_wake>>
vars == <<m_mutex, m_pending_tasks, temp_tasks, cb, m_stop_flag, m_listen_fds,
          ready, result_events, loop_pc, add_pc, add_callback, add_wake>>

LoopPc == {"check", "lock", "swap", "unlock", "run", "in_callback", "wait",
           "dispatch", "scope_end", "exit"}
AddPc  == {"idle", "lock", "push", "unlock", "wake", "return", "stop_wake"}

(* Every task that was handed over and not yet executed, in order. *)
Queue == temp_tasks \o m_pending_tasks

(* Tasks in the queue, or on their way into it. *)
Outstanding ==
  Range(Queue) \cup {add_callback[t] : t \in {u \in Thread : add_pc[u] \in {"lock", "push"}}}

(* Thread t is at a statement that m_mutex is there to guard. *)
InCritical(t) ==
  \/ add_pc[t] = "push"
  \/ t = LoopThread /\ loop_pc = "swap"

Alone(t) == \A u \in Thread \ {t} : ~InCritical(u)

Raced == \E t \in Thread : InCritical(t) /\ ~Alone(t)

Init ==
  /\ m_mutex = NoOwner
  /\ m_pending_tasks = << >>
  /\ temp_tasks = << >>
  /\ cb = NoTask
  /\ m_stop_flag = FALSE
  /\ m_listen_fds \in {{WakeupFd} \cup fds : fds \in SUBSET Fd}  \* set before loop()
  /\ ready = {}
  /\ result_events = {}
  /\ loop_pc = "check"
  /\ add_pc = [t \in Thread |-> "idle"]
  /\ add_callback = [t \in Thread |-> NoTask]
  /\ add_wake = [t \in Thread |-> FALSE]
-----------------------------------------------------------------------------
(* addTask(callback, is_wake_up), one action per step of thread t. *)

CallAddTask(t, task, wake) ==
  /\ add_pc[t] = "idle"
  /\ add_pc' = [add_pc EXCEPT ![t] = "lock"]
  /\ add_callback' = [add_callback EXCEPT ![t] = task]
  /\ add_wake' = [add_wake EXCEPT ![t] = wake]

AddLock(t) ==
  /\ add_pc[t] = "lock"
  /\ Construct(t)
  /\ add_pc' = [add_pc EXCEPT ![t] = "push"]
  /\ UNCHANGED <<m_pending_tasks, loopVars, m_stop_flag, m_listen_fds, ready,
                 add_callback, add_wake>>

AddPush(t) ==
  /\ add_pc[t] = "push"
  /\ Alone(t)
  /\ m_pending_tasks' = Append(m_pending_tasks, add_callback[t])
  /\ add_pc' = [add_pc EXCEPT ![t] = "unlock"]
  /\ UNCHANGED <<m_mutex, loopVars, m_stop_flag, m_listen_fds, ready,
                 add_callback, add_wake>>

AddUnlock(t) ==
  /\ add_pc[t] = "unlock"
  /\ Unlock
  /\ add_pc' = [add_pc EXCEPT ![t] = IF add_wake[t] THEN "wake" ELSE "return"]
  /\ UNCHANGED <<m_pending_tasks, loopVars, m_stop_flag, m_listen_fds, ready,
                 add_callback, add_wake>>

(* wakeup() writes the eventfd. *)
AddWake(t) ==
  /\ add_pc[t] = "wake"
  /\ ready' = ready \cup {WakeEvent}
  /\ add_pc' = [add_pc EXCEPT ![t] = "return"]
  /\ UNCHANGED <<m_mutex, m_pending_tasks, loopVars, m_stop_flag, m_listen_fds,
                 add_callback, add_wake>>

(* The guard goes out of scope. *)
AddReturn(t) ==
  /\ add_pc[t] = "return"
  /\ Destruct
  /\ add_pc' = [add_pc EXCEPT ![t] = "idle"]
  /\ UNCHANGED <<m_pending_tasks, loopVars, m_stop_flag, m_listen_fds, ready,
                 add_callback, add_wake>>

AddTaskStep(t) ==
  AddLock(t) \/ AddPush(t) \/ AddUnlock(t) \/ AddWake(t) \/ AddReturn(t)
-----------------------------------------------------------------------------
(* Who calls the loop: other threads at any time, and on the loop's own    *)
(* thread the tasks it runs.                                               *)

MayCall(t) == t \in Poster \/ loop_pc = "in_callback"

(* A closure is handed over again only after its last execution: a bound. *)
PostClient(t) ==
  /\ MayCall(t)
  /\ \E task \in Client \ Outstanding, wake \in WakeFlags : CallAddTask(t, task, wake)
  /\ UNCHANGED <<m_mutex, m_pending_tasks, loopVars, m_stop_flag, m_listen_fds, ready>>

(* ADD_TO_EPOLL and DELETE_FROM_EPOLL; other tasks register nothing. *)
Register(task) ==
  m_listen_fds' =
    {fd \in Fd : (fd \in m_listen_fds /\ task # <<fd, "DEL">>) \/ task = <<fd, "ADD">>}

(* addEpollEvent and deleteEpollEvent act at once on the loop's thread. *)
RegisterInLoop ==
  /\ loop_pc = "in_callback"
  /\ add_pc[LoopThread] = "idle"
  /\ \E r \in Requests : Register(r)
  /\ UNCHANGED <<m_mutex, m_pending_tasks, loopVars, m_stop_flag, ready, addVars>>

(* On another thread they hand a closure over, and wake the loop. *)
RegisterFromOutside(t) ==
  /\ t \in Poster
  /\ \E r \in Requests \ Outstanding : CallAddTask(t, r, TRUE)
  /\ UNCHANGED <<m_mutex, m_pending_tasks, loopVars, m_stop_flag, m_listen_fds, ready>>

(* A second call of stop() changes nothing and is left out. *)
Stop(t) ==
  /\ MayCall(t)
  /\ ~m_stop_flag
  /\ add_pc[t] = "idle"
  /\ m_stop_flag' = TRUE
  /\ add_pc' = [add_pc EXCEPT ![t] = "stop_wake"]
  /\ UNCHANGED <<m_mutex, m_pending_tasks, loopVars, m_listen_fds, ready,
                 add_callback, add_wake>>

StopWake(t) ==
  /\ add_pc[t] = "stop_wake"
  /\ ready' = ready \cup {WakeEvent}
  /\ add_pc' = [add_pc EXCEPT ![t] = "idle"]
  /\ UNCHANGED <<m_mutex, m_pending_tasks, loopVars, m_stop_flag, m_listen_fds,
                 add_callback, add_wake>>
-----------------------------------------------------------------------------
(* loop() *)

(* Mutant: the flag is read once, before the loop. *)
LoopCheckOnce ==
  /\ loop_pc = "check"
  /\ loop_pc' = "lock"
  /\ UNCHANGED <<m_mutex, m_pending_tasks, temp_tasks, cb, m_stop_flag,
                 m_listen_fds, ready, result_events, addVars>>

LoopCheck ==
  /\ loop_pc = "check"
  /\ loop_pc' = IF m_stop_flag THEN "exit" ELSE "lock"
  /\ UNCHANGED <<m_mutex, m_pending_tasks, temp_tasks, cb, m_stop_flag,
                 m_listen_fds, ready, result_events, addVars>>

LoopLock ==
  /\ loop_pc = "lock"
  /\ Construct(LoopThread)
  /\ loop_pc' = "swap"
  /\ UNCHANGED <<m_pending_tasks, temp_tasks, cb, m_stop_flag, m_listen_fds,
                 ready, result_events, addVars>>

(* Mutant: the queue is copied and not cleared. *)
LoopCopy ==
  /\ loop_pc = "swap"
  /\ Alone(LoopThread)
  /\ temp_tasks' = m_pending_tasks
  /\ loop_pc' = "unlock"
  /\ UNCHANGED <<m_mutex, m_pending_tasks, cb, m_stop_flag, m_listen_fds, ready,
                 result_events, addVars>>

LoopSwap ==
  /\ loop_pc = "swap"
  /\ Alone(LoopThread)
  /\ temp_tasks' = m_pending_tasks
  /\ m_pending_tasks' = << >>
  /\ loop_pc' = "unlock"
  /\ UNCHANGED <<m_mutex, cb, m_stop_flag, m_listen_fds, ready, result_events, addVars>>

LoopUnlock ==
  /\ loop_pc = "unlock"
  /\ Unlock
  /\ loop_pc' = "run"
  /\ UNCHANGED <<m_pending_tasks, temp_tasks, cb, m_stop_flag, m_listen_fds,
                 ready, result_events, addVars>>

(* A handler consumes its event (the one of the wakeup fd reads it to      *)
(* zero), the closure of a registration changes the set.                   *)
RunTask ==
  /\ loop_pc = "run"
  /\ temp_tasks # << >>
  /\ cb' = Head(temp_tasks)
  /\ temp_tasks' = Tail(temp_tasks)
  /\ ready' = ready \ {Head(temp_tasks)}
  /\ Register(Head(temp_tasks))
  /\ loop_pc' = "in_callback"
  /\ UNCHANGED <<m_mutex, m_pending_tasks, m_stop_flag, result_events, addVars>>

CallbackReturns ==
  /\ loop_pc = "in_callback"
  /\ add_pc[LoopThread] = "idle"
  /\ loop_pc' = "run"
  /\ UNCHANGED <<m_mutex, m_pending_tasks, temp_tasks, cb, m_stop_flag,
                 m_listen_fds, ready, result_events, addVars>>

(* Mutant: the loop over the batch may be left early. *)
RunLeft ==
  /\ loop_pc = "run"
  /\ loop_pc' = "wait"
  /\ UNCHANGED <<m_mutex, m_pending_tasks, temp_tasks, cb, m_stop_flag,
                 m_listen_fds, ready, result_events, addVars>>

RunDone ==
  /\ loop_pc = "run"
  /\ temp_tasks = << >>
  /\ loop_pc' = "wait"
  /\ UNCHANGED <<m_mutex, m_pending_tasks, temp_tasks, cb, m_stop_flag,
                 m_listen_fds, ready, result_events, addVars>>

(* Registered fds with a pending event: epoll_wait is level-triggered. *)
ReadyFds == {fd \in m_listen_fds : \E e \in ready : e[1] = fd}

(* epoll_wait returns the events of at most MaxEvents of them. *)
EpollWait ==
  /\ loop_pc = "wait"
  /\ ReadyFds # {}
  /\ \E fds \in SUBSET ReadyFds :
       /\ Cardinality(fds) <= MaxEvents
       /\ fds = ReadyFds \/ Cardinality(fds) = MaxEvents
       /\ result_events' = {e \in ready : e[1] \in fds}
  /\ loop_pc' = "dispatch"
  /\ UNCHANGED <<m_mutex, m_pending_tasks, temp_tasks, cb, m_stop_flag,
                 m_listen_fds, ready, addVars>>

(* Mutant: epoll_wait is called with a timeout of -1. *)
EpollNoTimeout == FALSE /\ UNCHANGED vars

(* Nothing happens for g_epoll_max_timeout. *)
EpollTimeout ==
  /\ loop_pc = "wait"
  /\ ReadyFds = {}
  /\ loop_pc' = "dispatch"
  /\ UNCHANGED <<m_mutex, m_pending_tasks, temp_tasks, cb, m_stop_flag,
                 m_listen_fds, ready, result_events, addVars>>

(* epoll_wait fails (a signal interrupts it). *)
EpollError ==
  /\ loop_pc = "wait"
  /\ loop_pc' = "scope_end"
  /\ UNCHANGED <<m_mutex, m_pending_tasks, temp_tasks, cb, m_stop_flag,
                 m_listen_fds, ready, result_events, addVars>>

(* A read or write event: its handler becomes a task.  The read handler of *)
(* an fd goes first.                                                       *)
DispatchHandler(h) ==
  /\ loop_pc = "dispatch"
  /\ h \in result_events
  /\ h[2] = "OUT" => <<h[1], "IN">> \notin result_events
  /\ result_events' = result_events \ {h}
  /\ CallAddTask(LoopThread, h, FALSE)
  /\ UNCHANGED <<m_mutex, m_pending_tasks, temp_tasks, cb, m_stop_flag,
                 m_listen_fds, ready, loop_pc>>

(* Mutant: the error callback is posted without the test for nullptr. *)
DispatchErrorUntested(fd) ==
  /\ loop_pc = "dispatch"
  /\ {e \in result_events : e[1] = fd} = {<<fd, "ERR">>}
  /\ result_events' = result_events \ {<<fd, "ERR">>}
  /\ m_listen_fds' = m_listen_fds \ {fd}
  /\ CallAddTask(LoopThread, <<fd, "ERR">>, FALSE)
  /\ UNCHANGED <<m_mutex, m_pending_tasks, temp_tasks, cb, m_stop_flag, ready, loop_pc>>

(* An error takes the fd off the loop, after its handlers were posted.  No *)
(* caller of listen() passes an error callback: nothing is posted for it.  *)
DispatchError(fd) ==
  /\ loop_pc = "dispatch"
  /\ add_pc[LoopThread] = "idle"
  /\ {e \in result_events : e[1] = fd} = {<<fd, "ERR">>}
  /\ result_events' = result_events \ {<<fd, "ERR">>}
  /\ m_listen_fds' = m_listen_fds \ {fd}
  /\ UNCHANGED <<m_mutex, m_pending_tasks, temp_tasks, cb, m_stop_flag, ready,
                 loop_pc, addVars>>

DispatchDone ==
  /\ loop_pc = "dispatch"
  /\ add_pc[LoopThread] = "idle"
  /\ result_events = {}
  /\ loop_pc' = "scope_end"
  /\ UNCHANGED <<m_mutex, m_pending_tasks, temp_tasks, cb, m_stop_flag,
                 m_listen_fds, ready, result_events, addVars>>

(* The guard of this iteration goes out of scope. *)
ScopeEnd ==
  /\ loop_pc = "scope_end"
  /\ Destruct
  /\ loop_pc' = "check"
  /\ UNCHANGED <<m_pending_tasks, temp_tasks, cb, m_stop_flag, m_listen_fds,
                 ready, result_events, addVars>>
-----------------------------------------------------------------------------
(* The outside world makes an event pending on a descriptor. *)
BecomeReady(e) ==
  /\ e \notin ready
  /\ ready' = ready \cup {e}
  /\ UNCHANGED <<m_mutex, m_pending_tasks, loopVars, m_stop_flag, m_listen_fds, addVars>>

LoopStep ==
  \/ LoopCheck \/ LoopLock \/ LoopSwap \/ LoopUnlock
  \/ RunTask \/ CallbackReturns \/ RunDone
  \/ EpollWait \/ EpollTimeout
  \/ \E h \in Handler : DispatchHandler(h)
  \/ \E fd \in Fd : DispatchError(fd)
  \/ DispatchDone \/ ScopeEnd

ThreadStep(t) ==
  \/ AddTaskStep(t)
  \/ StopWake(t)
  \/ PostClient(t) \/ RegisterFromOutside(t) \/ Stop(t)

Next ==
  \/ LoopStep
  \/ EpollError
  \/ RegisterInLoop
  \/ \E t \in Thread : ThreadStep(t)
  \/ \E e \in Arrivals : BecomeReady(e)

Spec == Init /\ [][Next]_vars

(* The loop's thread keeps running, whether or not epoll_wait fails, a     *)
(* thread inside addTask or stop goes on, and a thread that waits for the  *)
(* mutex gets it if it is free again and again.                            *)
Fairness ==
  /\ WF_vars(LoopStep)
  /\ SF_vars(LoopLock)
  /\ \A t \in Thread :
       /\ WF_vars(AddTaskStep(t) \/ StopWake(t))
       /\ SF_vars(AddLock(t))

FairSpec == Spec /\ Fairness
-----------------------------------------------------------------------------
TypeOK ==
  /\ m_mutex \in Thread \cup {NoOwner}
  /\ m_pending_tasks \in Seq(Task)
  /\ temp_tasks \in Seq(Task)
  /\ cb \in Task \cup {NoTask}
  /\ m_stop_flag \in BOOLEAN
  /\ m_listen_fds \subseteq Fd
  /\ ready \subseteq Event
  /\ result_events \subseteq Event
  /\ loop_pc \in LoopPc
  /\ add_pc \in [Thread -> AddPc]
  /\ add_callback \in [Thread -> Task \cup {NoTask}]
  /\ add_wake \in [Thread -> BOOLEAN]

(* addTask keeps its promise as long as the mutex does: whatever the       *)
(* threads' interleaving, every task handed over is executed by the loop   *)
(* once and in order, across the swap of the two queues and the batches.   *)
Promise == INSTANCE TaskQueue WITH queue <- Queue, current <- cb
ImplementsTaskQueue == Promise!Spec

(* epoll is level-triggered and the handlers it triggers run only in the   *)
(* next batch: still no handler is ever in the queues twice.               *)
HandlerQueuedOnce ==
  \A i, j \in DOMAIN Queue : Queue[i] = Queue[j] /\ Queue[i] \in Handler => i = j

(* A task that was handed over is executed, unless the loop is stopped. *)
PostedTaskRuns ==
  \A task \in Task :
    task \in Range(Queue) ~> (cb = task \/ loop_pc = "exit" \/ Raced)

(* stop(), from whatever thread, makes loop() return. *)
StopExits == m_stop_flag ~> (loop_pc = "exit" \/ Raced)

(* fd_event_group.cpp:33, a guard is released by its scope: no two threads *)
(* are at the queue together.                                              *)
GuardHolds == ~Raced
=============================================================================
