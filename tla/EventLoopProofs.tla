--------------------------- MODULE EventLoopProofs ---------------------------
(***************************************************************************)
(* Proofs about EventLoop, for any number of threads, tasks, descriptors   *)
(* and events: its types, that it implements TaskQueue until a race, and   *)
(* that no handler is queued twice.                                        *)
(***************************************************************************)
EXTENDS EventLoop, SequenceTheorems, TLAPS

(* No handler occurs twice in seq. *)
Once(seq) == \A i, j \in DOMAIN seq : seq[i] = seq[j] /\ seq[i] \in Handler => i = j

NoHandlerIn(seq) == \A i \in DOMAIN seq : seq[i] \notin Handler

(* Threads about to push their task. *)
Posting(t) == add_pc[t] \in {"lock", "push"}

(* The local queue is empty but from the swap to the end of the batch. *)
BatchInv == loop_pc \notin {"unlock", "run", "in_callback"} => temp_tasks = << >>

(* The loop's thread is inside addTask or stop only from a task it runs or *)
(* from the dispatch, and only the dispatch posts handlers.                *)
PostingInv ==
  /\ add_pc[LoopThread] # "idle" => loop_pc \in {"in_callback", "dispatch"}
  /\ \A t \in Thread : Posting(t) =>
       /\ add_callback[t] \in Task
       /\ add_callback[t] \in Handler => t = LoopThread /\ loop_pc = "dispatch"

(* Why a handler is not posted twice: the last batch had to be finished    *)
(* before epoll_wait, and what was returned there is posted once.          *)
HandlerInv ==
  /\ Once(temp_tasks) /\ Once(m_pending_tasks)
  /\ loop_pc # "dispatch" => result_events = {}
  /\ loop_pc \in {"unlock", "run", "in_callback", "wait"} => NoHandlerIn(m_pending_tasks)
  /\ loop_pc = "dispatch" =>
       /\ \A i \in DOMAIN m_pending_tasks : m_pending_tasks[i] \in Handler =>
            /\ m_pending_tasks[i] \notin result_events
            /\ Posting(LoopThread) => m_pending_tasks[i] # add_callback[LoopThread]
       /\ Posting(LoopThread) => add_callback[LoopThread] \notin result_events

IInv == TypeOK /\ BatchInv /\ PostingInv /\ HandlerInv
-----------------------------------------------------------------------------
(* What the queue operations do to the elements. *)
LEMMA AppendElements ==
  ASSUME NEW S, NEW seq \in Seq(S), NEW e \in S
  PROVE  /\ Append(seq, e) \in Seq(S)
         /\ DOMAIN Append(seq, e) = DOMAIN seq \cup {Len(seq) + 1}
         /\ \A i \in DOMAIN seq : Append(seq, e)[i] = seq[i]
         /\ Append(seq, e)[Len(seq) + 1] = e
         /\ Len(seq) + 1 \notin DOMAIN seq
  OBVIOUS

LEMMA TailElements ==
  ASSUME NEW S, NEW seq \in Seq(S), seq # << >>
  PROVE  /\ Head(seq) \in S /\ Tail(seq) \in Seq(S)
         /\ \A i \in DOMAIN Tail(seq) : i + 1 \in DOMAIN seq /\ Tail(seq)[i] = seq[i + 1] /\ i \in Nat
  OBVIOUS

LEMMA TaskKinds ==
  /\ Handler \subseteq Task /\ Registration \subseteq Task /\ Client \subseteq Task
  /\ Client \cap Handler = {} /\ Registration \cap Handler = {}
  /\ Handler \subseteq Event /\ Requests \subseteq Registration
  /\ LoopThread \in Thread /\ Poster \subseteq Thread /\ LoopThread \notin Poster
  /\ NoTask \notin Task /\ WakeEvent \in Event /\ Arrivals \subseteq Event
  <1>1. Registration \cap Handler = {}
    BY DEF Registration, Handler
  <1> QED
    BY <1>1, TaskAssumption, EnvironmentAssumption, FdAssumption, ThreadAssumption
    DEF Task, Handler, Registration, Event, Thread, WakeEvent
-----------------------------------------------------------------------------
LEMMA TypeInit == Init => TypeOK
  <1> SUFFICES ASSUME Init PROVE TypeOK
    OBVIOUS
  <1>1. m_listen_fds \subseteq Fd
    BY FdAssumption DEF Init
  <1>2. m_pending_tasks \in Seq(Task) /\ temp_tasks \in Seq(Task)
    BY DEF Init
  <1> QED
    BY <1>1, <1>2 DEF Init, TypeOK, LoopPc, AddPc

LEMMA TypeStep == TypeOK /\ PostingInv /\ [Next]_vars => TypeOK'
  <1> SUFFICES ASSUME TypeOK, PostingInv, [Next]_vars PROVE TypeOK'
    OBVIOUS
  <1> USE TaskKinds DEF TypeOK, PostingInv, LoopPc, AddPc, loopVars, addVars
  <1>1. CASE LoopCheck \/ LoopLock \/ LoopUnlock \/ CallbackReturns \/ RunDone
             \/ EpollTimeout \/ DispatchDone \/ ScopeEnd
    BY <1>1 DEF LoopCheck, LoopLock, LoopUnlock, CallbackReturns, RunDone,
         EpollTimeout, DispatchDone, ScopeEnd, Construct, Unlock, Destruct
  <1>2. CASE LoopSwap
    BY <1>2 DEF LoopSwap
  <1>3. CASE RunTask
    BY <1>3, TailElements DEF RunTask, Register
  <1>4. CASE EpollWait
    BY <1>4 DEF EpollWait
  <1>5. CASE \E h \in Handler : DispatchHandler(h)
    BY <1>5 DEF DispatchHandler, CallAddTask
  <1>6. CASE \E fd \in Fd : DispatchError(fd)
    BY <1>6 DEF DispatchError
  <1>7. CASE RegisterInLoop \/ EpollError
    BY <1>7 DEF RegisterInLoop, EpollError, Register
  <1>8. ASSUME NEW t \in Thread, AddTaskStep(t) PROVE TypeOK'
    <2>1. CASE AddLock(t) \/ AddUnlock(t) \/ AddWake(t) \/ AddReturn(t)
      BY <2>1 DEF AddLock, AddUnlock, AddWake, AddReturn, Construct, Unlock, Destruct
    <2>2. CASE AddPush(t)
      BY <2>2, AppendElements DEF AddPush, Posting
    <2> QED
      BY <1>8, <2>1, <2>2 DEF AddTaskStep
  <1>9. ASSUME NEW t \in Thread,
               StopWake(t) \/ PostClient(t) \/ RegisterFromOutside(t) \/ Stop(t)
        PROVE  TypeOK'
    <2>1. CASE StopWake(t) \/ Stop(t)
      BY <2>1 DEF StopWake, Stop
    <2>2. CASE PostClient(t)
      BY <2>2, WakeAssumption DEF PostClient, CallAddTask
    <2>3. CASE RegisterFromOutside(t)
      BY <2>3 DEF RegisterFromOutside, CallAddTask
    <2> QED
      BY <1>9, <2>1, <2>2, <2>3
  <1>10. CASE \E e \in Arrivals : BecomeReady(e)
    BY <1>10 DEF BecomeReady
  <1>11. CASE UNCHANGED vars
    BY <1>11 DEF vars
  <1> QED
    BY <1>1, <1>2, <1>3, <1>4, <1>5, <1>6, <1>7, <1>8, <1>9, <1>10, <1>11
    DEF Next, LoopStep, ThreadStep
-----------------------------------------------------------------------------
LEMMA BatchStep == TypeOK /\ BatchInv /\ [Next]_vars => BatchInv'
  <1> SUFFICES ASSUME TypeOK, BatchInv, [Next]_vars PROVE BatchInv'
    OBVIOUS
  <1> USE DEF BatchInv, loopVars, addVars
  <1>1. CASE LoopStep
    BY <1>1 DEF LoopStep, LoopCheck, LoopLock, LoopSwap, LoopUnlock, RunTask,
         CallbackReturns, RunDone, EpollWait, EpollTimeout, DispatchHandler,
         DispatchError, DispatchDone, ScopeEnd
  <1>2. CASE RegisterInLoop \/ EpollError \/ \E e \in Arrivals : BecomeReady(e)
    BY <1>2 DEF RegisterInLoop, EpollError, BecomeReady
  <1>3. ASSUME NEW t \in Thread, ThreadStep(t) PROVE BatchInv'
    BY <1>3 DEF ThreadStep, AddTaskStep, AddLock, AddPush, AddUnlock, AddWake,
         AddReturn, StopWake, PostClient, RegisterFromOutside, Stop
  <1>4. CASE UNCHANGED vars
    BY <1>4 DEF vars
  <1> QED
    BY <1>1, <1>2, <1>3, <1>4 DEF Next

LEMMA PostingStep == TypeOK /\ PostingInv /\ [Next]_vars => PostingInv'
  <1> SUFFICES ASSUME TypeOK, PostingInv, [Next]_vars PROVE PostingInv'
    OBVIOUS
  <1> USE TaskKinds DEF PostingInv, Posting, TypeOK, loopVars, addVars
  <1>1. CASE LoopCheck \/ LoopLock \/ LoopSwap \/ LoopUnlock \/ RunTask
             \/ CallbackReturns \/ RunDone \/ EpollWait \/ EpollTimeout
             \/ DispatchDone \/ ScopeEnd
    BY <1>1 DEF LoopCheck, LoopLock, LoopSwap, LoopUnlock, RunTask,
         CallbackReturns, RunDone, EpollWait, EpollTimeout, DispatchDone, ScopeEnd
  <1>2. CASE \E h \in Handler : DispatchHandler(h)
    BY <1>2 DEF DispatchHandler, CallAddTask
  <1>3. CASE \/ \E fd \in Fd : DispatchError(fd)
             \/ RegisterInLoop \/ EpollError
             \/ \E e \in Arrivals : BecomeReady(e)
    BY <1>3 DEF DispatchError, RegisterInLoop, EpollError, BecomeReady
  <1>4. ASSUME NEW t \in Thread, AddTaskStep(t) \/ StopWake(t) PROVE PostingInv'
    BY <1>4 DEF AddTaskStep, AddLock, AddPush, AddUnlock, AddWake, AddReturn, StopWake
  <1>5. ASSUME NEW t \in Thread, PostClient(t) \/ RegisterFromOutside(t) \/ Stop(t)
        PROVE  PostingInv'
    <2>1. CASE PostClient(t)
      BY <2>1 DEF PostClient, MayCall, CallAddTask
    <2>2. CASE RegisterFromOutside(t)
      BY <2>2 DEF RegisterFromOutside, CallAddTask
    <2>3. CASE Stop(t)
      BY <2>3 DEF Stop, MayCall
    <2> QED
      BY <1>5, <2>1, <2>2, <2>3
  <1>6. CASE UNCHANGED vars
    BY <1>6 DEF vars
  <1> QED
    BY <1>1, <1>2, <1>3, <1>4, <1>5, <1>6 DEF Next, LoopStep, ThreadStep
-----------------------------------------------------------------------------
LEMMA HandlerStep == IInv /\ [Next]_vars => HandlerInv'
  <1> SUFFICES ASSUME IInv, [Next]_vars PROVE HandlerInv'
    OBVIOUS
  <1> USE TaskKinds DEF IInv, HandlerInv, Posting, loopVars, addVars
  <1>1. CASE \/ LoopCheck \/ LoopLock \/ LoopUnlock \/ CallbackReturns
             \/ DispatchDone \/ ScopeEnd
             \/ \E fd \in Fd : DispatchError(fd)
             \/ RegisterInLoop \/ EpollError
             \/ \E e \in Arrivals : BecomeReady(e)
    BY <1>1 DEF LoopCheck, LoopLock, LoopUnlock, CallbackReturns,
         DispatchDone, ScopeEnd, DispatchError, RegisterInLoop, EpollError, BecomeReady
  <1>2. CASE LoopSwap
    BY <1>2 DEF LoopSwap, Once, NoHandlerIn
  <1>3. CASE RunTask
    <2>1. Once(temp_tasks')
      BY <1>3, TailElements DEF RunTask, Once, TypeOK
    <2> QED
      BY <1>3, <2>1 DEF RunTask
  <1>4. CASE RunDone
    BY <1>4 DEF RunDone
  <1>5. CASE EpollWait \/ EpollTimeout
    BY <1>5 DEF EpollWait, EpollTimeout, NoHandlerIn, PostingInv, TypeOK
  <1>6. CASE \E h \in Handler : DispatchHandler(h)
    BY <1>6 DEF DispatchHandler, CallAddTask, TypeOK
  <1>7. ASSUME NEW t \in Thread, AddPush(t) PROVE HandlerInv'
    <2> DEFINE e == add_callback[t]
    <2>1. m_pending_tasks \in Seq(Task) /\ e \in Task /\ add_pc[t] = "push"
      BY <1>7 DEF AddPush, PostingInv, TypeOK
    <2>2. ASSUME e \in Handler
          PROVE  /\ \A i \in DOMAIN m_pending_tasks : m_pending_tasks[i] # e
                 /\ e \notin result_events
                 /\ loop_pc = "dispatch"
      BY <2>1, <2>2 DEF PostingInv
    <2>3. /\ m_pending_tasks' = Append(m_pending_tasks, e)
          /\ add_pc' = [add_pc EXCEPT ![t] = "unlock"]
          /\ UNCHANGED <<temp_tasks, result_events, loop_pc, add_callback>>
      BY <1>7 DEF AddPush
    <2>4. Once(m_pending_tasks')
      BY <2>1, <2>2, <2>3, AppendElements DEF Once
    <2>5. NoHandlerIn(m_pending_tasks) /\ loop_pc # "dispatch" => NoHandlerIn(m_pending_tasks')
      BY <2>1, <2>2, <2>3, AppendElements DEF NoHandlerIn
    <2>6. ASSUME loop_pc = "dispatch", NEW i \in DOMAIN m_pending_tasks',
                 m_pending_tasks'[i] \in Handler
          PROVE  /\ m_pending_tasks'[i] \notin result_events
                 /\ Posting(LoopThread)' => m_pending_tasks'[i] # add_callback[LoopThread]
      <3>1. CASE i \in DOMAIN m_pending_tasks
        BY <3>1, <2>1, <2>3, <2>6, AppendElements DEF TypeOK
      <3>2. CASE i = Len(m_pending_tasks) + 1
        BY <3>2, <2>1, <2>2, <2>3, <2>6, AppendElements DEF PostingInv, TypeOK
      <3> QED
        BY <3>1, <3>2, <2>1, <2>3, AppendElements
    <2> QED
      BY <2>1, <2>3, <2>4, <2>5, <2>6 DEF TypeOK, NoHandlerIn
  <1>8. ASSUME NEW t \in Thread,
               AddLock(t) \/ AddUnlock(t) \/ AddWake(t) \/ AddReturn(t) \/ StopWake(t) \/ Stop(t)
        PROVE  HandlerInv'
    BY <1>8 DEF AddLock, AddUnlock, AddWake, AddReturn, StopWake, Stop, TypeOK
  <1>9. ASSUME NEW t \in Thread, PostClient(t) \/ RegisterFromOutside(t) PROVE HandlerInv'
    BY <1>9 DEF PostClient, RegisterFromOutside, MayCall, CallAddTask, TypeOK
  <1>10. CASE UNCHANGED vars
    BY <1>10 DEF vars
  <1> QED
    BY <1>1, <1>2, <1>3, <1>4, <1>5, <1>6, <1>7, <1>8, <1>9, <1>10
    DEF Next, LoopStep, ThreadStep, AddTaskStep
-----------------------------------------------------------------------------
LEMMA InitIInv == Init => IInv
  <1> SUFFICES ASSUME Init PROVE IInv
    OBVIOUS
  <1>1. TypeOK
    BY TypeInit
  <1> QED
    BY <1>1, TaskKinds DEF Init, IInv, BatchInv, PostingInv, HandlerInv, Once,
      NoHandlerIn, Posting

LEMMA StepIInv == IInv /\ [Next]_vars => IInv'
  BY TypeStep, BatchStep, PostingStep, HandlerStep DEF IInv

LEMMA Invariance == Spec => []IInv
  BY InitIInv, StepIInv, PTL DEF Spec

(* The loop keeps its types: the queues hold nothing but tasks. *)
THEOREM TypeCorrect == Spec => []TypeOK
  <1>1. IInv => TypeOK
    BY DEF IInv
  <1> QED
    BY Invariance, <1>1, PTL
-----------------------------------------------------------------------------
LEMMA HandlerQueuedOnceInv == IInv => HandlerQueuedOnce
  <1> SUFFICES ASSUME IInv, NEW i \in DOMAIN Queue, NEW j \in DOMAIN Queue,
                      Queue[i] = Queue[j], Queue[i] \in Handler
               PROVE  i = j
    BY DEF HandlerQueuedOnce
  <1>1. /\ temp_tasks \in Seq(Task) /\ m_pending_tasks \in Seq(Task)
        /\ i \in 1 .. Len(temp_tasks) + Len(m_pending_tasks)
        /\ j \in 1 .. Len(temp_tasks) + Len(m_pending_tasks)
        /\ Len(temp_tasks) \in Nat /\ Len(m_pending_tasks) \in Nat
    BY DEF IInv, TypeOK, Queue
  <1>2. ASSUME NEW k \in 1 .. Len(temp_tasks) + Len(m_pending_tasks)
        PROVE  Queue[k] = IF k <= Len(temp_tasks) THEN temp_tasks[k]
                          ELSE m_pending_tasks[k - Len(temp_tasks)]
    BY <1>1 DEF Queue
  <1>3. CASE temp_tasks = << >>
    <2>1. Len(temp_tasks) = 0 /\ DOMAIN m_pending_tasks = 1 .. Len(m_pending_tasks)
      BY <1>1, <1>3
    <2>2. i \in DOMAIN m_pending_tasks /\ j \in DOMAIN m_pending_tasks
      BY <1>1, <2>1
    <2>3. Queue[i] = m_pending_tasks[i] /\ Queue[j] = m_pending_tasks[j]
      BY <1>1, <1>2, <2>1
    <2> QED
      BY <2>2, <2>3 DEF IInv, HandlerInv, Once
  <1>4. CASE temp_tasks # << >>
    <2>1. NoHandlerIn(m_pending_tasks)
      BY <1>4 DEF IInv, BatchInv, HandlerInv
    <2>2. i <= Len(temp_tasks) /\ j <= Len(temp_tasks)
      BY <2>1, <1>1, <1>2 DEF NoHandlerIn
    <2> QED
      BY <2>2, <1>1, <1>2 DEF IInv, HandlerInv, Once
  <1> QED
    BY <1>3, <1>4

(* However long a batch takes and whatever it posts, a level-triggered     *)
(* event never has its handler in the queues twice (dispatch in loop()).   *)
THEOREM HandlersQueuedOnce == Spec => []HandlerQueuedOnce
  BY Invariance, HandlerQueuedOnceInv, PTL
-----------------------------------------------------------------------------
LEMMA PromiseInit == Init => Promise!Init
  BY DEF Init, Promise!Init, Queue

LEMMA PromiseStep == IInv /\ [Next]_vars => [Promise!Next]_(Promise!vars)
  <1> SUFFICES ASSUME IInv, [Next]_vars PROVE [Promise!Next]_(Promise!vars)
    OBVIOUS
  <1> USE DEF Promise!vars, loopVars, addVars
  <1>0. temp_tasks \in Seq(Task) /\ m_pending_tasks \in Seq(Task)
    BY DEF IInv, TypeOK
  <1>1. CASE LoopSwap
    <2>1. temp_tasks = << >>
      BY <1>1 DEF LoopSwap, IInv, BatchInv
    <2>2. Queue' = m_pending_tasks /\ Queue = m_pending_tasks
      BY <1>0, <1>1, <2>1, ConcatEmptySeq DEF LoopSwap, Queue
    <2> QED
      BY <2>2, <1>1 DEF LoopSwap
  <1>2. CASE RunTask
    <2>1. temp_tasks # << >> /\ temp_tasks' = Tail(temp_tasks)
          /\ m_pending_tasks' = m_pending_tasks /\ cb' = Head(temp_tasks)
      BY <1>2 DEF RunTask
    <2>2. /\ Queue # << >> /\ Head(Queue) = Head(temp_tasks)
          /\ Tail(Queue) = Tail(temp_tasks) \o m_pending_tasks
      BY <1>0, <2>1 DEF Queue
    <2>3. Promise!Execute
      BY <2>1, <2>2 DEF Promise!Execute, Queue
    <2> QED
      BY <2>3 DEF Promise!Next
  <1>3. ASSUME NEW t \in Thread, AddPush(t) PROVE [Promise!Next]_(Promise!vars)
    <2>1. /\ add_callback[t] \in Task /\ temp_tasks' = temp_tasks /\ cb' = cb
          /\ m_pending_tasks' = Append(m_pending_tasks, add_callback[t])
      BY <1>3 DEF AddPush, IInv, PostingInv, Posting
    <2>2. Queue' = Append(Queue, add_callback[t])
      BY <1>0, <2>1 DEF Queue
    <2>3. Promise!Post(add_callback[t])
      BY <2>1, <2>2 DEF Promise!Post
    <2> QED
      BY <2>1, <2>3 DEF Promise!Next
  <1>4. CASE \/ LoopCheck \/ LoopLock \/ LoopUnlock \/ CallbackReturns \/ RunDone
             \/ EpollWait \/ EpollTimeout \/ DispatchDone \/ ScopeEnd
             \/ \E h \in Handler : DispatchHandler(h)
             \/ \E fd \in Fd : DispatchError(fd)
             \/ RegisterInLoop \/ EpollError
             \/ \E e \in Arrivals : BecomeReady(e)
    BY <1>4 DEF LoopCheck, LoopLock, LoopUnlock, CallbackReturns, RunDone, EpollWait,
         EpollTimeout, DispatchDone, ScopeEnd, DispatchHandler, DispatchError,
         RegisterInLoop, EpollError, BecomeReady, Queue
  <1>5. ASSUME NEW t \in Thread,
               \/ AddLock(t) \/ AddUnlock(t) \/ AddWake(t) \/ AddReturn(t)
               \/ StopWake(t) \/ PostClient(t) \/ RegisterFromOutside(t) \/ Stop(t)
        PROVE  [Promise!Next]_(Promise!vars)
    BY <1>5 DEF AddLock, AddUnlock, AddWake, AddReturn, StopWake, PostClient,
         RegisterFromOutside, Stop, Queue
  <1>6. CASE UNCHANGED vars
    BY <1>6 DEF vars, Queue
  <1> QED
    BY <1>1, <1>2, <1>3, <1>4, <1>5, <1>6 DEF Next, LoopStep, ThreadStep, AddTaskStep

(* Every behaviour of the loop, up to a race, is one of the FIFO queue     *)
(* that addTask promises: nothing lost, doubled or reordered by the swap.  *)
THEOREM Implementation == Spec => ImplementsTaskQueue
  BY Invariance, PromiseInit, PromiseStep, PTL DEF Spec, ImplementsTaskQueue, Promise!Spec
=============================================================================
