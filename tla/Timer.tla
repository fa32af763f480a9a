-------------------------------- MODULE Timer --------------------------------
(***************************************************************************)
(* rocket::Timer (rocket/net/timer.{h,cpp}, timer_event.{h,cpp}): timer    *)
(* events ordered by arrive time, one timerfd armed for the first of them, *)
(* and onTimer, which the event loop runs when the timerfd is readable.    *)
(*                                                                         *)
(* Time is counted from now: left[e] is how long before the arrive time of *)
(* e, 0 once it has passed.  The order of overdue events is the one they   *)
(* have in the queue, so nothing is lost by not counting below 0.          *)
(*                                                                         *)
(* Each section of the code under m_mutex is one step.  That the sections  *)
(* exclude each other is the guard's business, see EventLoop.              *)
(***************************************************************************)
EXTENDS Naturals, Sequences, SequencesExt

CONSTANTS
  LoopThread,   \* runs onTimer and the tasks of the event loop
  Adder,        \* other threads that call addTimerEvent
  TimerEvent,   \* timer events
  Interval,     \* TimerEvent -> m_interval
  Repeated,     \* the events constructed with is_repeated
  Retry,        \* the 100 ms for which an overdue queue arms the timerfd
  Off,          \* the timerfd is not armed
  NoEvent

ASSUME IntervalAssumption ==
  /\ Interval \in [TimerEvent -> Nat]
  /\ Retry \in Nat \ {0} /\ Off \notin Nat
  /\ Repeated \subseteq TimerEvent
  /\ NoEvent \notin TimerEvent
  /\ LoopThread \notin Adder

Thread == Adder \cup {LoopThread}

VARIABLES
  m_pending_events,  \* the queue, by arrive time
  left,              \* m_arrive_time of each event, from now
  canceled,          \* the events whose m_is_canceled is set
  timerfd,           \* ticks until the timerfd expires, or Off
  readable,          \* it has expired since it was last read or set
  handler_queued,    \* onTimer is a task of the event loop
  loop_pc,           \* where the loop's thread is in onTimer
  temp,              \* onTimer's temp: the events that were due, NoEvent for a hole
  tasks,             \* onTimer's tasks: their callbacks not called yet
  current,           \* the callback that runs
  reset_pc,          \* where each thread is in resetArriveTime
  copied             \* the first event of the copy it took there

onTimerVars == <<handler_queued, loop_pc, temp, tasks, current>>
resetVars   == <<reset_pc, copied>>
vars == <<m_pending_events, left, canceled, timerfd, readable, handler_queued,
          loop_pc, temp, tasks, current, reset_pc, copied>>

LoopPc  == {"idle", "repeat", "reset", "call", "in_callback"}
ResetPc == {"none", "copy", "settime"}

Init ==
  /\ m_pending_events = << >>
  /\ left = Interval
  /\ canceled = {}
  /\ timerfd = Off
  /\ readable = FALSE
  /\ handler_queued = FALSE
  /\ loop_pc = "idle"
  /\ temp = << >>
  /\ tasks = << >>
  /\ current = NoEvent
  /\ reset_pc = [t \in Thread |-> "none"]
  /\ copied = [t \in Thread |-> NoEvent]

Pending == ToSet(m_pending_events)

(* Events that some code still refers to. *)
InUse == Pending \cup ToSet(temp) \cup ToSet(tasks) \cup {current} \cup Range(copied)

(* A thread outside onTimer's own steps, free to call the timer. *)
Free(t) ==
  /\ reset_pc[t] = "none"
  /\ t = LoopThread => loop_pc \in {"idle", "in_callback"}
-----------------------------------------------------------------------------
(* How many of the pending events, which are sorted, arrive by then. *)
Until(arrive) ==
  LET later == SelectInSeq(m_pending_events, LAMBDA f : left[f] > arrive)
  IN  IF later = 0 THEN Len(m_pending_events) ELSE later - 1

(* addTimerEvent up to the unlock: emplace behind the events that arrive   *)
(* no later, and remember whether the timerfd must be set.                 *)
Emplace(t, e, arrive) ==
  LET place == Until(arrive) + 1
  IN /\ m_pending_events' = InsertAt(m_pending_events, place, e)
     /\ left' = [left EXCEPT ![e] = arrive]
     /\ reset_pc' = [reset_pc EXCEPT ![t] = IF place = 1 THEN "copy" ELSE "none"]
     /\ UNCHANGED <<timerfd, readable, copied>>

(* A thread constructs an event and adds it. *)
AddTimerEvent(t, e) ==
  /\ Free(t)
  /\ e \notin InUse
  /\ canceled' = canceled \ {e}
  /\ Emplace(t, e, Interval[e])
  /\ UNCHANGED onTimerVars

(* Mutant: the event is marked and stays in the queue. *)
DeleteMarksOnly(e) ==
  /\ Free(LoopThread)
  /\ e \in InUse
  /\ canceled' = canceled \cup {e}
  /\ UNCHANGED <<m_pending_events, left, timerfd, readable, onTimerVars, resetVars>>

(* deleteTimerEvent, on the loop's thread: a task, or a callback of this   *)
(* timer.  It erases one entry, found by its arrive time.                  *)
DeleteTimerEvent(e) ==
  /\ Free(LoopThread)
  /\ e \in InUse
  /\ canceled' = canceled \cup {e}
  /\ m_pending_events' = RemoveFirst(m_pending_events, e)
  /\ UNCHANGED <<left, timerfd, readable, onTimerVars, resetVars>>

(* resetArriveTime: copy the queue under the lock ... *)
CopyPending(t) ==
  /\ reset_pc[t] = "copy"
  /\ IF m_pending_events = << >>
     THEN /\ reset_pc' = [reset_pc EXCEPT ![t] = "none"]
          /\ UNCHANGED copied
     ELSE /\ reset_pc' = [reset_pc EXCEPT ![t] = "settime"]
          /\ copied' = [copied EXCEPT ![t] = Head(m_pending_events)]
  /\ UNCHANGED <<m_pending_events, left, canceled, timerfd, readable, onTimerVars>>

(* Mutant: the time left goes to timerfd_settime as it is, 0 included. *)
SetTimeZero(t) ==
  /\ reset_pc[t] = "settime"
  /\ timerfd' = left[copied[t]]
  /\ readable' = FALSE
  /\ reset_pc' = [reset_pc EXCEPT ![t] = "none"]
  /\ copied' = [copied EXCEPT ![t] = NoEvent]
  /\ UNCHANGED <<m_pending_events, left, canceled, onTimerVars>>

(* Mutant: and disarmed it is. *)
SetTimeDisarms(t) ==
  /\ reset_pc[t] = "settime"
  /\ timerfd' = IF left[copied[t]] > 0 THEN left[copied[t]] ELSE Off
  /\ readable' = FALSE
  /\ reset_pc' = [reset_pc EXCEPT ![t] = "none"]
  /\ copied' = [copied EXCEPT ![t] = NoEvent]
  /\ UNCHANGED <<m_pending_events, left, canceled, onTimerVars>>

(* ... and arm the timerfd for the first event of the copy.  Setting it    *)
(* forgets an expiration that was not read.                                *)
SetTime(t) ==
  /\ reset_pc[t] = "settime"
  /\ timerfd' = IF left[copied[t]] > 0 THEN left[copied[t]] ELSE Retry
  /\ readable' = FALSE
  /\ reset_pc' = [reset_pc EXCEPT ![t] = "none"]
  /\ copied' = [copied EXCEPT ![t] = NoEvent]
  /\ UNCHANGED <<m_pending_events, left, canceled, onTimerVars>>
-----------------------------------------------------------------------------
(* The event loop posts the read handler of a readable timerfd as a task.  *)
Dispatch ==
  /\ readable
  /\ ~handler_queued
  /\ loop_pc = "idle"
  /\ handler_queued' = TRUE
  /\ UNCHANGED <<m_pending_events, left, canceled, timerfd, readable, loop_pc,
                 temp, tasks, current, resetVars>>

(* onTimer reads the timerfd and takes what is due off the queue; what was *)
(* cancelled leaves a hole in the batch.                                   *)
OnTimer ==
  /\ handler_queued
  /\ Free(LoopThread) /\ loop_pc = "idle"
  /\ readable' = FALSE
  /\ temp' = [i \in 1 .. Until(0) |->
                IF m_pending_events[i] \in canceled THEN NoEvent ELSE m_pending_events[i]]
  /\ tasks' = temp'
  /\ m_pending_events' = SubSeq(m_pending_events, Until(0) + 1, Len(m_pending_events))
  /\ handler_queued' = FALSE
  /\ loop_pc' = "repeat"
  /\ UNCHANGED <<left, canceled, timerfd, current, resetVars>>

(* A repeated event is given a new arrive time and added again. *)
RepeatNext ==
  /\ loop_pc = "repeat"
  /\ reset_pc[LoopThread] = "none"
  /\ temp # << >>
  /\ temp' = Tail(temp)
  /\ IF Head(temp) \in Repeated
     THEN Emplace(LoopThread, Head(temp), Interval[Head(temp)])
     ELSE UNCHANGED <<m_pending_events, left, timerfd, readable, resetVars>>
  /\ UNCHANGED <<canceled, handler_queued, loop_pc, tasks, current>>

(* Mutant: onTimer leaves the timerfd as the repeated events set it. *)
RepeatDoneUnset ==
  /\ loop_pc = "repeat"
  /\ reset_pc[LoopThread] = "none"
  /\ temp = << >>
  /\ loop_pc' = "reset"
  /\ UNCHANGED <<m_pending_events, left, canceled, timerfd, readable,
                 handler_queued, temp, tasks, current, resetVars>>

(* All were: set the timerfd for the new head. *)
RepeatDone ==
  /\ loop_pc = "repeat"
  /\ reset_pc[LoopThread] = "none"
  /\ temp = << >>
  /\ loop_pc' = "reset"
  /\ reset_pc' = [reset_pc EXCEPT ![LoopThread] = "copy"]
  /\ UNCHANGED <<m_pending_events, left, canceled, timerfd, readable,
                 handler_queued, temp, tasks, current, copied>>

ResetDone ==
  /\ loop_pc = "reset"
  /\ reset_pc[LoopThread] = "none"
  /\ loop_pc' = "call"
  /\ UNCHANGED <<m_pending_events, left, canceled, timerfd, readable,
                 handler_queued, temp, tasks, current, resetVars>>

(* The callbacks of the batch run, whatever became of their events since.  *)
CallNext ==
  /\ loop_pc = "call"
  /\ tasks # << >>
  /\ current' = Head(tasks)
  /\ tasks' = Tail(tasks)
  /\ loop_pc' = IF current' = NoEvent THEN "call" ELSE "in_callback"
  /\ UNCHANGED <<m_pending_events, left, canceled, timerfd, readable,
                 handler_queued, temp, resetVars>>

CallbackReturns ==
  /\ loop_pc = "in_callback"
  /\ reset_pc[LoopThread] = "none"
  /\ current' = NoEvent
  /\ loop_pc' = "call"
  /\ UNCHANGED <<m_pending_events, left, canceled, timerfd, readable,
                 handler_queued, temp, tasks, resetVars>>

OnTimerReturns ==
  /\ loop_pc = "call"
  /\ tasks = << >>
  /\ loop_pc' = "idle"
  /\ UNCHANGED <<m_pending_events, left, canceled, timerfd, readable,
                 handler_queued, temp, tasks, current, resetVars>>
-----------------------------------------------------------------------------
(* Time passes. *)
Tick ==
  /\ left' = [e \in TimerEvent |-> IF left[e] > 0 THEN left[e] - 1 ELSE 0]
  /\ timerfd' = IF timerfd \in {Off, 1} THEN Off ELSE timerfd - 1
  /\ readable' = (readable \/ timerfd = 1)
  /\ UNCHANGED <<m_pending_events, canceled, onTimerVars, resetVars>>

LoopStep ==
  \/ Dispatch \/ OnTimer \/ RepeatNext \/ RepeatDone \/ ResetDone
  \/ CallNext \/ CallbackReturns \/ OnTimerReturns

ResetStep(t) == CopyPending(t) \/ SetTime(t)

Next ==
  \/ LoopStep
  \/ \E t \in Thread : ResetStep(t)
  \/ \E t \in Thread, e \in TimerEvent : AddTimerEvent(t, e)
  \/ \E e \in TimerEvent : DeleteTimerEvent(e)
  \/ Tick

Spec == Init /\ [][Next]_vars

(* Time passes, and every call of resetArriveTime goes on.  The loop's     *)
(* thread goes through its tasks in order and each of them, and each       *)
(* callback, makes finitely many calls: strong fairness, because a call    *)
(* that is under way disables the thread's next own step.                  *)
Fairness ==
  /\ WF_vars(Tick)
  /\ SF_vars(LoopStep)
  /\ \A t \in Thread : WF_vars(ResetStep(t))

FairSpec == Spec /\ Fairness
-----------------------------------------------------------------------------
TypeOK ==
  /\ m_pending_events \in Seq(TimerEvent)
  /\ left \in [TimerEvent -> Nat]
  /\ canceled \subseteq TimerEvent
  /\ timerfd \in (Nat \ {0}) \cup {Off}
  /\ readable \in BOOLEAN /\ handler_queued \in BOOLEAN
  /\ loop_pc \in LoopPc
  /\ temp \in Seq(TimerEvent \cup {NoEvent}) /\ tasks \in Seq(TimerEvent \cup {NoEvent})
  /\ current \in TimerEvent \cup {NoEvent}
  /\ reset_pc \in [Thread -> ResetPc]
  /\ copied \in [Thread -> TimerEvent \cup {NoEvent}]

(* timer.cpp:118, an earlier event resets the timerfd: whenever the loop's *)
(* thread may block, onTimer is under way or the timerfd expires no later  *)
(* than the first pending event (or than the retry interval, for a queue   *)
(* that was overdue when it was set).                                      *)
Armed ==
  m_pending_events # << >> /\ (\A t \in Thread : reset_pc[t] = "none") =>
    \/ loop_pc \in {"repeat", "reset"}
    \/ readable \/ handler_queued
    \/ /\ timerfd # Off
       /\ timerfd <= left[Head(m_pending_events)] \/ timerfd <= Retry

(* Deleting a timer event leaves no entry of it behind, neither a repeated *)
(* one that onTimer has just added again nor a copy: an event is in the    *)
(* queue at most once, and not after it was cancelled.                     *)
PendingOnce ==
  /\ \A i, j \in DOMAIN m_pending_events : m_pending_events[i] = m_pending_events[j] => i = j
  /\ Pending \cap canceled = {}

(* A pending event gets its callback called, or is cancelled. *)
TimerFires ==
  \A e \in TimerEvent : e \in Pending ~> (current = e \/ e \in canceled)
=============================================================================
