------------------------------ MODULE TaskQueue ------------------------------
(***************************************************************************)
(* What EventLoop::addTask promises (rocket/net/eventloop.h:33): a task    *)
(* that is handed over is executed by the loop thread, once, and tasks are *)
(* executed in the order in which they were handed over.                   *)
(***************************************************************************)
EXTENDS Sequences

CONSTANTS Task,     \* the tasks that can be handed over
          NoTask    \* no task was executed yet

VARIABLES queue,    \* tasks handed over and not yet executed, oldest first
          current   \* the task executed last

vars == <<queue, current>>

Init ==
  /\ queue = << >>
  /\ current = NoTask

Post(task) ==
  /\ queue' = Append(queue, task)
  /\ UNCHANGED current

Execute ==
  /\ queue # << >>
  /\ current' = Head(queue)
  /\ queue' = Tail(queue)

Next == Execute \/ \E task \in Task : Post(task)

Spec == Init /\ [][Next]_vars
=============================================================================
