------------------------------ MODULE TaskThread ------------------------------
(***************************************************************************)
(* Thread (src/src/utils/thread.h, .cc): a thread with a queue of tasks    *)
(* and a list of delayed tasks. Any thread may push; one owner starts and  *)
(* stops it. A thread with a ThreadWaitTask sleeps in Wait when it has     *)
(* nothing to do, one without polls its queue.                             *)
(*                                                                         *)
(* Here Wait and WaitUp keep the promise of their names: a signal ends the *)
(* wait under way, or else the next one. NetworkThread shows that          *)
(* NetworkIoScheduler keeps it.                                            *)
(*                                                                         *)
(* mutex_ is held over each critical section, which is one action; so is   *)
(* each access to an atomic outside of them. A task is a name. Start of a  *)
(* thread that runs and Stop of one that does not change nothing.          *)
(***************************************************************************)
EXTENDS Naturals, Sequences, SequencesExt

CONSTANTS
  Tasks,         \* the tasks to push
  DelayedTasks,  \* the tasks to push with a delay
  Delays,        \* their wait_duration_ms
  MaxTime,       \* bound on the clock
  MaxStarts      \* bound on the calls of Start

ASSUME ThreadAssumption ==
  /\ Delays \subseteq Nat
  /\ MaxTime \in Nat /\ MaxStarts \in Nat

VARIABLES
  now,                \* UTCTimeMillis()
  wait_task,          \* wait_task_, "null" or "given"
  task_queue,
  delayed_task_list,  \* list of [f, execution_time, delay]
  should_stop,
  runing,
  pc,                 \* where the thread is in ThreadMain
  task_f,             \* the task about to run, if any
  delayed_task,       \* the delayed task about to run, if any
  wait_duration,      \* wait_duration_ms
  wait_begin,         \* when Wait was called
  thread_known,       \* thread_ is the running thread, so IsCurrent works
  owner,              \* where the owner is in Start or Stop
  starts,             \* how often Start started the thread
  signaled,           \* WaitUp was called and no Wait has ended by it
  pushed, ran         \* history: the last tasks accepted and tasks run since Start

context == <<now, wait_task>>
queueVars == <<task_queue, delayed_task_list>>
loopVars == <<pc, task_f, delayed_task, wait_duration, wait_begin>>
ownerVars == <<should_stop, runing, thread_known, owner, starts>>
vars == <<context, queueVars, loopVars, ownerVars, signaled, pushed, ran>>

kForever == 2 * MaxTime + 1

\* Mutant of Signal: only a thread that sleeps is woken up.
SignalSleeper ==
  IF wait_task # "null" /\ pc = "wait" THEN signaled' = TRUE ELSE UNCHANGED signaled

\* WaitUp, if there is a wait task.
Signal == IF wait_task # "null" THEN signaled' = TRUE ELSE UNCHANGED signaled

-----------------------------------------------------------------------------
(* PushTask *)

\* The same task is pushed again only after it ran, and there is no end to that.
Waits(t) == t \in ToSet(task_f) \cup ToSet(task_queue)

\* The history forgets what ran up to the earlier run of t, if it ran.
RanUpTo(t) == IF t \in ToSet(ran) THEN CHOOSE k \in DOMAIN ran : ran[k] = t ELSE 0
Since(history, k) == SubSeq(history, k + 1, Len(history))

Record(t) == /\ pushed' = Append(Since(pushed, RanUpTo(t)), t)
             /\ ran' = Since(ran, RanUpTo(t))

\* Mutant of PushDelayedTask: the newest is the first in the list.
PushDelayedTaskInFront(t, d) ==
  /\ runing
  /\ now + d <= MaxTime
  /\ \A i \in DOMAIN delayed_task_list : delayed_task_list[i].f # t
  /\ delayed_task_list' =
       <<[f |-> t, execution_time |-> now + d, delay |-> d]>> \o delayed_task_list
  /\ UNCHANGED <<context, task_queue, loopVars, ownerVars, pushed, ran>>

\* Mutant of PushTask: the task is accepted before the thread runs.
PushTaskAlways(t) ==
  /\ ~Waits(t)
  /\ task_queue' = Append(task_queue, t)
  /\ Record(t)
  /\ UNCHANGED <<context, delayed_task_list, loopVars, ownerVars>>

PushTask(t) ==
  /\ runing
  /\ ~Waits(t)
  /\ task_queue' = Append(task_queue, t)
  /\ Record(t)
  /\ UNCHANGED <<context, delayed_task_list, loopVars, ownerVars>>

PushDelayedTask(t, d) ==
  /\ runing
  /\ now + d <= MaxTime
  /\ \A i \in DOMAIN delayed_task_list : delayed_task_list[i].f # t
  /\ delayed_task_list' =
       Append(delayed_task_list, [f |-> t, execution_time |-> now + d, delay |-> d])
  /\ UNCHANGED <<context, task_queue, loopVars, ownerVars, pushed, ran>>

\* The thread does not run: the task is dropped.
DropTask == ~runing /\ UNCHANGED vars

-----------------------------------------------------------------------------
(* ThreadMain *)

\* while (!should_stop_)
LoopTop ==
  /\ pc = "top"
  /\ pc' = IF should_stop THEN "ended" ELSE "scan"
  /\ wait_duration' = kForever
  /\ UNCHANGED <<context, queueVars, task_f, delayed_task, wait_begin, ownerVars,
                 pushed, ran>>

\* The index of the first delayed task that is due, past the end if there is none.
FirstDue ==
  LET due == {i \in DOMAIN delayed_task_list : delayed_task_list[i].execution_time <= now}
  IN  IF due = {} THEN Len(delayed_task_list) + 1
      ELSE CHOOSE i \in due : \A j \in due : i <= j

\* What the scan of the delayed tasks makes of wait_duration_ms.
ScannedWait ==
  LET times == {delayed_task_list[i].execution_time : i \in DOMAIN delayed_task_list}
                 \cup {wait_duration}
  IN  IF FirstDue <= Len(delayed_task_list) THEN 0
      ELSE CHOOSE x \in times : \A y \in times : x <= y

\* Mutant of Scan: the delayed tasks are looked at only when the queue is empty.
ScanQueueFirst ==
  LET i == FirstDue
      due == IF task_queue = <<>> /\ i \in DOMAIN delayed_task_list
             THEN <<delayed_task_list[i]>> ELSE <<>>
  IN  /\ pc = "scan"
      /\ delayed_task' = due
      /\ delayed_task_list' =
           IF due = <<>> THEN delayed_task_list ELSE RemoveAt(delayed_task_list, i)
      /\ wait_duration' = ScannedWait
      /\ task_f' = IF task_queue = <<>> THEN <<>> ELSE <<Head(task_queue)>>
      /\ task_queue' = IF task_queue = <<>> THEN <<>> ELSE Tail(task_queue)
      /\ pc' = IF task_queue = <<>> /\ due = <<>> THEN "idle" ELSE "run"
      /\ UNCHANGED <<context, wait_begin, ownerVars, pushed, ran>>

\* Under the lock: take the first delayed task that is due and the front of the
\* queue.
Scan ==
  LET i == FirstDue
      due == IF i \in DOMAIN delayed_task_list THEN <<delayed_task_list[i]>> ELSE <<>>
  IN  /\ pc = "scan"
      /\ delayed_task' = due
      /\ delayed_task_list' =
           IF due = <<>> THEN delayed_task_list ELSE RemoveAt(delayed_task_list, i)
      /\ wait_duration' = ScannedWait
      /\ task_f' = IF task_queue = <<>> THEN <<>> ELSE <<Head(task_queue)>>
      /\ task_queue' = IF task_queue = <<>> THEN <<>> ELSE Tail(task_queue)
      /\ pc' = IF task_queue = <<>> /\ due = <<>> THEN "idle" ELSE "run"
      /\ UNCHANGED <<context, wait_begin, ownerVars, pushed, ran>>

RunTask ==
  /\ pc = "run" /\ task_f # <<>>
  /\ ran' = ran \o task_f
  /\ task_f' = <<>>
  /\ pc' = IF delayed_task = <<>> THEN "more" ELSE "run"
  /\ UNCHANGED <<context, queueVars, delayed_task, wait_duration, wait_begin, ownerVars,
                 pushed>>

RunDelayedTask ==
  /\ pc = "run" /\ task_f = <<>>
  /\ delayed_task' = <<>>
  /\ pc' = "more"
  /\ UNCHANGED <<context, queueVars, task_f, wait_duration, wait_begin, ownerVars,
                 pushed, ran>>

\* do ... while (!should_stop_)
More ==
  /\ pc = "more"
  /\ pc' = IF should_stop THEN "ended" ELSE "scan"
  /\ UNCHANGED <<context, queueVars, task_f, delayed_task, wait_duration, wait_begin,
                 ownerVars, pushed, ran>>

\* Nothing to do: end, sleep, or look again.
Idle ==
  /\ pc = "idle"
  /\ pc' = IF should_stop THEN "ended" ELSE IF wait_task = "null" THEN "top" ELSE "to_wait"
  /\ UNCHANGED <<context, queueVars, task_f, delayed_task, wait_duration, wait_begin,
                 ownerVars, pushed, ran>>

BeginWait ==
  /\ pc = "to_wait"
  /\ pc' = "wait"
  /\ wait_begin' = now
  /\ UNCHANGED <<context, queueVars, task_f, delayed_task, wait_duration, ownerVars,
                 pushed, ran>>

\* Wait returns.
EndWait ==
  /\ pc = "wait"
  /\ pc' = "top"
  /\ UNCHANGED <<context, queueVars, task_f, delayed_task, wait_duration, wait_begin,
                 ownerVars, pushed, ran>>

TimedOut == wait_duration # kForever /\ wait_begin + wait_duration <= now

ThreadStep ==
  \/ (LoopTop \/ Scan \/ RunTask \/ RunDelayedTask \/ More \/ Idle \/ BeginWait)
     /\ UNCHANGED signaled
  \/ EndWait /\ signaled /\ signaled' \in BOOLEAN
  \/ EndWait /\ TimedOut /\ UNCHANGED signaled

-----------------------------------------------------------------------------
(* Start and Stop *)

\* The thread begins to run before thread_ is assigned.
Start ==
  /\ owner = "idle" /\ ~runing
  /\ starts < MaxStarts
  /\ should_stop' = FALSE
  /\ pc' = "top"
  /\ owner' = "spawning"
  /\ starts' = starts + 1
  /\ UNCHANGED <<context, queueVars, task_f, delayed_task, wait_duration, wait_begin,
                 runing, thread_known, pushed, ran>>

AssignThread ==
  /\ owner = "spawning"
  /\ thread_known' = TRUE
  /\ owner' = "starting"
  /\ UNCHANGED <<context, queueVars, loopVars, should_stop, runing, starts, pushed, ran>>

FinishStart ==
  /\ owner = "starting"
  /\ runing' = TRUE
  /\ owner' = "idle"
  /\ UNCHANGED <<context, queueVars, loopVars, should_stop, thread_known, starts,
                 pushed, ran>>

Stop ==
  /\ owner = "idle" /\ runing
  /\ should_stop' = TRUE
  /\ owner' = "waking"
  /\ UNCHANGED <<context, queueVars, loopVars, runing, thread_known, starts, pushed, ran>>

\* Stop calls WaitUp.
WakeForStop ==
  /\ owner = "waking"
  /\ owner' = "joining"
  /\ UNCHANGED <<context, queueVars, loopVars, should_stop, runing, thread_known, starts,
                 pushed, ran>>

Join ==
  /\ owner = "joining" /\ pc = "ended"
  /\ thread_known' = FALSE
  /\ owner' = "clearing"
  /\ UNCHANGED <<context, queueVars, loopVars, should_stop, runing, starts, pushed, ran>>

\* Mutant of FinishStop: the tasks left are kept for the next start.
FinishStopKeepsTasks ==
  /\ owner = "clearing"
  /\ should_stop' = FALSE
  /\ runing' = FALSE
  /\ owner' = "idle"
  /\ pushed' = <<>>
  /\ ran' = <<>>
  /\ UNCHANGED <<context, queueVars, loopVars, thread_known, starts>>

\* The thread has taken its last task and drops the rest.
FinishStop ==
  /\ owner = "clearing"
  /\ task_queue' = <<>>
  /\ delayed_task_list' = <<>>
  /\ should_stop' = FALSE
  /\ runing' = FALSE
  /\ owner' = "idle"
  /\ pushed' = <<>>
  /\ ran' = <<>>
  /\ UNCHANGED <<context, loopVars, thread_known, starts>>

OwnerProceeds ==
  \/ (AssignThread \/ FinishStart \/ Join \/ FinishStop) /\ UNCHANGED signaled
  \/ WakeForStop /\ Signal

Tick ==
  /\ now < MaxTime
  /\ now' = now + 1
  /\ UNCHANGED <<wait_task, queueVars, loopVars, ownerVars, pushed, ran>>

Init ==
  /\ now = 0
  /\ wait_task \in {"null", "given"}
  /\ task_queue = <<>> /\ delayed_task_list = <<>>
  /\ should_stop = FALSE /\ runing = FALSE
  /\ pc = "ended"
  /\ task_f = <<>> /\ delayed_task = <<>>
  /\ wait_duration = kForever /\ wait_begin = 0
  /\ thread_known = FALSE
  /\ owner = "idle" /\ starts = 0
  /\ signaled = FALSE
  /\ pushed = <<>> /\ ran = <<>>

Next ==
  \/ \E t \in Tasks : PushTask(t) /\ Signal
  \/ \E t \in DelayedTasks, d \in Delays : PushDelayedTask(t, d) /\ Signal
  \/ DropTask
  \/ ThreadStep
  \/ (Start \/ Stop) /\ UNCHANGED signaled
  \/ OwnerProceeds
  \/ Tick /\ UNCHANGED signaled

Spec == Init /\ [][Next]_vars

\* The operating system runs the thread and its owner, and every task ends.
\* Nobody need push a task, nor start or stop the thread.
FairSpec == Spec /\ WF_vars(ThreadStep) /\ WF_vars(OwnerProceeds)

-----------------------------------------------------------------------------
(* Properties *)

\* Since the last Start, the tasks accepted are those that ran, the one about to
\* run and those in the queue, in the order of the pushes: none is lost,
\* repeated, overtaken, or left over from before a Stop.
TasksInOrder == pushed = ran \o task_f \o task_queue

\* A task runs only when thread_ is assigned: IsCurrent, on which the callers of
\* PushTask decide between running and pushing, is right in every task,
\* although the thread starts before the assignment.
TasksKnowTheirThread ==
  pc = "run" => thread_known

\* A task in the queue runs, unless the thread is stopped: no wake-up gets lost
\* between the look at the queue and the sleep.
TasksRun ==
  \A t \in Tasks : t \in ToSet(task_queue) ~> t \in ToSet(ran) \/ should_stop

\* Stop returns, wherever the thread is when it is called.
StopReturns == owner = "waking" ~> owner = "idle"

IsDue(t) ==
  \E i \in DOMAIN delayed_task_list :
    delayed_task_list[i].f = t /\ delayed_task_list[i].execution_time <= now

\* A delayed task that is due is taken from the list, although each round takes
\* one only and other threads push more for ever, to the queue and to the list,
\* unless the thread is stopped - or sleeps too long: wait_duration is an absolute
\* time where Wait takes a duration.
DueTasksRun ==
  \A t \in DelayedTasks : IsDue(t) /\ wait_task = "null" ~> ~IsDue(t) \/ should_stop
===============================================================================
