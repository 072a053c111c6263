---------------------------- MODULE NetworkThread -----------------------------
(***************************************************************************)
(* The network thread of a session: a Thread whose wait task is the        *)
(* NetworkIoScheduler. It sends what the other threads push and reads the  *)
(* socket while it sleeps. StartSession starts it, then opens the socket,  *)
(* then initializes the media sessions, whose reports are tasks of this    *)
(* thread.                                                                 *)
(***************************************************************************)
EXTENDS Naturals, Sequences, SequencesExt

CONSTANTS
  Tasks,         \* the tasks pushed on the thread
  Reports,       \* those of RtcpSender's schedule
  MaxDatagrams   \* bound on the datagrams that arrive

ASSUME NetworkAssumption == Reports \subseteq Tasks

VARIABLES
  task_queue, should_stop, runing, pc, task_f, thread_known, owner, starts,
  pushed, ran,
  wait_pc, wait_break, wakeup_event, socket_event, handler_added, selected,
  fd_read, fd_armed, readable, received

S == INSTANCE NetworkIoScheduler

\* The network thread has no delayed tasks, so time does not matter to it.
T == INSTANCE TaskThread
       WITH wait_task <- "given", DelayedTasks <- {}, Delays <- {}, MaxTime <- 0,
            MaxStarts <- 1, now <- 0, delayed_task_list <- <<>>, delayed_task <- <<>>,
            wait_duration <- 1, wait_begin <- 0, signaled <- S!Signaled

threadVars == <<task_queue, should_stop, runing, pc, task_f, thread_known, owner, starts,
                pushed, ran>>
schedulerVars == <<wait_pc, wait_break, wakeup_event, socket_event, handler_added,
                   selected, fd_read, fd_armed, readable, received>>
vars == <<threadVars, schedulerVars>>

Push(t) == /\ t \in Reports => handler_added
           /\ T!PushTask(t)
           /\ S!Signal

DropTask == UNCHANGED vars /\ T!DropTask

Loop == /\ T!LoopTop \/ T!Scan \/ T!RunTask \/ T!More \/ T!Idle
        /\ UNCHANGED schedulerVars
BeginWait == T!BeginWait /\ S!BeginWait
Wait == S!WaitStep /\ UNCHANGED threadVars
EndWait == T!EndWait /\ S!EndWait

Start == T!Start /\ UNCHANGED schedulerVars
Stop == T!Stop /\ UNCHANGED schedulerVars
OwnerProceeds ==
  \/ (T!AssignThread \/ T!FinishStart \/ T!Join \/ T!FinishStop) /\ UNCHANGED schedulerVars
  \/ T!WakeForStop /\ S!Signal

\* The owner of the thread creates the tranceiver after it has started it.
OpenSocket == owner = "idle" /\ runing /\ S!AddHandler /\ UNCHANGED threadVars

Arrive == S!Arrive /\ UNCHANGED threadVars

Init == S!Init /\ T!Init

ThreadStep == Loop \/ BeginWait \/ Wait \/ EndWait

Next == \/ \E t \in Tasks : Push(t)
        \/ DropTask
        \/ ThreadStep
        \/ Start \/ Stop \/ OwnerProceeds \/ OpenSocket
        \/ Arrive

Spec == Init /\ [][Next]_vars

\* The operating system runs the threads, and the schedule of the RTCP reports,
\* which starts after the socket was opened, brings tasks. No other thread need
\* push a task, and no data need arrive.
FairSpec ==
  /\ Spec
  /\ WF_vars(ThreadStep)
  /\ WF_vars(OwnerProceeds)
  /\ \A t \in Reports : WF_vars(Push(t))

-----------------------------------------------------------------------------
(* Properties *)

\* The scheduler keeps the promise of WaitUp and Wait: a wait ends only by a
\* signal, and no signal is lost while the socket is read or between two waits.
ImplementsTaskThread == T!Spec

\* Stop gets the thread out of its sleep, whatever arrives.
StopReturns == T!StopReturns

\* Datagrams in the socket are read, although the socket's event is reset after
\* the socket was read, and although the handler may be added while the thread
\* sleeps already: at the latest when a report wakes it up. Only Wait reads, so
\* this is so while the thread again and again finds its queue empty.
DatagramsRead ==
  []<>(pc \in {"idle", "ended"})
    => (readable > 0 ~> readable = 0 \/ should_stop \/ ~runing)
===============================================================================
