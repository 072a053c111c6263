--------------------------- MODULE TaskThreadProofs ---------------------------
(* Proofs about TaskThread, for every set of tasks and every number of starts,   *)
(* and that the network thread, with the NetworkIoScheduler as its wait task, is *)
(* such a thread, for every set of tasks and reports.                            *)
EXTENDS TaskThread, SequenceTheorems, TLAPS

\* What NetworkThread has besides what it shares with TaskThread.
CONSTANTS Reports, MaxDatagrams
VARIABLES wait_pc, wait_break, wakeup_event, socket_event, handler_added, selected,
          fd_read, fd_armed, readable, received

Network == INSTANCE NetworkThread

QueueTypeOK ==
  /\ task_queue \in Seq(Tasks) /\ task_f \in Seq(Tasks)
  /\ pushed \in Seq(Tasks) /\ ran \in Seq(Tasks)

\* A task is held only by a thread about to run it, and nothing is left of the
\* time before a Stop.
TasksHeld ==
  /\ task_f # <<>> => pc = "run"
  /\ ~runing => /\ task_queue = <<>> /\ delayed_task_list = <<>>
                /\ pushed = <<>> /\ ran = <<>> /\ task_f = <<>>

\* Where the owner is decides whether the thread runs and is known.
OwnerInStep ==
  /\ owner \in {"spawning", "starting"} => ~runing
  /\ owner = "starting" => thread_known
  /\ owner \in {"waking", "joining", "clearing"} => runing
  /\ owner = "clearing" => pc = "ended"
  /\ runing /\ owner # "clearing" => thread_known

\* The inductive invariant.
ThreadInv ==
  QueueTypeOK /\ TasksHeld /\ OwnerInStep /\ TasksInOrder /\ TasksKnowTheirThread

\* A task appended to the queue is appended to the whole.
LEMMA AppendToWhole ==
  ASSUME NEW r \in Seq(Tasks), NEW f \in Seq(Tasks), NEW q \in Seq(Tasks), NEW t \in Tasks
  PROVE  Append(r \o f \o q, t) = r \o f \o Append(q, t)
<1>1. Append(q, t) = q \o <<t>> /\ Append(r \o f \o q, t) = (r \o f \o q) \o <<t>>
  BY AppendIsConcat, ConcatProperties
<1>2. <<t>> \in Seq(Tasks) /\ r \o f \in Seq(Tasks)
  BY ConcatProperties
<1> QED BY <1>1, <1>2, ConcatAssociative

\* The head of the queue moves into the hand.
LEMMA TakeHead ==
  ASSUME NEW r \in Seq(Tasks), NEW q \in Seq(Tasks), q # <<>>
  PROVE  /\ <<Head(q)>> \in Seq(Tasks) /\ Tail(q) \in Seq(Tasks)
         /\ r \o <<>> \o q = r \o <<Head(q)>> \o Tail(q)
<1>1. Head(q) \in Tasks /\ Tail(q) \in Seq(Tasks)
  BY HeadTailProperties
<1>2. q = <<Head(q)>> \o Tail(q)
  BY <1>1
<1>3. <<Head(q)>> \in Seq(Tasks)
  BY <1>1
<1>4. r \o <<>> = r
  BY ConcatEmptySeq
<1>5. r \o (<<Head(q)>> \o Tail(q)) = (r \o <<Head(q)>>) \o Tail(q)
  BY <1>1, <1>3, ConcatAssociative
<1> QED BY <1>1, <1>2, <1>3, <1>4, <1>5

\* Three empty sequences make an empty one.
LEMMA EmptyWhole == <<>> = <<>> \o <<>> \o <<>>
BY ConcatEmptySeq

\* The thread starts with nothing pushed and nothing known.
LEMMA ThreadInit == Init => ThreadInv
BY EmptyWhole DEF Init, ThreadInv, QueueTypeOK, TasksHeld, OwnerInStep, TasksInOrder,
   TasksKnowTheirThread

\* What the history forgets is the same at the front of the whole and of what ran.
LEMMA ForgetFront ==
  ASSUME NEW r \in Seq(Tasks), NEW x \in Seq(Tasks), NEW k \in 0..Len(r)
  PROVE  /\ Since(r, k) \in Seq(Tasks)
         /\ Since(r \o x, k) = Since(r, k) \o x
<1>1. r \o x \in Seq(Tasks) /\ Len(r \o x) = Len(r) + Len(x)
  BY ConcatProperties
<1>2. /\ Since(r, k) \in Seq(Tasks) /\ Len(Since(r, k)) = Len(r) - k
      /\ \A i \in 1..(Len(r) - k) : Since(r, k)[i] = r[k + i]
  BY DEF Since
<1>3. /\ Since(r \o x, k) \in Seq(Tasks) /\ Len(Since(r \o x, k)) = Len(r) + Len(x) - k
      /\ \A i \in 1..(Len(r) + Len(x) - k) : Since(r \o x, k)[i] = (r \o x)[k + i]
  BY <1>1 DEF Since
<1> HIDE DEF Since
<1>4. /\ Since(r, k) \o x \in Seq(Tasks)
      /\ Len(Since(r, k) \o x) = Len(r) + Len(x) - k
  BY <1>2, ConcatProperties
<1>5. ASSUME NEW i \in 1..(Len(r) + Len(x) - k)
      PROVE  Since(r \o x, k)[i] = (Since(r, k) \o x)[i]
  <2>1. Since(r \o x, k)[i] = (r \o x)[k + i]
    BY <1>3
  <2>2. CASE i <= Len(r) - k
    BY <1>2, <2>1, <2>2
  <2>3. CASE i > Len(r) - k
    BY <1>2, <2>1, <2>3
  <2>4. i <= Len(r) - k \/ i > Len(r) - k
    BY LenProperties
  <2> QED BY <2>2, <2>3, <2>4, Zenon
<1> QED BY <1>2, <1>3, <1>4, <1>5, SeqEqual

USE DEF ThreadInv, queueVars, loopVars, ownerVars

\* A push appends to the queue and to the history.
LEMMA PushKeeps ==
  ASSUME ThreadInv, NEW t \in Tasks, PushTask(t)
  PROVE  ThreadInv'
<1>1. /\ task_queue \in Seq(Tasks) /\ task_f \in Seq(Tasks) /\ ran \in Seq(Tasks)
      /\ pushed = ran \o task_f \o task_queue /\ task_f \o task_queue \in Seq(Tasks)
  BY ConcatProperties DEF QueueTypeOK, TasksInOrder
<1>2. RanUpTo(t) \in 0..Len(ran)
  BY <1>1 DEF RanUpTo, ToSet
<1> DEFINE rest == Since(ran, RanUpTo(t))
<1>3. /\ runing /\ task_queue' = Append(task_queue, t)
      /\ pushed' = Append(Since(pushed, RanUpTo(t)), t) /\ ran' = rest
      /\ UNCHANGED <<delayed_task_list, pc, task_f, runing, thread_known, owner>>
  BY DEF PushTask, Record
<1>4. rest \in Seq(Tasks) /\ Since(pushed, RanUpTo(t)) = rest \o task_f \o task_queue
  <2>1. pushed = ran \o (task_f \o task_queue)
    BY <1>1, ConcatAssociative
  <2>2. rest \in Seq(Tasks) /\ Since(pushed, RanUpTo(t)) = rest \o (task_f \o task_queue)
    BY <1>1, <1>2, <2>1, ForgetFront
  <2> HIDE DEF rest
  <2> QED BY <1>1, <2>2, ConcatAssociative, SMTT(60)
<1> HIDE DEF rest, ThreadInv
<1>5. TasksInOrder'
  <2>1. Append(rest \o task_f \o task_queue, t) = rest \o task_f \o Append(task_queue, t)
    BY <1>1, <1>4, AppendToWhole, ZenonT(60)
  <2>2. pushed' = ran' \o task_f' \o task_queue'
    BY <1>3, <1>4, <2>1, Zenon
  <2> QED BY <2>2 DEF TasksInOrder
<1>6. QueueTypeOK'
  <2>1. rest \o task_f \o task_queue \in Seq(Tasks)
    BY <1>1, <1>4, ConcatProperties
  <2> QED BY <1>1, <1>3, <1>4, <2>1, AppendProperties DEF QueueTypeOK
<1>7. TasksHeld' /\ OwnerInStep' /\ TasksKnowTheirThread'
  BY <1>3 DEF ThreadInv, TasksHeld, OwnerInStep, TasksKnowTheirThread
<1> QED BY <1>5, <1>6, <1>7 DEF ThreadInv

\* The scan moves the head of the queue into the hand.
LEMMA ScanKeeps ==
  ASSUME ThreadInv, Scan
  PROVE  ThreadInv'
<1> DEFINE due == IF FirstDue \in DOMAIN delayed_task_list
                  THEN <<delayed_task_list[FirstDue]>> ELSE <<>>
<1>1. /\ pc = "scan" /\ task_f = <<>>
      /\ UNCHANGED <<runing, thread_known, owner, pushed, ran>>
      /\ delayed_task_list' = IF due = <<>> THEN delayed_task_list
                              ELSE RemoveAt(delayed_task_list, FirstDue)
      /\ task_f' = IF task_queue = <<>> THEN <<>> ELSE <<Head(task_queue)>>
      /\ task_queue' = IF task_queue = <<>> THEN <<>> ELSE Tail(task_queue)
      /\ pc' = IF task_queue = <<>> /\ due = <<>> THEN "idle" ELSE "run"
  BY DEF Scan, TasksHeld
<1>2. ~runing => due = <<>>
  BY DEF TasksHeld
<1> HIDE DEF due
<1>3. pc' = "run" => runing
  BY <1>1, <1>2 DEF TasksHeld
<1>4. CASE task_queue = <<>>
  <2>1. QueueTypeOK' /\ TasksInOrder'
    BY <1>1, <1>4 DEF QueueTypeOK, TasksInOrder
  <2>2. TasksHeld'
    BY <1>1, <1>2, <1>4 DEF TasksHeld
  <2>3. OwnerInStep' /\ TasksKnowTheirThread'
    BY <1>1, <1>3 DEF OwnerInStep, TasksKnowTheirThread
  <2> QED BY <2>1, <2>2, <2>3
<1>5. CASE task_queue # <<>>
  <2>1. QueueTypeOK' /\ TasksInOrder'
    BY <1>1, <1>5, TakeHead DEF QueueTypeOK, TasksInOrder
  <2>2. TasksHeld'
    BY <1>1, <1>5 DEF TasksHeld
  <2>3. OwnerInStep' /\ TasksKnowTheirThread'
    BY <1>1, <1>3 DEF OwnerInStep, TasksKnowTheirThread
  <2> QED BY <2>1, <2>2, <2>3
<1> QED BY <1>4, <1>5

\* Running the task moves it from the hand to the history.
LEMMA RunKeeps ==
  ASSUME ThreadInv, RunTask
  PROVE  ThreadInv'
<1> USE DEF RunTask
<1>1. QueueTypeOK'
  BY ConcatProperties DEF QueueTypeOK
<1>2. TasksHeld' /\ OwnerInStep' /\ TasksKnowTheirThread'
  BY DEF TasksHeld, OwnerInStep, TasksKnowTheirThread
<1>3. (ran \o task_f) \o <<>> = ran \o task_f
  BY ConcatProperties, ConcatEmptySeq DEF QueueTypeOK
<1>4. TasksInOrder'
  BY <1>3 DEF TasksInOrder
<1> QED BY <1>1, <1>2, <1>4

\* The steps of the loop that touch no task.
LEMMA LoopKeeps ==
  ASSUME ThreadInv,
         LoopTop \/ RunDelayedTask \/ More \/ Idle \/ BeginWait \/ EndWait
  PROVE  ThreadInv'
<1>1. /\ UNCHANGED <<task_queue, delayed_task_list, task_f, runing, thread_known, owner,
                     pushed, ran>>
      /\ pc' # "run" /\ pc # "ended" /\ task_f = <<>>
  BY DEF LoopTop, RunDelayedTask, More, Idle, BeginWait, EndWait, TasksHeld
<1>2. QueueTypeOK' /\ TasksHeld' /\ TasksInOrder' /\ TasksKnowTheirThread'
  BY <1>1 DEF QueueTypeOK, TasksHeld, TasksInOrder, TasksKnowTheirThread
<1>3. OwnerInStep'
  BY <1>1 DEF OwnerInStep
<1> QED BY <1>2, <1>3

\* Start and Stop, but for its end.
LEMMA OwnerKeeps ==
  ASSUME ThreadInv,
         Start \/ AssignThread \/ FinishStart \/ Stop \/ WakeForStop \/ Join
  PROVE  ThreadInv'
<1>1. /\ UNCHANGED <<task_queue, delayed_task_list, task_f, pushed, ran>>
      /\ UNCHANGED runing \/ runing' = TRUE
  BY DEF Start, AssignThread, FinishStart, Stop, WakeForStop, Join
<1>2. QueueTypeOK' /\ TasksInOrder'
  BY <1>1 DEF QueueTypeOK, TasksInOrder
<1>3. TasksHeld'
  BY <1>1 DEF TasksHeld, Start, AssignThread, FinishStart, Stop, WakeForStop, Join
<1>4. OwnerInStep' /\ TasksKnowTheirThread'
  BY DEF OwnerInStep, TasksKnowTheirThread, Start, AssignThread, FinishStart, Stop,
     WakeForStop, Join
<1> QED BY <1>2, <1>3, <1>4

\* The end of Stop leaves nothing behind.
LEMMA FinishStopKeeps ==
  ASSUME ThreadInv, FinishStop
  PROVE  ThreadInv'
<1>1. task_f = <<>> /\ pc = "ended"
  BY DEF FinishStop, OwnerInStep, TasksHeld
<1>2. QueueTypeOK' /\ TasksHeld' /\ OwnerInStep' /\ TasksKnowTheirThread'
  BY <1>1 DEF FinishStop, QueueTypeOK, TasksHeld, OwnerInStep, TasksKnowTheirThread
<1>3. TasksInOrder'
  BY <1>1, EmptyWhole DEF FinishStop, TasksInOrder
<1> QED BY <1>2, <1>3

\* A delayed push and the clock touch no queued task.
LEMMA RestKeeps ==
  ASSUME ThreadInv,
         Tick \/ \E t \in DelayedTasks, d \in Delays : PushDelayedTask(t, d)
  PROVE  ThreadInv'
<1>1. /\ UNCHANGED <<task_queue, pc, task_f, runing, thread_known, owner, pushed, ran>>
      /\ runing \/ UNCHANGED delayed_task_list
  BY DEF Tick, PushDelayedTask
<1> QED BY <1>1 DEF QueueTypeOK, TasksHeld, OwnerInStep, TasksInOrder, TasksKnowTheirThread

\* Every step keeps the invariant.
LEMMA ThreadNext == ThreadInv /\ [Next]_vars => ThreadInv'
<1> SUFFICES ASSUME ThreadInv, [Next]_vars PROVE ThreadInv'
  OBVIOUS
<1>1. CASE \E t \in Tasks : PushTask(t)
  BY <1>1, PushKeeps
<1>2. CASE Scan
  BY <1>2, ScanKeeps
<1>3. CASE RunTask
  BY <1>3, RunKeeps
<1>4. CASE LoopTop \/ RunDelayedTask \/ More \/ Idle \/ BeginWait \/ EndWait
  BY <1>4, LoopKeeps
<1>5. CASE Start \/ AssignThread \/ FinishStart \/ Stop \/ WakeForStop \/ Join
  BY <1>5, OwnerKeeps
<1>6. CASE FinishStop
  BY <1>6, FinishStopKeeps
<1>7. CASE Tick \/ \E t \in DelayedTasks, d \in Delays : PushDelayedTask(t, d)
  BY <1>7, RestKeeps
<1>8. CASE UNCHANGED vars
  BY <1>8 DEF vars, QueueTypeOK, TasksHeld, OwnerInStep, TasksInOrder,
      TasksKnowTheirThread
<1>9. CASE DropTask
  BY <1>8, <1>9 DEF DropTask
<1> HIDE DEF ThreadInv
<1> QED
  BY <1>1, <1>2, <1>3, <1>4, <1>5, <1>6, <1>7, <1>8, <1>9
  DEF Next, ThreadStep, OwnerProceeds

\* The invariant holds in every reachable state.
LEMMA ThreadInvHolds == Spec => []ThreadInv
<1> HIDE DEF ThreadInv
<1> QED BY ThreadInit, ThreadNext, PTL DEF Spec

\* The tasks run in the order of the pushes, each once and none from before a
\* Stop (TasksInOrder).
THEOREM TasksKeepOrder == Spec => []TasksInOrder
<1>1. ThreadInv => TasksInOrder
  BY DEF ThreadInv
<1> QED BY <1>1, ThreadInvHolds, PTL

\* Every task can tell which thread it runs on (TasksKnowTheirThread).
THEOREM ThreadKnown == Spec => []TasksKnowTheirThread
<1>1. ThreadInv => TasksKnowTheirThread
  BY DEF ThreadInv
<1> QED BY <1>1, ThreadInvHolds, PTL

-----------------------------------------------------------------------------
(* The network thread *)

\* A Wait that returns was ended by a signal.
DoneBySignal == wait_pc = "done" => wait_break

USE DEF Network!threadVars, Network!schedulerVars, Network!vars, Network!S!vars,
    Network!S!waitVars, Network!S!socketVars

\* No Wait is under way at the start.
LEMMA SchedulerInit == Network!Init => DoneBySignal
BY DEF Network!Init, Network!S!Init, DoneBySignal

\* Only the reset of the socket event leads to the end of Wait, and it looks at
\* the flag that WakeBySignal sets.
LEMMA SchedulerKeeps == DoneBySignal /\ [Network!Next]_(Network!vars) => DoneBySignal'
<1> SUFFICES ASSUME DoneBySignal, [Network!Next]_(Network!vars) PROVE DoneBySignal'
  OBVIOUS
<1>1. CASE UNCHANGED <<wait_pc, wait_break>>
  BY <1>1 DEF DoneBySignal
<1>2. CASE wait_pc' # "done"
  BY <1>2 DEF DoneBySignal
<1>3. CASE Network!S!ResetSocketEvent
  BY <1>3 DEF DoneBySignal, Network!S!ResetSocketEvent
<1>4. Network!S!WaitStep => \/ Network!S!ResetSocketEvent
                            \/ UNCHANGED <<wait_pc, wait_break>>
                            \/ wait_pc' # "done"
  BY DEF Network!S!WaitStep, Network!S!Select, Network!S!WakeBySocket, Network!S!Read,
      Network!S!ReadNothing, Network!S!WakeBySignal
<1>5. Network!S!BeginWait \/ Network!S!EndWait => wait_pc' # "done"
  BY DEF Network!S!BeginWait, Network!S!EndWait
<1>6. Network!S!Signal \/ Network!S!AddHandler \/ Network!S!Arrive
        => UNCHANGED <<wait_pc, wait_break>>
  BY DEF Network!S!Signal, Network!S!AddHandler, Network!S!Arrive
<1> QED
  BY <1>1, <1>2, <1>3, <1>4, <1>5, <1>6
     DEF Network!Next, Network!Push, Network!DropTask, Network!ThreadStep,
         Network!Loop, Network!BeginWait, Network!Wait, Network!EndWait,
         Network!Start, Network!Stop,
         Network!OwnerProceeds, Network!OpenSocket, Network!Arrive

\* The variables of the thread's model, as NetworkThread sees them.
LEMMA StutterOf ==
  UNCHANGED Network!threadVars /\ Network!S!Signaled' = Network!S!Signaled
    => UNCHANGED Network!T!vars
BY DEF Network!T!vars, Network!T!context, Network!T!queueVars, Network!T!loopVars,
    Network!T!ownerVars

\* The scheduler's own steps, and what comes from outside, make or take no signal.
LEMMA SignalStays ==
  \/ UNCHANGED Network!schedulerVars \/ Network!S!WaitStep
  \/ Network!S!BeginWait \/ Network!S!AddHandler \/ Network!S!Arrive
  => Network!S!Signaled' = Network!S!Signaled
<1>1. UNCHANGED Network!schedulerVars \/ Network!S!AddHandler \/ Network!S!Arrive
        => UNCHANGED <<wait_pc, wait_break, wakeup_event>>
  BY DEF Network!S!AddHandler, Network!S!Arrive
<1>2. UNCHANGED <<wait_pc, wait_break, wakeup_event>> => Network!S!Signaled' = Network!S!Signaled
  BY DEF Network!S!Signaled
<1>3. Network!S!BeginWait => Network!S!Signaled' = Network!S!Signaled
  BY DEF Network!S!BeginWait, Network!S!Signaled
<1>4. Network!S!WakeBySignal => Network!S!Signaled' = Network!S!Signaled
  BY DEF Network!S!WakeBySignal, Network!S!Signaled
<1>5. (\/ Network!S!Select \/ Network!S!WakeBySocket \/ Network!S!Read
       \/ Network!S!ReadNothing \/ Network!S!ResetSocketEvent)
        => Network!S!Signaled' = Network!S!Signaled
  BY DEF Network!S!Select, Network!S!WakeBySocket, Network!S!Read,
      Network!S!ReadNothing, Network!S!ResetSocketEvent, Network!S!Signaled
<1>6. UNCHANGED Network!schedulerVars \/ Network!S!AddHandler \/ Network!S!Arrive
        => Network!S!Signaled' = Network!S!Signaled
  BY <1>1, <1>2
<1>7. Network!S!WaitStep => Network!S!Signaled' = Network!S!Signaled
  BY <1>4, <1>5 DEF Network!S!WaitStep
<1> QED BY <1>3, <1>6, <1>7

\* WaitUp is the signal of the thread's model.
LEMMA SignalIsSignal == Network!S!Signal => Network!T!Signal
BY DEF Network!S!Signal, Network!S!Signaled, Network!T!Signal

\* A Wait returns only when it was signaled.
LEMMA WaitEndsSignaled ==
  DoneBySignal /\ Network!S!EndWait => Network!S!Signaled /\ Network!S!Signaled' \in BOOLEAN
BY DEF DoneBySignal, Network!S!EndWait, Network!S!Signaled

\* Every step of the network thread is a step of the thread's model or leaves its
\* variables alone.
LEMMA StepMaps ==
  DoneBySignal /\ [Network!Next]_(Network!vars) => [Network!T!Next]_(Network!T!vars)
<1> SUFFICES ASSUME DoneBySignal, [Network!Next]_(Network!vars)
             PROVE  [Network!T!Next]_(Network!T!vars)
  OBVIOUS
<1>1. ASSUME NEW t \in Tasks, Network!Push(t) PROVE Network!T!Next
  BY <1>1, SignalIsSignal DEF Network!Push, Network!T!Next
<1>2. CASE Network!DropTask
  BY <1>2 DEF Network!DropTask, Network!T!Next
<1>3. CASE Network!Loop
  BY <1>3, SignalStays DEF Network!Loop, Network!T!Next, Network!T!ThreadStep
<1>4. CASE Network!BeginWait
  BY <1>4, SignalStays DEF Network!BeginWait, Network!T!Next, Network!T!ThreadStep
<1>5. CASE Network!Wait
  BY <1>5, SignalStays, StutterOf DEF Network!Wait
<1>6. CASE Network!EndWait
  BY <1>6, WaitEndsSignaled DEF Network!EndWait, Network!T!Next, Network!T!ThreadStep
<1>7. CASE Network!Start \/ Network!Stop
  BY <1>7, SignalStays DEF Network!Start, Network!Stop, Network!T!Next
<1>8. CASE Network!OwnerProceeds
  <2>1. CASE /\ \/ Network!T!AssignThread \/ Network!T!FinishStart
                \/ Network!T!Join \/ Network!T!FinishStop
             /\ UNCHANGED Network!schedulerVars
    BY <2>1, SignalStays DEF Network!T!Next, Network!T!OwnerProceeds
  <2>2. CASE Network!T!WakeForStop /\ Network!S!Signal
    BY <2>2, SignalIsSignal DEF Network!T!Next, Network!T!OwnerProceeds
  <2> QED BY <1>8, <2>1, <2>2 DEF Network!OwnerProceeds
<1>9. CASE Network!OpenSocket \/ Network!Arrive \/ UNCHANGED Network!vars
  BY <1>9, SignalStays, StutterOf DEF Network!OpenSocket, Network!Arrive
<1> QED
  BY <1>1, <1>2, <1>3, <1>4, <1>5, <1>6, <1>7, <1>8, <1>9 DEF Network!Next,
      Network!ThreadStep

\* The network thread keeps the promise of WaitUp and Wait on which TaskThread is
\* built: a wait ends only by a signal, and no signal is lost.
THEOREM NetworkThreadIsThread == Network!Spec => Network!ImplementsTaskThread
<1>1. Network!Init => Network!T!Init
  BY DEF Network!Init, Network!S!Init, Network!S!Signaled, Network!T!Init,
      Network!T!kForever
<1>2. Network!Spec => []DoneBySignal
  BY SchedulerInit, SchedulerKeeps, PTL DEF Network!Spec
<1> QED
  BY <1>1, <1>2, StepMaps, PTL DEF Network!Spec, Network!ImplementsTaskThread,
      Network!T!Spec
===============================================================================
