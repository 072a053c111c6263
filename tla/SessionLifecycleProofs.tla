------------------------- MODULE SessionLifecycleProofs -------------------------
(* Proofs about SessionLifecycle, for every set of configurations and datagrams *)
(* and any number of them. SeqNumProofs is here for what it says of Picked.     *)
EXTENDS SessionLifecycle, SeqNumProofs, SequenceTheorems, TLAPS

IsSequence(s) == \E S : s \in Seq(S)

\* Everything a session's tasks may use, but for its receiver, is there.
Ready(i) ==
  /\ i # 0 /\ <<"session", i>> \in live
  /\ <<"rtcp_sender", i>> \in live /\ <<"rtcp_receiver", i>> \in live
  /\ Sends(config[i]) => <<"rtp_sender", i>> \in live

CanReceive(i) == i \in Sessions /\ Ready(i) /\ <<"rtp_receiver", i>> \in live

\* Somebody calls the session.
Routed(i) == i \in initialized \cup ToSet(rtp_destinations) \cup ToSet(rtcp_destinations)

\* Its receiver was refused and its RtcpSender is freed: nobody but the task of
\* that sender still refers to it.
Orphaned(i) ==
  /\ owner \in {"stop", "join"} /\ ReceiverRefused(config[i])
  /\ Shared("tranceiver") \in live /\ Shared("router") \in live

MayReport(i) == Ready(i) \/ Orphaned(i)

\* What a call may be on each thread, and what it needs.
CallOK(th, c) ==
  /\ c = [op |-> c.op, session |-> c.session, packets |-> c.packets, batch |-> c.batch]
  /\ c.op = "OnRtp" => c.packets \in Seq(Datagrams) /\ c.packets # <<>>
  /\ \/ /\ th = "network" /\ c.op \in {"Send", "OnRtp", "OnRtcp"}
        /\ Shared("tranceiver") \in live /\ Shared("router") \in live
     \/ /\ th = "worker" /\ c.op \in {"OnRtp", "OnRtcp"}
        /\ Shared("router") \in live
     \/ /\ th \in {"worker", "signaling"} /\ c.op = "OnRtpPacket"
        /\ CanReceive(c.session) /\ Routed(c.session)
     \/ /\ th = "worker" /\ c.op \in {"NotifyLoss", "GetPackets"}
        /\ CanReceive(c.session) /\ Routed(c.session)
     \/ /\ th = "worker" /\ c.op = "NotifyNackReceived"
        /\ Ready(c.session) /\ Routed(c.session)
     \/ th = "worker" /\ c.op = "ScheduleSendRtcp" /\ MayReport(c.session)
     \/ /\ th = "signaling" /\ c.op = "SendRtpPacket"
        /\ Ready(c.session) /\ Sends(config[c.session]) /\ Routed(c.session)

ThreadsTypeOK ==
  /\ run = [th \in Threads |-> run[th]]
  /\ queue = [th \in Threads |-> queue[th]] /\ todo = [th \in Threads |-> todo[th]]
  /\ \A th \in Threads : IsSequence(queue[th]) /\ IsSequence(todo[th])
  /\ IsSequence(rtp_destinations) /\ IsSequence(rtcp_destinations)
  /\ at \in Nat \ {0}

CallsOK == \A th \in Threads : \A c \in ToSet(queue[th]) \cup ToSet(todo[th]) : CallOK(th, c)

\* Who is called later is there.
ReferencesOK ==
  /\ \A i \in delayed : MayReport(i)
  /\ \A i \in initialized \cup ToSet(rtcp_destinations) : Ready(i)
  /\ \A i \in ToSet(rtp_destinations) : CanReceive(i)

SharedOK ==
  /\ \A th \in Threads : run[th] # "stopped" =>
       Shared("scheduler") \in live /\ Shared("router") \in live
  /\ Shared("handler") \in live => Shared("tranceiver") \in live
  /\ \A x \in live : x[2] \in Nat /\ (x[2] # 0 => Shared("tranceiver") \in live)

\* A thread that does not run has nothing to do.
StoppedIsEmpty ==
  \A th \in Threads : run[th] = "stopped" =>
    /\ queue[th] = <<>> /\ todo[th] = <<>>
    /\ th = "worker" => delayed = {}

AfterSession == {"rtcp_sender", "rtp_receiver", "add_rtp_dst", "add_rtcp_dst", "initialized"}
AfterRtcp == {"rtp_receiver", "add_rtp_dst", "add_rtcp_dst", "initialized"}
AfterReceiver == {"add_rtp_dst", "add_rtcp_dst", "initialized"}
Initializing == AfterSession \cup {"session", "failed"}

\* What is there at each place of the caller.
OwnerInStep ==
  /\ owner \in Initializing \cup {"tranceiver", "started", "stop", "join", "idle", "destroyed", "crashed"}
  /\ owner \in Initializing \cup {"tranceiver", "started"} =>
       \A th \in Threads : run[th] = "running"
  /\ owner = "tranceiver" =>
       /\ \A x \in live : x[2] = 0
       /\ Shared("handler") \notin live /\ delayed = {}
       /\ \A th \in Threads : queue[th] = <<>> /\ todo[th] = <<>>
  /\ owner \in Initializing =>
       Shared("tranceiver") \in live /\ \A x \in live : x[2] <= at
  /\ owner = "session" => \A x \in live : x[2] < at
  /\ owner = "rtcp_sender" => <<"rtcp_sender", at>> \notin live
  /\ owner = "failed" /\ <<"rtcp_sender", at>> \in live => ReceiverRefused(config[at])
  /\ owner \in AfterSession =>
       <<"session", at>> \in live /\ (Sends(config[at]) => <<"rtp_sender", at>> \in live)
  /\ owner \in AfterRtcp => Ready(at)
  /\ owner \in AfterReceiver /\ Receives(config[at]) => CanReceive(at)
  /\ owner \in {"stop", "join"} =>
       /\ Shared("scheduler") \in live /\ Shared("router") \in live
       /\ \A j \in 1..3 : j < at => run[StopOrder[j]] = "stopped"
  /\ owner = "join" => at <= 3
  /\ owner \in {"idle", "destroyed"} =>
       /\ \A th \in Threads : run[th] = "stopped"
       /\ live \subseteq {Shared("tranceiver")}
  /\ (owner = "started" => has_started) /\ (owner = "idle" => ~has_started)

\* How far the sessions are: those before "at" are done, "at" is under way.
Progress ==
  /\ owner \in Initializing \cup {"started"} =>
       /\ initialized = 1..(at - 1)
       /\ ToSet(rtcp_destinations) =
            1..(at - 1) \cup (IF owner = "initialized" THEN {at} ELSE {})
       /\ ToSet(rtp_destinations) =
            {i \in 1..(at - 1) \cup (IF owner \in {"add_rtcp_dst", "initialized"} THEN {at} ELSE {}) :
               Receives(config[i])}
       /\ at <= Len(config) + 1
  /\ owner \in AfterSession \cup {"failed"} => at <= Len(config)
  /\ owner = "started" => at > Len(config)
  /\ owner \in {"idle", "tranceiver", "destroyed"} =>
       initialized = {} /\ rtp_destinations = <<>> /\ rtcp_destinations = <<>>

\* The configuration is one of the user's, or none as yet.
ConfigOK ==
  /\ config \in Configs \/ config = <<>>
  /\ Len(config) \in Nat /\ DOMAIN config = 1..Len(config)

\* What the socket holds.
UnreadOK == unread \in Seq(Datagrams)

\* The inductive invariant.
LifeInv ==
  /\ ThreadsTypeOK /\ CallsOK /\ ReferencesOK /\ SharedOK /\ StoppedIsEmpty
  /\ OwnerInStep /\ Progress /\ ConfigOK

-----------------------------------------------------------------------------
(* Sequences of calls *)

\* The empty sequence.
LEMMA EmptyCalls == IsSequence(<<>>) /\ ToSet(<<>>) = {}
BY DEF IsSequence, ToSet

\* One call.
LEMMA OneCall ==
  ASSUME NEW c
  PROVE  IsSequence(<<c>>) /\ ToSet(<<c>>) = {c}
<1>1. <<c>> \in Seq({c}) /\ Len(<<c>>) = 1 /\ <<c>>[1] = c
  OBVIOUS
<1>2. DOMAIN <<c>> = {1}
  BY <1>1
<1>3. ToSet(<<c>>) = {c}
  BY <1>1, <1>2 DEF ToSet
<1> QED BY <1>1, <1>3 DEF IsSequence

\* A call pushed at the back of a queue.
LEMMA PushedCall ==
  ASSUME NEW s, IsSequence(s), NEW c
  PROVE  IsSequence(Append(s, c)) /\ ToSet(Append(s, c)) = ToSet(s) \cup {c}
<1>1. PICK S : s \in Seq(S)
  BY DEF IsSequence
<1>2. s \in Seq(S \cup {c})
  BY <1>1, SeqMonotonic
<1>3. Append(s, c) \in Seq(S \cup {c}) /\ Len(Append(s, c)) = Len(s) + 1
      /\ \A i \in 1..(Len(s) + 1) : Append(s, c)[i] = IF i <= Len(s) THEN s[i] ELSE c
  BY <1>2, AppendProperties
<1>4. /\ Len(s) \in Nat /\ DOMAIN s = 1..Len(s)
      /\ DOMAIN Append(s, c) = 1..(Len(s) + 1)
  BY <1>1, <1>3
<1>5. ToSet(Append(s, c)) \subseteq ToSet(s) \cup {c}
  BY <1>3, <1>4 DEF ToSet
<1>6. ToSet(s) \subseteq ToSet(Append(s, c))
  BY <1>3, <1>4 DEF ToSet
<1>7. c \in ToSet(Append(s, c))
  <2>1. Len(s) + 1 \in DOMAIN Append(s, c) /\ Append(s, c)[Len(s) + 1] = c
    BY <1>3, <1>4
  <2> QED BY <2>1 DEF ToSet
<1> QED BY <1>3, <1>5, <1>6, <1>7 DEF IsSequence

\* The first call of a task and the others.
LEMMA FirstCall ==
  ASSUME NEW s, IsSequence(s), s # <<>>
  PROVE  /\ Head(s) \in ToSet(s)
         /\ IsSequence(Tail(s)) /\ ToSet(Tail(s)) \subseteq ToSet(s)
<1>1. PICK S : s \in Seq(S)
  BY DEF IsSequence
<1>2. Len(s) \in Nat \ {0} /\ Head(s) = s[1]
  BY <1>1, EmptySeq
<1>3. Tail(s) \in Seq(S) /\ Len(Tail(s)) = Len(s) - 1
      /\ \A i \in 1..Len(Tail(s)) : Tail(s)[i] = s[i + 1]
  BY <1>1, HeadTailProperties
<1> QED BY <1>1, <1>2, <1>3 DEF IsSequence, ToSet

\* Calls put before others.
LEMMA CallsBefore ==
  ASSUME NEW s, NEW t, IsSequence(s), IsSequence(t)
  PROVE  IsSequence(s \o t) /\ ToSet(s \o t) = ToSet(s) \cup ToSet(t)
<1>1. PICK S : s \in Seq(S)
  BY DEF IsSequence
<1>2. PICK T : t \in Seq(T)
  BY DEF IsSequence
<1>3. s \in Seq(S \cup T) /\ t \in Seq(S \cup T)
  BY <1>1, <1>2, SeqMonotonic
<1>4. s \o t \in Seq(S \cup T) /\ Len(s \o t) = Len(s) + Len(t)
      /\ \A i \in 1..Len(s) + Len(t) : (s \o t)[i] = IF i <= Len(s) THEN s[i] ELSE t[i - Len(s)]
  BY <1>3, ConcatProperties
<1>5. Len(s) \in Nat /\ Len(t) \in Nat /\ DOMAIN s = 1..Len(s) /\ DOMAIN t = 1..Len(t)
  BY <1>3
<1>6. DOMAIN (s \o t) = 1..(Len(s) + Len(t))
  BY <1>4
<1>7. ToSet(s \o t) \subseteq ToSet(s) \cup ToSet(t)
  BY <1>4, <1>5, <1>6 DEF ToSet
<1>8. ToSet(s) \subseteq ToSet(s \o t)
  BY <1>4, <1>5, <1>6 DEF ToSet
<1>9. ToSet(t) \subseteq ToSet(s \o t)
  <2> SUFFICES ASSUME NEW i \in 1..Len(t)
               PROVE  t[i] \in ToSet(s \o t)
    BY <1>5 DEF ToSet
  <2>1. Len(s) + i \in 1..(Len(s) + Len(t)) /\ (s \o t)[Len(s) + i] = t[i]
    BY <1>4, <1>5
  <2> QED BY <1>6, <2>1 DEF ToSet
<1> QED BY <1>4, <1>7, <1>8, <1>9 DEF IsSequence

\* A call for each element of a sequence.
LEMMA CallForEach ==
  ASSUME NEW s, IsSequence(s), NEW f, f = [k \in DOMAIN s |-> f[k]]
  PROVE  IsSequence(f) /\ ToSet(f) = {f[k] : k \in DOMAIN s}
<1>1. PICK S : s \in Seq(S)
  BY DEF IsSequence
<1>2. Len(s) \in Nat /\ DOMAIN s = 1..Len(s)
  BY <1>1
<1>3. f \in [1..Len(s) -> {f[k] : k \in DOMAIN s}]
  BY <1>2
<1>4. f \in Seq({f[k] : k \in DOMAIN s})
  BY <1>2, <1>3
<1> QED BY <1>3, <1>4 DEF IsSequence, ToSet

-----------------------------------------------------------------------------
(* Steps of the threads and of the user *)

\* What the threads and the user leave alone.
Settled == UNCHANGED <<config, owner, at, has_started, initialized, routerVars, live, run>>

\* A step that only moves calls and reports keeps the invariant.
LEMMA CallsMove ==
  ASSUME LifeInv, Settled,
         queue' = [th \in Threads |-> queue'[th]], todo' = [th \in Threads |-> todo'[th]],
         \A th \in Threads : IsSequence(queue'[th]) /\ IsSequence(todo'[th]),
         \A th \in Threads : \A c \in ToSet(queue'[th]) \cup ToSet(todo'[th]) : CallOK(th, c),
         \A i \in delayed' : MayReport(i),
         \A th \in Threads : run[th] = "stopped" =>
           queue'[th] = <<>> /\ todo'[th] = <<>> /\ (th = "worker" => delayed' = {}),
         owner = "tranceiver" => UNCHANGED <<queue, todo, delayed>>
  PROVE  LifeInv'
<1>1. /\ config' = config /\ owner' = owner /\ at' = at /\ has_started' = has_started
      /\ initialized' = initialized /\ rtp_destinations' = rtp_destinations
      /\ rtcp_destinations' = rtcp_destinations /\ live' = live /\ run' = run
  BY DEF Settled, routerVars
<1>2. ThreadsTypeOK'
  BY <1>1 DEF LifeInv, ThreadsTypeOK
<1>3. \A i : /\ Ready(i)' = Ready(i) /\ CanReceive(i)' = CanReceive(i)
           /\ Routed(i)' = Routed(i) /\ MayReport(i)' = MayReport(i)
  BY <1>1 DEF Ready, CanReceive, Routed, MayReport, Orphaned
<1>4. \A th, c : CallOK(th, c)' = CallOK(th, c)
  BY <1>1, <1>3 DEF CallOK
<1>5. CallsOK'
  BY <1>4 DEF CallsOK
<1>6. ReferencesOK'
  BY <1>1, <1>3 DEF LifeInv, ReferencesOK
<1>7. SharedOK'
  BY <1>1 DEF LifeInv, SharedOK
<1>8. StoppedIsEmpty'
  BY <1>1 DEF StoppedIsEmpty
<1>9. OwnerInStep'
  BY <1>1, <1>3 DEF LifeInv, OwnerInStep
<1>10. Progress' /\ ConfigOK'
  BY <1>1 DEF LifeInv, Progress, ConfigOK
<1> QED BY <1>2, <1>5, <1>6, <1>7, <1>8, <1>9, <1>10 DEF LifeInv

\* The queues after a push.
LEMMA PushKeepsQueues ==
  ASSUME LifeInv, NEW th \in Threads, NEW c, CallOK(th, c)
  PROVE  /\ Pushed(th, c) = [t \in Threads |-> Pushed(th, c)[t]]
         /\ \A t \in Threads : /\ IsSequence(Pushed(th, c)[t])
                               /\ \A d \in ToSet(Pushed(th, c)[t]) : CallOK(t, d)
                               /\ run[t] = "stopped" => Pushed(th, c)[t] = <<>>
<1>1. CASE run[th] = "stopped"
  BY <1>1 DEF Pushed, LifeInv, ThreadsTypeOK, CallsOK, StoppedIsEmpty
<1>2. CASE run[th] # "stopped"
  <2>1. Pushed(th, c) = [queue EXCEPT ![th] = Append(queue[th], c)]
    BY <1>2 DEF Pushed
  <2>2. queue = [t \in Threads |-> queue[t]]
    BY DEF LifeInv, ThreadsTypeOK
  <2>3. /\ Pushed(th, c) = [t \in Threads |-> Pushed(th, c)[t]]
        /\ \A t \in Threads : Pushed(th, c)[t] = IF t = th THEN Append(queue[th], c) ELSE queue[t]
    BY <2>1, <2>2
  <2>4. IsSequence(queue[th])
    BY DEF LifeInv, ThreadsTypeOK
  <2>5. IsSequence(Append(queue[th], c)) /\ ToSet(Append(queue[th], c)) \subseteq ToSet(queue[th]) \cup {c}
    BY <2>4, PushedCall
  <2>6. \A t \in Threads : \A d \in ToSet(queue[t]) : CallOK(t, d)
    BY DEF LifeInv, CallsOK
  <2>7. \A t \in Threads : run[t] = "stopped" => queue[t] = <<>> /\ t # th
    BY <1>2 DEF LifeInv, StoppedIsEmpty
  <2>8. \A t \in Threads : IsSequence(queue[t])
    BY DEF LifeInv, ThreadsTypeOK
  <2> QED BY <2>3, <2>5, <2>6, <2>7, <2>8
<1> QED BY <1>1, <1>2

\* A queue is as it was or has one more call.
Pushes == queue' = queue \/ \E t \in Threads : \E c : CallOK(t, c) /\ queue' = Pushed(t, c)

\* The queues after a step that pushes one call or none.
LEMMA PushesKeepQueues ==
  ASSUME LifeInv, Pushes
  PROVE  /\ queue' = [t \in Threads |-> queue'[t]]
         /\ \A t \in Threads : /\ IsSequence(queue'[t])
                               /\ \A d \in ToSet(queue'[t]) : CallOK(t, d)
                               /\ run[t] = "stopped" => queue'[t] = <<>>
<1>1. CASE queue' = queue
  BY <1>1 DEF LifeInv, ThreadsTypeOK, CallsOK, StoppedIsEmpty
<1>2. CASE queue' # queue
  <2>1. PICK t \in Threads : \E c : CallOK(t, c) /\ queue' = Pushed(t, c)
    BY <1>2 DEF Pushes
  <2> QED BY <2>1, PushKeepsQueues
<1> QED BY <1>1, <1>2

\* A thread makes the first call of its task, which makes the calls "cs" next.
LEMMA TaskGoesOn ==
  ASSUME LifeInv, Settled, NEW th \in Threads, todo[th] # <<>>,
         NEW cs, IsSequence(cs), \A c \in ToSet(cs) : CallOK(th, c), Continue(th, cs),
         Pushes, \A i \in delayed' : MayReport(i), th = "worker" \/ delayed' = delayed
  PROVE  LifeInv'
<1>1. IsSequence(todo[th]) /\ \A c \in ToSet(todo[th]) : CallOK(th, c)
  BY DEF LifeInv, ThreadsTypeOK, CallsOK
<1>2. IsSequence(Tail(todo[th])) /\ ToSet(Tail(todo[th])) \subseteq ToSet(todo[th])
  BY <1>1, FirstCall
<1>3. IsSequence(cs \o Tail(todo[th])) /\ ToSet(cs \o Tail(todo[th])) = ToSet(cs) \cup ToSet(Tail(todo[th]))
  BY <1>2, CallsBefore
<1>4. todo' = [todo EXCEPT ![th] = cs \o Tail(todo[th])] /\ todo = [t \in Threads |-> todo[t]]
  BY DEF Continue, LifeInv, ThreadsTypeOK
<1>5. /\ todo' = [t \in Threads |-> todo'[t]]
      /\ \A t \in Threads : todo'[t] = IF t = th THEN cs \o Tail(todo[th]) ELSE todo[t]
  BY <1>4
<1>6. \A t \in Threads : /\ IsSequence(todo'[t])
                         /\ \A c \in ToSet(todo'[t]) : CallOK(t, c)
  BY <1>1, <1>2, <1>3, <1>5 DEF LifeInv, ThreadsTypeOK, CallsOK
<1>7. run[th] # "stopped" /\ owner # "tranceiver"
  BY DEF LifeInv, StoppedIsEmpty, OwnerInStep
<1>8. \A t \in Threads : run[t] = "stopped" =>
        queue'[t] = <<>> /\ todo'[t] = <<>> /\ (t = "worker" => delayed' = {})
  BY <1>5, <1>7, PushesKeepQueues DEF LifeInv, StoppedIsEmpty
<1> QED BY <1>5, <1>6, <1>7, <1>8, PushesKeepQueues, CallsMove

\* An idle thread begins a task that is all there in "cs".
LEMMA TaskBegins ==
  ASSUME LifeInv, Settled, NEW th \in Threads, Idle(th),
         NEW cs, IsSequence(cs), \A c \in ToSet(cs) : CallOK(th, c),
         todo' = [todo EXCEPT ![th] = cs],
         queue' = [t \in Threads |-> queue'[t]],
         \A t \in Threads : /\ IsSequence(queue'[t]) /\ ToSet(queue'[t]) \subseteq ToSet(queue[t])
                            /\ run[t] = "stopped" => queue'[t] = <<>>,
         delayed' \subseteq delayed, owner # "tranceiver"
  PROVE  LifeInv'
<1>1. todo = [t \in Threads |-> todo[t]] /\ run[th] # "stopped"
  BY DEF LifeInv, ThreadsTypeOK, Idle
<1>2. /\ todo' = [t \in Threads |-> todo'[t]]
      /\ \A t \in Threads : todo'[t] = IF t = th THEN cs ELSE todo[t]
  BY <1>1
<1>3. \A t \in Threads : /\ IsSequence(todo'[t])
                         /\ \A c \in ToSet(todo'[t]) \cup ToSet(queue'[t]) : CallOK(t, c)
  BY <1>2 DEF LifeInv, ThreadsTypeOK, CallsOK
<1>4. \A i \in delayed' : MayReport(i)
  BY DEF LifeInv, ReferencesOK
<1>5. \A t \in Threads : run[t] = "stopped" =>
        queue'[t] = <<>> /\ todo'[t] = <<>> /\ (t = "worker" => delayed' = {})
  BY <1>1, <1>2 DEF LifeInv, StoppedIsEmpty
<1> QED BY <1>2, <1>3, <1>4, <1>5, CallsMove

\* A thread takes the task at the front of its queue.
LEMMA TakeTaskKeeps ==
  ASSUME LifeInv, NEW th \in Threads, TakeTask(th)
  PROVE  LifeInv'
<1>1. /\ Settled /\ Idle(th) /\ queue[th] # <<>> /\ delayed' = delayed
      /\ todo' = [todo EXCEPT ![th] = <<Head(queue[th])>>]
      /\ queue' = [queue EXCEPT ![th] = Tail(queue[th])]
  BY DEF TakeTask, Settled, userVars, sessionVars, routerVars
<1>2. queue = [t \in Threads |-> queue[t]] /\ IsSequence(queue[th])
      /\ \A t \in Threads : IsSequence(queue[t])
  BY DEF LifeInv, ThreadsTypeOK
<1>3. /\ Head(queue[th]) \in ToSet(queue[th])
      /\ IsSequence(Tail(queue[th])) /\ ToSet(Tail(queue[th])) \subseteq ToSet(queue[th])
  BY <1>1, <1>2, FirstCall
<1>4. /\ queue' = [t \in Threads |-> queue'[t]]
      /\ \A t \in Threads : queue'[t] = IF t = th THEN Tail(queue[th]) ELSE queue[t]
  BY <1>1, <1>2
<1>5. \A t \in Threads : run[t] = "stopped" => queue[t] = <<>> /\ t # th
  BY <1>1 DEF LifeInv, StoppedIsEmpty, Idle
<1>6. owner # "tranceiver"
  BY <1>1 DEF LifeInv, OwnerInStep
<1>7. /\ IsSequence(<<Head(queue[th])>>)
      /\ \A c \in ToSet(<<Head(queue[th])>>) : CallOK(th, c)
  BY <1>3, OneCall DEF LifeInv, CallsOK
<1>8. \A t \in Threads : /\ IsSequence(queue'[t]) /\ ToSet(queue'[t]) \subseteq ToSet(queue[t])
                         /\ run[t] = "stopped" => queue'[t] = <<>>
  BY <1>2, <1>3, <1>4, <1>5
<1> QED BY <1>1, <1>4, <1>6, <1>7, <1>8, TaskBegins

\* A batch of packets becomes one call of the network thread, or none.
LEMMA BatchCall ==
  ASSUME NEW op \in {"OnRtp", "OnRtcp"}, NEW packets, packets \in Seq(Datagrams),
         Shared("tranceiver") \in live, Shared("router") \in live
  PROVE  /\ IsSequence(CallWith(op, packets))
         /\ \A c \in ToSet(CallWith(op, packets)) : CallOK("network", c)
<1>1. CASE packets = <<>>
  BY <1>1, EmptyCalls DEF CallWith
<1>2. CASE packets # <<>>
  <2>1. CallOK("network", Call(op, 0, packets))
    BY <1>2 DEF CallOK, Call
  <2> QED BY <1>2, <2>1, OneCall DEF CallWith
<1> QED BY <1>1, <1>2

\* The network thread reads the socket and has the RTP and RTCP packets to pass on.
LEMMA ReadSocketKeeps ==
  ASSUME LifeInv, UnreadOK, ReadSocket
  PROVE  LifeInv'
<1> DEFINE rtp == CallWith("OnRtp", RtpOf(unread))
           rtcp == CallWith("OnRtcp", RtcpOf(unread))
<1>1. /\ Settled /\ Idle("network") /\ delayed' = delayed /\ queue' = queue
      /\ Shared("handler") \in live
      /\ todo' = [todo EXCEPT !["network"] = rtp \o rtcp]
  BY DEF ReadSocket, Settled, userVars, sessionVars, routerVars
<1>2. "network" \in Threads /\ run["network"] # "stopped"
  BY <1>1 DEF Threads, Idle
<1>3. Shared("tranceiver") \in live /\ Shared("router") \in live
  BY <1>1, <1>2 DEF LifeInv, SharedOK
<1>4. /\ IsSequence(rtp) /\ \A c \in ToSet(rtp) : CallOK("network", c)
      /\ IsSequence(rtcp) /\ \A c \in ToSet(rtcp) : CallOK("network", c)
  <2>1. RtpOf(unread) \in Seq(Datagrams) /\ RtcpOf(unread) \in Seq(Datagrams)
    BY PickedFacts DEF RtpOf, RtcpOf, UnreadOK
  <2> QED BY <1>3, <2>1, BatchCall
<1> HIDE DEF rtp, rtcp
<1>5. IsSequence(rtp \o rtcp) /\ ToSet(rtp \o rtcp) = ToSet(rtp) \cup ToSet(rtcp)
  BY <1>4, CallsBefore
<1>6. \A c \in ToSet(rtp \o rtcp) : CallOK("network", c)
  BY <1>4, <1>5
<1>7. owner # "tranceiver"
  BY <1>1 DEF LifeInv, OwnerInStep
<1>8. \A t \in Threads : IsSequence(queue[t]) /\ (run[t] = "stopped" => queue[t] = <<>>)
  BY DEF LifeInv, ThreadsTypeOK, StoppedIsEmpty
<1>9. queue = [t \in Threads |-> queue[t]]
  BY DEF LifeInv, ThreadsTypeOK
<1> QED BY <1>1, <1>2, <1>5, <1>6, <1>7, <1>8, <1>9, TaskBegins

\* What the call that a thread makes next needs is there.
LEMMA NextCallOK ==
  ASSUME LifeInv, NEW th \in Threads, todo[th] # <<>>
  PROVE  CallOK(th, Head(todo[th]))
<1>1. IsSequence(todo[th])
  BY DEF LifeInv, ThreadsTypeOK
<1> QED BY <1>1, FirstCall DEF LifeInv, CallsOK

\* A reference to a session that is set up stays good while sessions report.
LEMMA ReportersReady ==
  ASSUME LifeInv
  PROVE  \A i \in delayed : MayReport(i)
BY DEF LifeInv, ReferencesOK

\* A thread makes a call that leads to no other one on this thread.
LEMMA TaskEnds ==
  ASSUME LifeInv, Settled, NEW th \in Threads, todo[th] # <<>>, Continue(th, <<>>),
         Pushes, delayed' = delayed
  PROVE  LifeInv'
<1>1. IsSequence(<<>>) /\ \A c \in ToSet(<<>>) : CallOK(th, c)
  BY EmptyCalls
<1>2. \A i \in delayed' : MayReport(i)
  BY ReportersReady
<1> QED BY <1>1, <1>2, TaskGoesOn

\* The router has the packets of the network thread routed on the worker thread.
LEMMA PassToWorkerKeeps ==
  ASSUME LifeInv, PassToWorker
  PROVE  LifeInv'
<1> DEFINE call == Head(todo["network"])
<1>1. /\ Settled /\ delayed' = delayed /\ todo["network"] # <<>>
      /\ call.op \in {"OnRtp", "OnRtcp"}
      /\ queue' = Pushed("worker", call) /\ Continue("network", <<>>)
  BY DEF PassToWorker, Running, Settled, userVars, sessionVars, routerVars
<1>2. "network" \in Threads /\ "worker" \in Threads
  BY DEF Threads
<1>3. CallOK("network", call)
  BY <1>1, <1>2, NextCallOK
<1>4. CallOK("worker", call)
  BY <1>1, <1>3 DEF CallOK
<1>5. Pushes
  BY <1>1, <1>2, <1>4 DEF Pushes
<1> QED BY <1>1, <1>2, <1>5, TaskEnds

\* The network thread sends.
LEMMA SendToKeeps ==
  ASSUME LifeInv, SendTo
  PROVE  LifeInv'
<1>1. /\ Settled /\ delayed' = delayed /\ todo["network"] # <<>> /\ Pushes
      /\ Continue("network", <<>>) /\ "network" \in Threads
  BY DEF SendTo, Running, Settled, userVars, sessionVars, routerVars, Pushes, Threads
<1> QED BY <1>1, TaskEnds

\* The packets of a batch after the first.
LEMMA RestOK ==
  ASSUME NEW call, CallOK("worker", call), call.op \in {"OnRtp", "OnRtcp"}
  PROVE  IsSequence(Rest(call)) /\ \A c \in ToSet(Rest(call)) : CallOK("worker", c)
<1> DEFINE rest == Call(call.op, call.session, Tail(call.packets))
<1>1. CASE Len(call.packets) = 1
  BY <1>1, EmptyCalls DEF Rest
<1>2. CASE Len(call.packets) # 1
  <2>1. call.op = "OnRtp" => Tail(call.packets) \in Seq(Datagrams) /\ Tail(call.packets) # <<>>
    <3> DEFINE packets == call.packets
    <3>1. call.op = "OnRtp" => packets \in Seq(Datagrams) /\ packets # <<>>
      BY DEF CallOK
    <3> HIDE DEF packets
    <3>2. ASSUME packets \in Seq(Datagrams), packets # <<>>, Len(packets) # 1
          PROVE  Tail(packets) \in Seq(Datagrams) /\ Tail(packets) # <<>>
      <4>1. Len(packets) \in Nat /\ Len(packets) # 0
        BY <3>2, EmptySeq
      <4>2. Tail(packets) \in Seq(Datagrams) /\ Len(Tail(packets)) = Len(packets) - 1
        BY <3>2, HeadTailProperties
      <4>3. Len(Tail(packets)) # 0
        BY <3>2, <4>1, <4>2
      <4>4. Len(<<>>) = 0
        OBVIOUS
      <4> QED BY <4>2, <4>3, <4>4
    <3>3. Len(packets) # 1
      BY <1>2 DEF packets
    <3>4. call.op = "OnRtp" => Tail(packets) \in Seq(Datagrams) /\ Tail(packets) # <<>>
      BY <3>1, <3>2, <3>3
    <3> QED BY <3>4 DEF packets
  <2>2. Shared("router") \in live
    BY DEF CallOK
  <2>3. CallOK("worker", rest)
    BY <2>1, <2>2 DEF CallOK, Call
  <2>4. Rest(call) = <<rest>>
    BY <1>2 DEF Rest
  <2> HIDE DEF rest
  <2> QED BY <2>3, <2>4, OneCall
<1> QED BY <1>1, <1>2

\* A thread makes a call that leads to the calls "cs" on this thread, and no push.
LEMMA TaskLeadsTo ==
  ASSUME LifeInv, Settled, NEW th \in Threads, todo[th] # <<>>,
         NEW cs, IsSequence(cs), \A c \in ToSet(cs) : CallOK(th, c), Continue(th, cs),
         queue' = queue, delayed' = delayed
  PROVE  LifeInv'
<1>1. Pushes /\ \A i \in delayed' : MayReport(i)
  BY ReportersReady DEF Pushes
<1> QED BY <1>1, TaskGoesOn

\* A packet that no receiver takes is dropped.
LEMMA DropRtpKeeps ==
  ASSUME LifeInv, DropRtp
  PROVE  LifeInv'
<1> DEFINE call == Head(todo["worker"])
<1>1. /\ Settled /\ delayed' = delayed /\ queue' = queue /\ todo["worker"] # <<>>
      /\ call.op = "OnRtp" /\ "worker" \in Threads /\ Continue("worker", Rest(call))
  BY DEF DropRtp, Running, Settled, userVars, sessionVars, routerVars, Threads
<1>2. CallOK("worker", call)
  BY <1>1, NextCallOK
<1> HIDE DEF call
<1>3. IsSequence(Rest(call)) /\ \A c \in ToSet(Rest(call)) : CallOK("worker", c)
  BY <1>1, <1>2, RestOK
<1> QED BY <1>1, <1>3, TaskLeadsTo

\* Calls of a receiver before the rest of the batch.
LEMMA BeforeRest ==
  ASSUME LifeInv, Settled, NEW first, IsSequence(first), \A c \in ToSet(first) : CallOK("worker", c),
         NEW rest, IsSequence(rest), \A c \in ToSet(rest) : CallOK("worker", c),
         todo["worker"] # <<>>, Continue("worker", first \o rest), queue' = queue, delayed' = delayed
  PROVE  LifeInv'
<1>1. IsSequence(first \o rest) /\ ToSet(first \o rest) = ToSet(first) \cup ToSet(rest)
  BY CallsBefore
<1>2. \A c \in ToSet(first \o rest) : CallOK("worker", c)
  BY <1>1
<1>3. "worker" \in Threads
  BY DEF Threads
<1> QED BY <1>1, <1>2, <1>3, TaskLeadsTo

\* The first receiver that expects the packet takes it.
LEMMA RouteRtpKeeps ==
  ASSUME LifeInv, RouteRtp
  PROVE  LifeInv'
<1> DEFINE call == Head(todo["worker"])
           p == Head(call.packets)
           rest == Rest(call)
           get(k) == Call("GetPackets", rtp_destinations[k], <<>>)
           loss(k) == Call("NotifyLoss", rtp_destinations[k], <<>>)
<1>1. /\ Settled /\ delayed' = delayed /\ queue' = queue /\ todo["worker"] # <<>>
      /\ call.op = "OnRtp" /\ "worker" \in Threads
      /\ \E k \in Destination(p) : \/ Continue("worker", <<get(k)>> \o rest)
                                   \/ Continue("worker", <<loss(k)>> \o (<<get(k)>> \o rest))
  BY DEF RouteRtp, Running, Settled, userVars, sessionVars, receiverVars, routerVars, Threads
<1>2. CallOK("worker", call)
  BY <1>1, NextCallOK
<1>3. IsSequence(rest) /\ \A c \in ToSet(rest) : CallOK("worker", c)
  BY <1>1, <1>2, RestOK
<1>4. \A k \in Destination(p) : rtp_destinations[k] \in ToSet(rtp_destinations)
  BY DEF Destination, ToSet
<1>5. \A k \in Destination(p) : CanReceive(rtp_destinations[k]) /\ Routed(rtp_destinations[k])
  BY <1>4 DEF LifeInv, ReferencesOK, Routed
<1>6. \A k \in Destination(p) : CallOK("worker", get(k)) /\ CallOK("worker", loss(k))
  BY <1>5 DEF CallOK, Call
<1> HIDE DEF call, p, rest, get, loss
<1>7. PICK k \in Destination(p) : \/ Continue("worker", <<get(k)>> \o rest)
                                \/ Continue("worker", <<loss(k)>> \o (<<get(k)>> \o rest))
  BY <1>1
<1>8. /\ IsSequence(<<get(k)>>) /\ \A c \in ToSet(<<get(k)>>) : CallOK("worker", c)
      /\ IsSequence(<<loss(k)>>) /\ \A c \in ToSet(<<loss(k)>>) : CallOK("worker", c)
  BY <1>6, OneCall
<1>9. /\ IsSequence(<<get(k)>> \o rest)
      /\ \A c \in ToSet(<<get(k)>> \o rest) : CallOK("worker", c)
  BY <1>3, <1>8, CallsBefore
<1>10. CASE Continue("worker", <<get(k)>> \o rest)
  BY <1>1, <1>3, <1>8, <1>10, BeforeRest
<1>11. CASE Continue("worker", <<loss(k)>> \o (<<get(k)>> \o rest))
  BY <1>1, <1>8, <1>9, <1>11, BeforeRest
<1> QED BY <1>7, <1>10, <1>11

\* The receiver gives out what it may, if anything.
LEMMA GetPacketsKeeps ==
  ASSUME LifeInv, GetPackets
  PROVE  LifeInv'
<1> DEFINE call == Head(todo["worker"])
           give(batch) == Give(call.session, batch)
<1>1. /\ Settled /\ delayed' = delayed /\ queue' = queue /\ todo["worker"] # <<>>
      /\ call.op = "GetPackets" /\ "worker" \in Threads
      /\ \/ Continue("worker", <<>>)
         \/ \E batch : Continue("worker", <<give(batch)>>)
  BY DEF GetPackets, Running, Settled, userVars, sessionVars, receiverVars, routerVars, Threads
<1>2. CallOK("worker", call)
  BY <1>1, NextCallOK
<1>3. CanReceive(call.session) /\ Routed(call.session)
  BY <1>1, <1>2 DEF CallOK
<1>4. \A batch : CallOK("worker", give(batch))
  BY <1>3 DEF CallOK, Give
<1> HIDE DEF call, give
<1>5. \A batch : IsSequence(<<give(batch)>>) /\ \A c \in ToSet(<<give(batch)>>) : CallOK("worker", c)
  BY <1>4, OneCall
<1>6. IsSequence(<<>>) /\ \A c \in ToSet(<<>>) : CallOK("worker", c)
  BY EmptyCalls
<1>7. CASE Continue("worker", <<>>)
  BY <1>1, <1>6, <1>7, TaskLeadsTo
<1>8. CASE \E batch : Continue("worker", <<give(batch)>>)
  BY <1>1, <1>5, <1>8, TaskLeadsTo
<1> QED BY <1>1, <1>7, <1>8

\* Every RtcpReceiver of the router gets the packet.
LEMMA RouteRtcpKeeps ==
  ASSUME LifeInv, RouteRtcp
  PROVE  LifeInv'
<1> DEFINE call == Head(todo["worker"])
           notify(i) == Call("NotifyNackReceived", i, <<Head(call.packets)>>)
           first == [k \in DOMAIN rtcp_destinations |-> notify(rtcp_destinations[k])]
<1>1. /\ Settled /\ delayed' = delayed /\ queue' = queue /\ todo["worker"] # <<>>
      /\ call.op = "OnRtcp" /\ "worker" \in Threads
      /\ Continue("worker", first \o Rest(call))
  BY DEF RouteRtcp, Running, Settled, userVars, sessionVars, routerVars, Threads
<1>2. CallOK("worker", call)
  BY <1>1, NextCallOK
<1>3. IsSequence(Rest(call)) /\ \A c \in ToSet(Rest(call)) : CallOK("worker", c)
  BY <1>1, <1>2, RestOK
<1>4. \A i : Ready(i) /\ Routed(i) => CallOK("worker", notify(i))
  BY DEF CallOK, Call
<1>5. \A i \in ToSet(rtcp_destinations) : CallOK("worker", notify(i))
  BY <1>4 DEF LifeInv, ReferencesOK, Routed
<1> HIDE DEF notify, call
<1>6. first = [k \in DOMAIN rtcp_destinations |-> first[k]] /\ IsSequence(rtcp_destinations)
  BY DEF LifeInv, ThreadsTypeOK
<1>7. \A k \in DOMAIN rtcp_destinations : CallOK("worker", first[k])
  BY <1>5 DEF ToSet
<1> HIDE DEF first
<1>8. IsSequence(first) /\ \A c \in ToSet(first) : CallOK("worker", c)
  BY <1>6, <1>7, CallForEach
<1>9. /\ IsSequence(first \o Rest(call))
      /\ ToSet(first \o Rest(call)) = ToSet(first) \cup ToSet(Rest(call))
  BY <1>3, <1>8, CallsBefore
<1>10. \A c \in ToSet(first \o Rest(call)) : CallOK("worker", c)
  BY <1>3, <1>8, <1>9
<1> QED BY <1>1, <1>9, <1>10, TaskLeadsTo

\* While a thread works for a session, the network thread can send for it.
LEMMA SendOK ==
  ASSUME LifeInv, NEW th \in Threads, todo[th] # <<>>, NEW i, MayReport(i)
  PROVE  CallOK("network", Call("Send", i, <<>>))
<1>1. CASE Ready(i)
  <2>1. <<"session", i>> \in live /\ <<"session", i>>[2] # 0 /\ run[th] # "stopped"
    BY <1>1 DEF LifeInv, StoppedIsEmpty, Ready
  <2>2. Shared("tranceiver") \in live /\ Shared("router") \in live
    BY <2>1 DEF LifeInv, SharedOK
  <2> QED BY <2>2 DEF CallOK, Call
<1>2. CASE Orphaned(i)
  BY <1>2 DEF Orphaned, CallOK, Call
<1> QED BY <1>1, <1>2 DEF MayReport

\* A NACK is sent or answered, by way of the network thread.
LEMMA AnswerNetworkKeeps ==
  ASSUME LifeInv, AnswerNetwork
  PROVE  LifeInv'
<1> DEFINE call == Head(todo["worker"])
<1>1. /\ Settled /\ delayed' = delayed /\ todo["worker"] # <<>>
      /\ call.op \in {"NotifyLoss", "NotifyNackReceived"}
      /\ queue' = queue \/ queue' = Pushed("network", Call("Send", call.session, <<>>))
      /\ Continue("worker", <<>>) /\ "worker" \in Threads /\ "network" \in Threads
  BY DEF AnswerNetwork, Running, Settled, userVars, sessionVars, routerVars, Threads
<1>2. CallOK("worker", call)
  BY <1>1, NextCallOK
<1> HIDE DEF call
<1>3. MayReport(call.session)
  BY <1>1, <1>2 DEF CallOK, CanReceive, MayReport
<1>4. CallOK("network", Call("Send", call.session, <<>>))
  BY <1>1, <1>3, SendOK
<1>5. Pushes
  BY <1>1, <1>4 DEF Pushes
<1> QED BY <1>1, <1>5, TaskEnds

\* A packet for the user goes on to the signaling thread.
LEMMA PassToSignalingKeeps ==
  ASSUME LifeInv, PassToSignaling
  PROVE  LifeInv'
<1> DEFINE call == Head(todo["worker"])
<1>1. /\ Settled /\ delayed' = delayed /\ todo["worker"] # <<>>
      /\ call.op = "OnRtpPacket"
      /\ queue' = queue \/ queue' = Pushed("signaling", call)
      /\ Continue("worker", <<>>) /\ "worker" \in Threads /\ "signaling" \in Threads
  BY DEF PassToSignaling, Running, Settled, userVars, sessionVars, routerVars, Threads
<1>2. CallOK("worker", call)
  BY <1>1, NextCallOK
<1> HIDE DEF call
<1>3. CallOK("signaling", call)
  BY <1>1, <1>2 DEF CallOK
<1>4. Pushes
  BY <1>1, <1>3 DEF Pushes
<1> QED BY <1>1, <1>4, TaskEnds

\* The delayed task of a session begins.
LEMMA BeginReportKeeps ==
  ASSUME LifeInv, NEW i \in delayed, BeginReport(i)
  PROVE  LifeInv'
<1> DEFINE report == Call("ScheduleSendRtcp", i, <<>>)
<1>1. /\ Settled /\ Idle("worker") /\ delayed' = delayed \ {i} /\ queue' = queue
      /\ todo' = [todo EXCEPT !["worker"] = <<report>>] /\ "worker" \in Threads
  BY DEF BeginReport, Settled, userVars, sessionVars, routerVars, Threads
<1>2. CallOK("worker", report)
  BY ReportersReady DEF CallOK, Call
<1> HIDE DEF report
<1>3. IsSequence(<<report>>) /\ \A c \in ToSet(<<report>>) : CallOK("worker", c)
  BY <1>2, OneCall
<1>4. owner # "tranceiver" /\ delayed' \subseteq delayed
  BY <1>1 DEF LifeInv, OwnerInStep
<1>5. queue = [t \in Threads |-> queue[t]]
  BY DEF LifeInv, ThreadsTypeOK
<1>6. \A t \in Threads : IsSequence(queue[t]) /\ (run[t] = "stopped" => queue[t] = <<>>)
  BY DEF LifeInv, ThreadsTypeOK, StoppedIsEmpty
<1> QED BY <1>1, <1>3, <1>4, <1>5, <1>6, TaskBegins

\* It sends and is delayed again.
LEMMA ScheduleSendRtcpKeeps ==
  ASSUME LifeInv, ScheduleSendRtcp
  PROVE  LifeInv'
<1> DEFINE call == Head(todo["worker"])
           send == Call("Send", call.session, <<>>)
<1>1. /\ Settled /\ delayed' = delayed \cup {call.session} /\ todo["worker"] # <<>>
      /\ call.op = "ScheduleSendRtcp" /\ queue' = Pushed("network", send)
      /\ Continue("worker", <<>>) /\ "worker" \in Threads /\ "network" \in Threads
  BY DEF ScheduleSendRtcp, Running, Settled, userVars, sessionVars, routerVars, Threads
<1>2. CallOK("worker", call)
  BY <1>1, NextCallOK
<1> HIDE DEF call
<1>3. MayReport(call.session)
  BY <1>1, <1>2 DEF CallOK
<1>4. CallOK("network", send)
  BY <1>1, <1>3, SendOK
<1> HIDE DEF send
<1>5. Pushes
  BY <1>1, <1>4 DEF Pushes
<1>6. IsSequence(<<>>) /\ \A c \in ToSet(<<>>) : CallOK("worker", c)
  BY EmptyCalls
<1>7. \A i \in delayed' : MayReport(i)
  BY <1>1, <1>3, ReportersReady
<1> QED BY <1>1, <1>5, <1>6, <1>7, TaskGoesOn

\* On a freed sender it may do nothing.
LEMMA ScheduleNothingKeeps ==
  ASSUME LifeInv, ScheduleNothing
  PROVE  LifeInv'
<1>1. /\ Settled /\ delayed' = delayed /\ todo["worker"] # <<>> /\ Pushes
      /\ Continue("worker", <<>>) /\ "worker" \in Threads
  BY DEF ScheduleNothing, Running, Settled, userVars, sessionVars, routerVars, Pushes, Threads
<1> QED BY <1>1, TaskEnds

\* Or it is the end of the process.
LEMMA ScheduleCrashesKeeps ==
  ASSUME LifeInv, ScheduleCrashes
  PROVE  LifeInv'
<1>1. /\ owner' = "crashed" /\ run' = [th \in Threads |-> "stopped"] /\ delayed' = {}
      /\ queue' = [th \in Threads |-> <<>>] /\ todo' = [th \in Threads |-> <<>>]
      /\ UNCHANGED <<config, at, has_started, initialized, rtp_destinations, rtcp_destinations, live>>
  BY DEF ScheduleCrashes, sessionVars, routerVars
<1>2. ThreadsTypeOK'
  BY <1>1, EmptyCalls DEF LifeInv, ThreadsTypeOK
<1>3. CallsOK'
  BY <1>1, EmptyCalls DEF CallsOK
<1>4. \A i : Ready(i)' = Ready(i) /\ CanReceive(i)' = CanReceive(i)
  BY <1>1 DEF Ready, CanReceive
<1>5. ReferencesOK'
  BY <1>1, <1>4 DEF LifeInv, ReferencesOK
<1>6. SharedOK' /\ StoppedIsEmpty' /\ ConfigOK'
  BY <1>1 DEF LifeInv, SharedOK, StoppedIsEmpty, ConfigOK
<1>7. Progress'
  BY <1>1 DEF Progress, Initializing, AfterSession
<1>8. OwnerInStep'
  BY <1>1 DEF OwnerInStep, Initializing, AfterSession, AfterRtcp, AfterReceiver
<1> QED BY <1>2, <1>3, <1>5, <1>6, <1>7, <1>8 DEF LifeInv

\* The user is called back.
LEMMA CallBackKeeps ==
  ASSUME LifeInv, CallBack
  PROVE  LifeInv'
<1>1. /\ Settled /\ delayed' = delayed /\ todo["signaling"] # <<>> /\ Pushes
      /\ Continue("signaling", <<>>) /\ "signaling" \in Threads
  BY DEF CallBack, Running, Settled, userVars, sessionVars, routerVars, Pushes, Threads
<1> QED BY <1>1, TaskEnds

\* A packet of the user is passed on to the network thread.
LEMMA SendRtpKeeps ==
  ASSUME LifeInv, SendRtp
  PROVE  LifeInv'
<1> DEFINE call == Head(todo["signaling"])
<1>1. /\ Settled /\ delayed' = delayed /\ todo["signaling"] # <<>>
      /\ call.op = "SendRtpPacket"
      /\ queue' = queue \/ queue' = Pushed("network", Call("Send", call.session, <<>>))
      /\ Continue("signaling", <<>>) /\ "signaling" \in Threads /\ "network" \in Threads
  BY DEF SendRtp, Running, Settled, userVars, sessionVars, routerVars, Threads
<1>2. CallOK("signaling", call)
  BY <1>1, NextCallOK
<1> HIDE DEF call
<1>3. MayReport(call.session)
  BY <1>1, <1>2 DEF CallOK, MayReport
<1>4. CallOK("network", Call("Send", call.session, <<>>))
  BY <1>1, <1>3, SendOK
<1>5. Pushes
  BY <1>1, <1>4 DEF Pushes
<1> QED BY <1>1, <1>5, TaskEnds

\* What only touches the tasks pushed keeps the invariant.
LEMMA OnlyPushes ==
  ASSUME LifeInv, Settled, Pushes, todo' = todo, delayed' = delayed,
         owner = "tranceiver" => queue' = queue
  PROVE  LifeInv'
<1>1. todo = [t \in Threads |-> todo[t]] /\ \A t \in Threads : IsSequence(todo[t])
  BY DEF LifeInv, ThreadsTypeOK
<1>2. \A t \in Threads : \A c \in ToSet(todo[t]) : CallOK(t, c)
  BY DEF LifeInv, CallsOK
<1>3. \A t \in Threads : run[t] = "stopped" =>
        todo[t] = <<>> /\ (t = "worker" => delayed = {})
  BY DEF LifeInv, StoppedIsEmpty
<1> QED BY <1>1, <1>2, <1>3, PushesKeepQueues, ReportersReady, CallsMove

\* The session of the ssrc is one that was set up.
LEMMA SendRtpPacketKeeps ==
  ASSUME LifeInv, NEW ssrc, SendRtpPacket(ssrc)
  PROVE  LifeInv'
<1>1. /\ Settled /\ todo' = todo /\ delayed' = delayed /\ owner # "tranceiver"
      /\ \/ queue' = queue
         \/ \E i \in initialized : Sends(config[i]) /\
              queue' = Pushed("signaling", Call("SendRtpPacket", i, <<>>))
  BY DEF SendRtpPacket, Settled, userVars, sessionVars, routerVars, OnInitialized
<1>2. \A i \in initialized : Sends(config[i]) =>
        CallOK("signaling", Call("SendRtpPacket", i, <<>>))
  BY DEF LifeInv, ReferencesOK, CallOK, Call, Routed
<1>3. Pushes
  BY <1>1, <1>2 DEF Pushes, Threads
<1> QED BY <1>1, <1>3, OnlyPushes

\* A datagram arrives.
LEMMA ArriveKeeps ==
  ASSUME LifeInv, NEW d, Arrive(d)
  PROVE  LifeInv'
<1>1. Settled /\ Pushes /\ todo' = todo /\ delayed' = delayed /\ queue' = queue
  BY DEF Arrive, Settled, userVars, sessionVars, routerVars, threadVars, Pushes
<1> QED BY <1>1, OnlyPushes

-----------------------------------------------------------------------------
(* Steps of StartSession *)

\* Where objects are only made, what was ready stays so.
LEMMA StaysReady ==
  ASSUME live \subseteq live', config' = config
  PROVE  \A i : (Ready(i) => Ready(i)') /\ (CanReceive(i) => CanReceive(i)')
BY DEF Ready, CanReceive

\* Nobody is taken off the list of those who are called.
RoutesStay ==
  /\ initialized \subseteq initialized'
  /\ ToSet(rtp_destinations) \subseteq ToSet(rtp_destinations')
  /\ ToSet(rtcp_destinations) \subseteq ToSet(rtcp_destinations')

\* Where also nobody stops being called, the calls under way stay good.
LEMMA StaysOK ==
  ASSUME live \subseteq live', config' = config, RoutesStay,
         owner \notin {"stop", "join"} \/ owner' \in {"stop", "join"}
  PROVE  /\ \A i : MayReport(i) => MayReport(i)'
         /\ \A th, c : CallOK(th, c) => CallOK(th, c)'
<1>1. \A i : (Ready(i) => Ready(i)') /\ (CanReceive(i) => CanReceive(i)')
  BY StaysReady
<1>2. \A i : Routed(i) => Routed(i)'
  BY DEF Routed, RoutesStay
<1>3. \A i : MayReport(i) => MayReport(i)'
  BY <1>1 DEF MayReport, Orphaned
<1>4. \A th, c : CallOK(th, c) => CallOK(th, c)'
  BY <1>1, <1>2, <1>3 DEF CallOK
<1> QED BY <1>3, <1>4

\* What a step of StartSession that only makes objects does to the threads.
LEMMA Builds ==
  ASSUME LifeInv, owner \in Initializing, owner' \in Initializing \cup {"started"},
         config' = config, live \subseteq live', UNCHANGED <<run, queue, todo>>,
         \A x \in live' : x[2] \in Nat, at' \in Nat \ {0},
         IsSequence(rtp_destinations'), IsSequence(rtcp_destinations'), RoutesStay
  PROVE  /\ ThreadsTypeOK' /\ CallsOK' /\ SharedOK' /\ StoppedIsEmpty' /\ ConfigOK'
         /\ \A i \in delayed : MayReport(i)'
         /\ \A th \in Threads : run'[th] = "running"
         /\ Shared("tranceiver") \in live'
<1>1. \A th \in Threads : run[th] = "running"
  BY DEF LifeInv, OwnerInStep
<1>2. Shared("tranceiver") \in live'
  BY DEF LifeInv, OwnerInStep
<1>3. ThreadsTypeOK'
  BY DEF LifeInv, ThreadsTypeOK
<1>4. owner \notin {"stop", "join"}
  BY DEF Initializing, AfterSession
<1>5. CallsOK' /\ \A i \in delayed : MayReport(i)'
  BY <1>4, StaysOK DEF LifeInv, CallsOK, ReferencesOK
<1>6. SharedOK'
  BY <1>2 DEF LifeInv, SharedOK
<1>7. StoppedIsEmpty' /\ ConfigOK'
  BY <1>1 DEF LifeInv, StoppedIsEmpty, ConfigOK
<1> QED BY <1>1, <1>2, <1>3, <1>5, <1>6, <1>7

\* A media session is made, with its RtpSender.
LEMMA CreateSessionKeeps ==
  ASSUME LifeInv, CreateSession
  PROVE  LifeInv'
<1> DEFINE made == {<<"session", at>>} \cup (IF Sends(config[at]) THEN {<<"rtp_sender", at>>} ELSE {})
<1>1. /\ owner = "session" /\ at <= Len(config) /\ live' = live \cup made
      /\ owner' \in {"failed", "rtcp_sender"}
      /\ UNCHANGED <<config, at, run, queue, todo, delayed, initialized, has_started>>
      /\ UNCHANGED <<rtp_destinations, rtcp_destinations>>
  BY DEF CreateSession, sessionVars, routerVars, threadVars
<1>2. /\ at \in Nat \ {0} /\ IsSequence(rtp_destinations) /\ IsSequence(rtcp_destinations)
      /\ \A x \in live : x[2] \in Nat /\ x[2] < at
  BY <1>1 DEF LifeInv, ThreadsTypeOK, SharedOK, OwnerInStep
<1>3. \A x \in made : x[2] = at /\ x # <<"rtcp_sender", at>>
  OBVIOUS
<1>4. \A x \in live' : x[2] \in Nat /\ x[2] <= at
  BY <1>1, <1>2, <1>3
<1>5. <<"rtcp_sender", at>> \notin live'
  BY <1>1, <1>2, <1>3
<1>6. /\ ThreadsTypeOK' /\ CallsOK' /\ SharedOK' /\ StoppedIsEmpty' /\ ConfigOK'
      /\ \A th \in Threads : run'[th] = "running"
      /\ Shared("tranceiver") \in live'
      /\ \A i \in delayed : MayReport(i)'
  BY <1>1, <1>2, <1>4, Builds DEF Initializing, AfterSession, RoutesStay
<1>7. ReferencesOK'
  BY <1>1, <1>6, StaysReady DEF LifeInv, ReferencesOK
<1>8. Progress'
  BY <1>1, <1>2 DEF LifeInv, Progress, Initializing, AfterSession
<1>9. OwnerInStep'
  BY <1>1, <1>4, <1>5, <1>6 DEF OwnerInStep, Initializing, AfterSession, AfterRtcp, AfterReceiver
<1> QED BY <1>6, <1>7, <1>8, <1>9 DEF LifeInv

\* What else a step leaves alone that neither makes sessions ready nor refers to them.
SameSets == UNCHANGED <<initialized, delayed, rtp_destinations, rtcp_destinations>>

\* The RtcpSender and the RtcpReceiver are made, and the report is delayed.
LEMMA CreateRtcpKeeps ==
  ASSUME LifeInv, CreateRtcp
  PROVE  LifeInv'
<1> DEFINE made == {<<"rtcp_sender", at>>, <<"rtcp_receiver", at>>}
<1>1. /\ owner = "rtcp_sender" /\ live' = live \cup made /\ delayed' = delayed \cup {at}
      /\ owner' = "rtp_receiver"
      /\ UNCHANGED <<config, at, run, queue, todo, initialized, has_started>>
      /\ UNCHANGED <<rtp_destinations, rtcp_destinations>>
  BY DEF CreateRtcp, sessionVars, routerVars
<1>2. /\ at \in Nat \ {0} /\ IsSequence(rtp_destinations) /\ IsSequence(rtcp_destinations)
      /\ \A x \in live : x[2] \in Nat /\ x[2] <= at
      /\ <<"session", at>> \in live /\ (Sends(config[at]) => <<"rtp_sender", at>> \in live)
  BY <1>1 DEF LifeInv, ThreadsTypeOK, SharedOK, OwnerInStep, Initializing, AfterSession
<1>3. \A x \in made : x[2] = at
  OBVIOUS
<1>4. \A x \in live' : x[2] \in Nat /\ x[2] <= at
  BY <1>1, <1>2, <1>3
<1>5. Ready(at)'
  BY <1>1, <1>2 DEF Ready
<1>6. /\ ThreadsTypeOK' /\ CallsOK' /\ SharedOK' /\ StoppedIsEmpty' /\ ConfigOK'
      /\ \A th \in Threads : run'[th] = "running"
      /\ Shared("tranceiver") \in live'
      /\ \A i \in delayed : MayReport(i)'
  BY <1>1, <1>2, <1>4, Builds DEF Initializing, AfterSession, RoutesStay
<1>7. ReferencesOK'
  <2>1. \A i \in delayed' : MayReport(i)'
    BY <1>1, <1>5, <1>6 DEF MayReport
  <2> QED BY <1>1, <2>1, StaysReady DEF LifeInv, ReferencesOK
<1>8. Progress'
  BY <1>1, <1>2 DEF LifeInv, Progress, Initializing, AfterSession
<1>9. OwnerInStep'
  BY <1>1, <1>2, <1>4, <1>5, <1>6 DEF OwnerInStep, Initializing, AfterSession, AfterRtcp, AfterReceiver
<1> QED BY <1>6, <1>7, <1>8, <1>9 DEF LifeInv

\* The RtpReceiver of a session that receives is made, or refused.
LEMMA CreateRtpReceiverKeeps ==
  ASSUME LifeInv, CreateRtpReceiver
  PROVE  LifeInv'
<1>1. /\ owner = "rtp_receiver"
      /\ live' = IF Receives(config[at]) THEN live \cup {<<"rtp_receiver", at>>} ELSE live
      /\ UNCHANGED <<config, at, run, queue, todo, has_started>> /\ SameSets
  BY DEF CreateRtpReceiver, sessionVars, routerVars, threadVars, SameSets
<1>2. /\ at \in Nat \ {0} /\ IsSequence(rtp_destinations) /\ IsSequence(rtcp_destinations)
      /\ \A x \in live : x[2] \in Nat /\ x[2] <= at
      /\ Ready(at) /\ at <= Len(config) /\ at \in Sessions
  <2>1. at \in Nat \ {0} /\ at <= Len(config)
    BY <1>1 DEF LifeInv, ThreadsTypeOK, Progress, Initializing, AfterSession
  <2>2. at \in DOMAIN config /\ config \in Configs
    BY <2>1 DEF LifeInv, ConfigOK
  <2>3. at \in Sessions
    BY <2>2 DEF Sessions
  <2> QED BY <1>1, <2>1, <2>3
          DEF LifeInv, ThreadsTypeOK, SharedOK, OwnerInStep, Initializing, AfterRtcp
<1>3. owner' = "add_rtp_dst" \/ (owner' = "failed" /\ ReceiverRefused(config[at]))
  BY DEF CreateRtpReceiver
<1>4. live \subseteq live' /\ \A x \in live' : x[2] \in Nat /\ x[2] <= at
  BY <1>1, <1>2
<1>5. Ready(at)' /\ (Receives(config[at]) => CanReceive(at)')
  BY <1>1, <1>2, <1>4, StaysReady DEF CanReceive
<1>6. /\ ThreadsTypeOK' /\ CallsOK' /\ SharedOK' /\ StoppedIsEmpty' /\ ConfigOK'
      /\ \A th \in Threads : run'[th] = "running"
      /\ Shared("tranceiver") \in live'
      /\ \A i \in delayed : MayReport(i)'
  BY <1>1, <1>2, <1>3, <1>4, Builds DEF Initializing, AfterSession, SameSets, RoutesStay
<1>7. ReferencesOK'
  BY <1>1, <1>4, <1>6, StaysReady DEF LifeInv, ReferencesOK, SameSets
<1>8. Progress'
  BY <1>1, <1>2, <1>3 DEF LifeInv, Progress, Initializing, AfterSession, SameSets
<1>9. OwnerInStep'
  <2>1. <<"session", at>> \in live' /\ (Sends(config[at]) => <<"rtp_sender", at>> \in live')
    BY <1>1, <1>5 DEF Ready
  <2> QED BY <1>1, <1>3, <1>4, <1>5, <1>6, <2>1
          DEF OwnerInStep, Initializing, AfterSession, AfterRtcp, AfterReceiver
<1> QED BY <1>6, <1>7, <1>8, <1>9 DEF LifeInv

\* The receiver is a destination of the router.
LEMMA AddRtpDstKeeps ==
  ASSUME LifeInv, AddRtpDst
  PROVE  LifeInv'
<1>1. /\ owner = "add_rtp_dst" /\ owner' = "add_rtcp_dst"
      /\ rtp_destinations' =
           IF Receives(config[at]) THEN Append(rtp_destinations, at) ELSE rtp_destinations
      /\ UNCHANGED <<config, at, run, queue, todo, has_started, live>>
      /\ UNCHANGED <<initialized, delayed, rtcp_destinations>>
  BY DEF AddRtpDst, sessionVars, threadVars
<1>2. /\ at \in Nat \ {0} /\ IsSequence(rtp_destinations) /\ IsSequence(rtcp_destinations)
      /\ \A x \in live : x[2] \in Nat /\ x[2] <= at
      /\ <<"session", at>> \in live /\ (Sends(config[at]) => <<"rtp_sender", at>> \in live)
      /\ Ready(at) /\ (Receives(config[at]) => CanReceive(at))
  BY <1>1 DEF LifeInv, ThreadsTypeOK, SharedOK, OwnerInStep, Initializing,
     AfterSession, AfterRtcp, AfterReceiver
<1>3. /\ IsSequence(rtp_destinations')
      /\ ToSet(rtp_destinations') =
           ToSet(rtp_destinations) \cup (IF Receives(config[at]) THEN {at} ELSE {})
  BY <1>1, <1>2, PushedCall
<1>4. Ready(at)' /\ (Receives(config[at]) => CanReceive(at)')
  BY <1>1, <1>2, StaysReady
<1>5. /\ ThreadsTypeOK' /\ CallsOK' /\ SharedOK' /\ StoppedIsEmpty' /\ ConfigOK'
      /\ \A th \in Threads : run'[th] = "running"
      /\ Shared("tranceiver") \in live'
      /\ \A i \in delayed : MayReport(i)'
  BY <1>1, <1>2, <1>3, Builds DEF Initializing, AfterSession, RoutesStay
<1>6. ReferencesOK'
  BY <1>1, <1>3, <1>4, <1>5, StaysReady DEF LifeInv, ReferencesOK
<1>7. Progress'
  BY <1>1, <1>2, <1>3 DEF LifeInv, Progress, Initializing, AfterSession
<1>8. OwnerInStep'
  BY <1>1, <1>2, <1>4, <1>5 DEF OwnerInStep, Initializing, AfterSession, AfterRtcp, AfterReceiver
<1> QED BY <1>5, <1>6, <1>7, <1>8 DEF LifeInv

\* The RtcpReceiver is a destination of the router.
LEMMA AddRtcpDstKeeps ==
  ASSUME LifeInv, AddRtcpDst
  PROVE  LifeInv'
<1>1. /\ owner = "add_rtcp_dst" /\ owner' = "initialized"
      /\ rtcp_destinations' = Append(rtcp_destinations, at)
      /\ UNCHANGED <<config, at, run, queue, todo, has_started, live>>
      /\ UNCHANGED <<initialized, delayed, rtp_destinations>>
  BY DEF AddRtcpDst, sessionVars, threadVars
<1>2. /\ at \in Nat \ {0} /\ IsSequence(rtp_destinations) /\ IsSequence(rtcp_destinations)
      /\ \A x \in live : x[2] \in Nat /\ x[2] <= at
      /\ <<"session", at>> \in live /\ (Sends(config[at]) => <<"rtp_sender", at>> \in live)
      /\ Ready(at) /\ (Receives(config[at]) => CanReceive(at))
  BY <1>1 DEF LifeInv, ThreadsTypeOK, SharedOK, OwnerInStep, Initializing,
     AfterSession, AfterRtcp, AfterReceiver
<1>3. /\ IsSequence(rtcp_destinations')
      /\ ToSet(rtcp_destinations') = ToSet(rtcp_destinations) \cup {at}
  BY <1>1, <1>2, PushedCall
<1>4. Ready(at)' /\ (Receives(config[at]) => CanReceive(at)')
  BY <1>1, <1>2, StaysReady
<1>5. /\ ThreadsTypeOK' /\ CallsOK' /\ SharedOK' /\ StoppedIsEmpty' /\ ConfigOK'
      /\ \A th \in Threads : run'[th] = "running"
      /\ Shared("tranceiver") \in live'
      /\ \A i \in delayed : MayReport(i)'
  BY <1>1, <1>2, <1>3, Builds DEF Initializing, AfterSession, RoutesStay
<1>6. ReferencesOK'
  BY <1>1, <1>3, <1>4, <1>5, StaysReady DEF LifeInv, ReferencesOK
<1>7. Progress'
  BY <1>1, <1>2, <1>3 DEF LifeInv, Progress, Initializing, AfterSession
<1>8. OwnerInStep'
  BY <1>1, <1>2, <1>4, <1>5 DEF OwnerInStep, Initializing, AfterSession, AfterRtcp, AfterReceiver
<1> QED BY <1>5, <1>6, <1>7, <1>8 DEF LifeInv

\* The session is kept, and the next one is under way.
LEMMA KeepSessionKeeps ==
  ASSUME LifeInv, KeepSession
  PROVE  LifeInv'
<1>1. /\ owner = "initialized" /\ owner' = "session" /\ at' = at + 1
      /\ initialized' = initialized \cup {at}
      /\ UNCHANGED <<config, run, queue, todo, has_started, live>>
      /\ UNCHANGED <<delayed, rtp_destinations, rtcp_destinations>>
  BY DEF KeepSession, routerVars, threadVars
<1>2. /\ at \in Nat \ {0} /\ IsSequence(rtp_destinations) /\ IsSequence(rtcp_destinations)
      /\ \A x \in live : x[2] \in Nat /\ x[2] <= at
      /\ Ready(at) /\ at <= Len(config) /\ Len(config) \in Nat
  BY <1>1 DEF LifeInv, ThreadsTypeOK, SharedOK, OwnerInStep, Progress, ConfigOK, Initializing,
     AfterSession, AfterRtcp
<1>3. \A i : (Ready(i) => Ready(i)') /\ (CanReceive(i) => CanReceive(i)')
  BY <1>1, StaysReady
<1>4. /\ ThreadsTypeOK' /\ CallsOK' /\ SharedOK' /\ StoppedIsEmpty' /\ ConfigOK'
      /\ \A th \in Threads : run'[th] = "running"
      /\ Shared("tranceiver") \in live'
      /\ \A i \in delayed : MayReport(i)'
  BY <1>1, <1>2, Builds DEF Initializing, AfterSession, RoutesStay
<1>5. ReferencesOK'
  BY <1>1, <1>2, <1>3, <1>4 DEF LifeInv, ReferencesOK
<1>6. 1..(at' - 1) = 1..(at - 1) \cup {at}
  BY <1>1, <1>2
<1>7. Progress'
  <2>1. /\ initialized' = 1..(at' - 1)
        /\ ToSet(rtcp_destinations') = 1..(at' - 1)
        /\ ToSet(rtp_destinations') = {i \in 1..(at' - 1) : Receives(config'[i])}
    BY <1>1, <1>6 DEF LifeInv, Progress, Initializing, AfterSession
  <2>2. at' <= Len(config') + 1
    BY <1>1, <1>2
  <2> QED BY <1>1, <2>1, <2>2 DEF Progress, AfterSession
<1>8. \A x \in live' : x[2] <= at' /\ x[2] < at'
  BY <1>1, <1>2
<1>9. OwnerInStep'
  BY <1>1, <1>4, <1>8 DEF OwnerInStep, Initializing, AfterSession, AfterRtcp, AfterReceiver
<1> QED BY <1>4, <1>5, <1>7, <1>9 DEF LifeInv

\* Every session is kept, and StartSession returns.
LEMMA ReturnStartedKeeps ==
  ASSUME LifeInv, ReturnStarted
  PROVE  LifeInv'
<1>1. /\ owner = "session" /\ owner' = "started" /\ at > Len(config) /\ has_started' = TRUE
      /\ UNCHANGED <<config, at, run, queue, todo, live>> /\ SameSets
  BY DEF ReturnStarted, routerVars, threadVars, SameSets
<1>2. /\ at \in Nat \ {0} /\ IsSequence(rtp_destinations) /\ IsSequence(rtcp_destinations)
      /\ \A x \in live : x[2] \in Nat
  BY <1>1 DEF LifeInv, ThreadsTypeOK, SharedOK
<1>3. /\ ThreadsTypeOK' /\ CallsOK' /\ SharedOK' /\ StoppedIsEmpty' /\ ConfigOK'
      /\ \A th \in Threads : run'[th] = "running"
      /\ \A i \in delayed : MayReport(i)'
  BY <1>1, <1>2, Builds DEF Initializing, AfterSession, SameSets, RoutesStay
<1>4. ReferencesOK'
  BY <1>1, <1>3, StaysReady DEF LifeInv, ReferencesOK, SameSets
<1>5. Progress'
  BY <1>1 DEF LifeInv, Progress, Initializing, AfterSession, SameSets
<1>6. OwnerInStep'
  BY <1>1, <1>3 DEF OwnerInStep, Initializing, AfterSession, AfterRtcp, AfterReceiver
<1> QED BY <1>3, <1>4, <1>5, <1>6 DEF LifeInv

\* The threads and the router are created, for a configuration of the user.
LEMMA StartSessionKeeps ==
  ASSUME LifeInv, StartSession
  PROVE  LifeInv'
<1>1. /\ owner = "idle" /\ owner' = "tranceiver" /\ config' \in Configs
      /\ run' = [th \in Threads |-> "running"]
      /\ live' = live \cup {Shared("scheduler"), Shared("router")}
      /\ UNCHANGED <<at, queue, todo, delayed, has_started, initialized>>
      /\ UNCHANGED <<rtp_destinations, rtcp_destinations>>
  BY DEF StartSession, sessionVars, routerVars
<1>2. /\ \A th \in Threads : queue[th] = <<>> /\ todo[th] = <<>>
      /\ delayed = {} /\ initialized = {} /\ rtp_destinations = <<>> /\ rtcp_destinations = <<>>
      /\ live \subseteq {Shared("tranceiver")}
  BY <1>1 DEF LifeInv, OwnerInStep, StoppedIsEmpty, Progress, Threads
<1>3. ThreadsTypeOK'
  BY <1>1 DEF LifeInv, ThreadsTypeOK
<1>4. CallsOK'
  BY <1>1, <1>2, EmptyCalls DEF CallsOK
<1>5. ReferencesOK'
  BY <1>1, <1>2, EmptyCalls DEF ReferencesOK
<1>6. \A x \in live' : x \in {Shared("tranceiver"), Shared("scheduler"), Shared("router")}
  BY <1>1, <1>2
<1>7. SharedOK'
  BY <1>1, <1>6 DEF SharedOK, Shared
<1>8. StoppedIsEmpty'
  BY <1>1 DEF StoppedIsEmpty
<1>9. ConfigOK'
  BY <1>1, ConfigsAssumption DEF ConfigOK
<1>10. Progress'
  BY <1>1, <1>2 DEF Progress, Initializing, AfterSession
<1>11. OwnerInStep'
  BY <1>1, <1>2, <1>6 DEF OwnerInStep, Initializing, AfterSession, AfterRtcp, AfterReceiver, Shared
<1> QED BY <1>3, <1>4, <1>5, <1>7, <1>8, <1>9, <1>10, <1>11 DEF LifeInv

\* The tranceiver is created or the failed path is taken: nothing uses one yet.
LEMMA CreateTranceiverKeeps ==
  ASSUME LifeInv, CreateTranceiver
  PROVE  LifeInv'
<1>1. /\ owner = "tranceiver" /\ at' = 1
      /\ \/ /\ live' = live \cup {Shared("tranceiver"), Shared("handler")}
            /\ owner' = "session"
         \/ live' = live \ {Shared("tranceiver")} /\ owner' = "stop"
      /\ UNCHANGED <<config, run, queue, todo, has_started>> /\ SameSets
  BY DEF CreateTranceiver, sessionVars, routerVars, threadVars, SameSets
<1>2. /\ \A th \in Threads : run[th] = "running" /\ queue[th] = <<>> /\ todo[th] = <<>>
      /\ delayed = {} /\ initialized = {} /\ rtp_destinations = <<>> /\ rtcp_destinations = <<>>
      /\ \A x \in live : x[2] = 0
      /\ Shared("handler") \notin live
  BY <1>1 DEF LifeInv, OwnerInStep, Progress
<1>3. Shared("scheduler") \in live /\ Shared("router") \in live
  BY <1>2 DEF LifeInv, SharedOK, Threads
<1>4. ThreadsTypeOK'
  BY <1>1 DEF LifeInv, ThreadsTypeOK, SameSets
<1>5. CallsOK'
  BY <1>1, <1>2, EmptyCalls DEF CallsOK
<1>6. ReferencesOK'
  BY <1>1, <1>2, EmptyCalls DEF ReferencesOK, SameSets
<1>7. /\ \A x \in live' : x[2] = 0
      /\ Shared("scheduler") \in live' /\ Shared("router") \in live'
  BY <1>1, <1>2, <1>3 DEF Shared
<1>8. SharedOK'
  BY <1>1, <1>2, <1>7 DEF SharedOK, Shared
<1>9. StoppedIsEmpty' /\ ConfigOK'
  BY <1>1, <1>2 DEF LifeInv, StoppedIsEmpty, ConfigOK
<1>10. Progress'
  <2>1. 1..(at' - 1) = {} /\ Len(config) \in Nat
    BY <1>1 DEF LifeInv, ConfigOK
  <2> QED BY <1>1, <1>2, <2>1, EmptyCalls DEF Progress, Initializing, AfterSession, SameSets
<1>11. OwnerInStep'
  BY <1>1, <1>2, <1>7 DEF OwnerInStep, Initializing, AfterSession, AfterRtcp, AfterReceiver
<1> QED BY <1>4, <1>5, <1>6, <1>8, <1>9, <1>10, <1>11 DEF LifeInv

\* What Initialize made is freed: only a report may refer to it.
LEMMA FailInitializeKeeps ==
  ASSUME LifeInv, FailInitialize
  PROVE  LifeInv'
<1>1. /\ owner = "failed" /\ owner' = "stop" /\ at' = 1
      /\ live' = {x \in live : x[2] # at}
      /\ UNCHANGED <<config, run, queue, todo, has_started>> /\ SameSets
  BY DEF FailInitialize, sessionVars, routerVars, threadVars, SameSets
<1>2. /\ at \in Nat \ {0} /\ (<<"rtcp_sender", at>> \in live => ReceiverRefused(config[at]))
      /\ Shared("tranceiver") \in live
      /\ \A th \in Threads : run[th] = "running"
  BY <1>1 DEF LifeInv, OwnerInStep, Initializing, ThreadsTypeOK
<1>3. Shared("scheduler") \in live /\ Shared("router") \in live
  BY <1>2 DEF LifeInv, SharedOK, Threads
<1>4. /\ \A kind : Shared(kind) \in live => Shared(kind) \in live'
      /\ \A kind, i : <<kind, i>> \in live /\ i # at => <<kind, i>> \in live'
  BY <1>1, <1>2 DEF Shared
<1>5. \A i : Routed(i) => i # at
  <2>1. Routed(at) => at \in 1..(at - 1)
    BY <1>1 DEF LifeInv, Progress, Initializing, AfterSession, Routed
  <2> QED BY <1>2, <2>1
<1>6. \A i : i # at => (Ready(i) => Ready(i)') /\ (CanReceive(i) => CanReceive(i)')
  BY <1>1, <1>4 DEF Ready, CanReceive
<1>7. \A i : MayReport(i) => MayReport(i)'
  <2> SUFFICES ASSUME NEW i, Ready(i), i = at PROVE MayReport(i)'
    BY <1>1, <1>6 DEF MayReport, Orphaned
  <2>1. ReceiverRefused(config[i])
    BY <1>2 DEF Ready
  <2>2. Orphaned(i)'
    BY <1>1, <1>2, <1>3, <1>4, <2>1 DEF Orphaned
  <2> QED BY <2>2 DEF MayReport
<1>8. \A i : Routed(i)' = Routed(i)
  BY <1>1 DEF Routed, SameSets
<1>9. \A th, c : CallOK(th, c) => CallOK(th, c)'
  <2> SUFFICES ASSUME NEW th, NEW c, CallOK(th, c) PROVE CallOK(th, c)'
    OBVIOUS
  <2>1. CASE Routed(c.session)
    <3>1. /\ Ready(c.session) => Ready(c.session)'
          /\ CanReceive(c.session) => CanReceive(c.session)'
      BY <1>5, <1>6, <2>1
    <3> QED BY <1>1, <1>4, <1>7, <1>8, <3>1 DEF CallOK
  <2>2. CASE ~Routed(c.session)
    BY <1>1, <1>4, <1>7, <2>2 DEF CallOK
  <2> QED BY <2>1, <2>2
<1>10. ThreadsTypeOK'
  BY <1>1 DEF LifeInv, ThreadsTypeOK, SameSets
<1>11. CallsOK'
  BY <1>1, <1>9 DEF LifeInv, CallsOK
<1>12. ReferencesOK'
  <2>1. \A i \in initialized \cup ToSet(rtcp_destinations) \cup ToSet(rtp_destinations) : i # at
    BY <1>5 DEF Routed
  <2> QED BY <1>1, <1>6, <1>7, <2>1 DEF LifeInv, ReferencesOK, SameSets
<1>13. SharedOK'
  BY <1>1, <1>2, <1>3, <1>4 DEF LifeInv, SharedOK
<1>14. StoppedIsEmpty' /\ ConfigOK'
  BY <1>1, <1>2 DEF LifeInv, StoppedIsEmpty, ConfigOK
<1>15. Progress'
  BY <1>1 DEF Progress, Initializing, AfterSession
<1>16. OwnerInStep'
  BY <1>1, <1>3, <1>4 DEF OwnerInStep, Initializing, AfterSession, AfterRtcp, AfterReceiver
<1> QED BY <1>10, <1>11, <1>12, <1>13, <1>14, <1>15, <1>16 DEF LifeInv

-----------------------------------------------------------------------------
(* Steps of the failed path and of the destructor *)

\* The threads are stopped one after the other.
LEMMA StopOrderOnce ==
  /\ Len(StopOrder) = 3
  /\ \A j \in 1..3 : StopOrder[j] \in Threads
  /\ \A i, j \in 1..3 : StopOrder[i] = StopOrder[j] => i = j
  /\ \A th \in Threads : \E j \in 1..3 : StopOrder[j] = th
<1>1. Len(StopOrder) = 3 /\ StopOrder[1] = "network" /\ StopOrder[2] = "signaling"
      /\ StopOrder[3] = "worker"
  BY DEF StopOrder
<1>2. 1..3 = {1, 2, 3}
  OBVIOUS
<1> QED BY <1>1, <1>2 DEF Threads

\* The next thread is told to stop.
LEMMA StopThreadKeeps ==
  ASSUME LifeInv, StopThread
  PROVE  LifeInv'
<1>1. /\ owner = "stop" /\ owner' = "join" /\ at <= 3
      /\ run' = [run EXCEPT ![StopOrder[at]] = "stopping"]
      /\ UNCHANGED <<config, at, live, queue, todo, has_started>> /\ SameSets
  BY StopOrderOnce DEF StopThread, sessionVars, routerVars, SameSets
<1>2. /\ at \in 1..3 /\ StopOrder[at] \in Threads
      /\ Shared("scheduler") \in live /\ Shared("router") \in live
      /\ run = [th \in Threads |-> run[th]]
  BY <1>1, StopOrderOnce DEF LifeInv, ThreadsTypeOK, OwnerInStep
<1>3. /\ run' = [th \in Threads |-> run'[th]]
      /\ \A th \in Threads : run'[th] = IF th = StopOrder[at] THEN "stopping" ELSE run[th]
  BY <1>1, <1>2
<1>4. ThreadsTypeOK'
  BY <1>1, <1>3 DEF LifeInv, ThreadsTypeOK, SameSets
<1>5. /\ \A i : (Ready(i) => Ready(i)') /\ (CanReceive(i) => CanReceive(i)')
      /\ \A i : MayReport(i) => MayReport(i)'
      /\ \A th, c : CallOK(th, c) => CallOK(th, c)'
  BY <1>1, StaysReady, StaysOK DEF RoutesStay, SameSets
<1>6. CallsOK'
  BY <1>1, <1>5 DEF LifeInv, CallsOK
<1>7. ReferencesOK'
  BY <1>1, <1>5 DEF LifeInv, ReferencesOK, SameSets
<1>8. SharedOK'
  BY <1>1, <1>2 DEF LifeInv, SharedOK
<1>9. StoppedIsEmpty' /\ ConfigOK'
  BY <1>1, <1>3 DEF LifeInv, StoppedIsEmpty, ConfigOK, SameSets
<1>10. Progress'
  BY <1>1 DEF Progress, Initializing, AfterSession
<1>11. \A j \in 1..3 : j < at => run'[StopOrder[j]] = "stopped"
  <2> SUFFICES ASSUME NEW j \in 1..3, j < at PROVE run'[StopOrder[j]] = "stopped"
    OBVIOUS
  <2>1. StopOrder[j] # StopOrder[at] /\ StopOrder[j] \in Threads
    BY <1>2, StopOrderOnce
  <2>2. run[StopOrder[j]] = "stopped"
    BY <1>1 DEF LifeInv, OwnerInStep
  <2> QED BY <1>3, <2>1, <2>2
<1>12. OwnerInStep'
  BY <1>1, <1>2, <1>11 DEF OwnerInStep, Initializing, AfterSession, AfterRtcp, AfterReceiver
<1> QED BY <1>4, <1>6, <1>7, <1>8, <1>9, <1>10, <1>12 DEF LifeInv

\* It has ended, and its tasks with it.
LEMMA JoinThreadKeeps ==
  ASSUME LifeInv, JoinThread
  PROVE  LifeInv'
<1> DEFINE th == StopOrder[at]
<1>1. /\ owner = "join" /\ owner' = "stop" /\ at' = at + 1 /\ todo[th] = <<>>
      /\ run' = [run EXCEPT ![th] = "stopped"] /\ queue' = [queue EXCEPT ![th] = <<>>]
      /\ delayed' = IF th = "worker" THEN {} ELSE delayed
      /\ UNCHANGED <<config, live, todo, has_started>>
      /\ UNCHANGED <<initialized, rtp_destinations, rtcp_destinations>>
  BY DEF JoinThread, sessionVars, routerVars
<1>2. /\ at \in 1..3 /\ th \in Threads
      /\ Shared("scheduler") \in live /\ Shared("router") \in live
      /\ run = [t \in Threads |-> run[t]] /\ queue = [t \in Threads |-> queue[t]]
  BY <1>1, StopOrderOnce DEF LifeInv, ThreadsTypeOK, OwnerInStep
<1> HIDE DEF th
<1>3. /\ run' = [t \in Threads |-> run'[t]] /\ queue' = [t \in Threads |-> queue'[t]]
      /\ \A t \in Threads : run'[t] = IF t = th THEN "stopped" ELSE run[t]
      /\ \A t \in Threads : queue'[t] = IF t = th THEN <<>> ELSE queue[t]
  BY <1>1, <1>2
<1>4. ThreadsTypeOK'
  BY <1>1, <1>2, <1>3, EmptyCalls DEF LifeInv, ThreadsTypeOK
<1>5. /\ \A i : (Ready(i) => Ready(i)') /\ (CanReceive(i) => CanReceive(i)')
      /\ \A i : MayReport(i) => MayReport(i)'
      /\ \A t, c : CallOK(t, c) => CallOK(t, c)'
  BY <1>1, StaysReady, StaysOK DEF RoutesStay
<1>6. \A t \in Threads : ToSet(queue'[t]) \subseteq ToSet(queue[t])
  BY <1>3, EmptyCalls
<1>7. CallsOK'
  BY <1>1, <1>5, <1>6 DEF LifeInv, CallsOK
<1>8. ReferencesOK'
  BY <1>1, <1>5 DEF LifeInv, ReferencesOK
<1>9. SharedOK'
  BY <1>1, <1>2 DEF LifeInv, SharedOK
<1>10. StoppedIsEmpty' /\ ConfigOK'
  BY <1>1, <1>3 DEF LifeInv, StoppedIsEmpty, ConfigOK
<1>11. Progress'
  BY <1>1 DEF Progress, Initializing, AfterSession
<1>12. \A j \in 1..3 : j < at' => run'[StopOrder[j]] = "stopped"
  <2> SUFFICES ASSUME NEW j \in 1..3, j < at' PROVE run'[StopOrder[j]] = "stopped"
    OBVIOUS
  <2>1. CASE j = at
    BY <1>2, <1>3, <2>1 DEF th
  <2>2. CASE j # at
    <3>1. StopOrder[j] \in Threads /\ run[StopOrder[j]] = "stopped"
      BY <1>1, <1>2, <2>2, StopOrderOnce DEF LifeInv, OwnerInStep
    <3> QED BY <1>3, <3>1
  <2> QED BY <2>1, <2>2
<1>13. OwnerInStep'
  BY <1>1, <1>2, <1>12 DEF OwnerInStep, Initializing, AfterSession, AfterRtcp, AfterReceiver
<1> QED BY <1>4, <1>7, <1>8, <1>9, <1>10, <1>11, <1>13 DEF LifeInv

\* Everything is freed, by when no thread runs.
LEMMA ReleaseKeeps ==
  ASSUME LifeInv, Release
  PROVE  LifeInv'
<1>1. /\ owner = "stop" /\ at > 3
      /\ live' = IF has_started THEN {} ELSE live \cap {Shared("tranceiver")}
      /\ initialized' = {} /\ rtp_destinations' = <<>> /\ rtcp_destinations' = <<>>
      /\ owner' = IF has_started THEN "destroyed" ELSE "idle"
      /\ UNCHANGED <<config, at, run, queue, todo, delayed, has_started>>
  BY StopOrderOnce DEF Release, threadVars
<1>2. \A th \in Threads : run[th] = "stopped"
  BY <1>1, StopOrderOnce DEF LifeInv, OwnerInStep, ThreadsTypeOK
<1>3. \A th \in Threads : queue[th] = <<>> /\ todo[th] = <<>>
  BY <1>2 DEF LifeInv, StoppedIsEmpty
<1>4. delayed = {}
  BY <1>2 DEF LifeInv, StoppedIsEmpty, Threads
<1>5. ThreadsTypeOK'
  BY <1>1, EmptyCalls DEF LifeInv, ThreadsTypeOK
<1>6. CallsOK'
  BY <1>1, <1>3, EmptyCalls DEF CallsOK
<1>7. ReferencesOK'
  BY <1>1, <1>4, EmptyCalls DEF ReferencesOK
<1>8. live' \subseteq {Shared("tranceiver")}
  BY <1>1
<1>9. SharedOK'
  BY <1>1, <1>2, <1>8 DEF SharedOK, Shared
<1>10. StoppedIsEmpty' /\ ConfigOK'
  BY <1>1, <1>3, <1>4 DEF LifeInv, StoppedIsEmpty, ConfigOK
<1>11. Progress'
  BY <1>1 DEF Progress, Initializing, AfterSession
<1>12. OwnerInStep'
  BY <1>1, <1>2, <1>8 DEF OwnerInStep, Initializing, AfterSession, AfterRtcp, AfterReceiver
<1> QED BY <1>5, <1>6, <1>7, <1>9, <1>10, <1>11, <1>12 DEF LifeInv

\* The destructor stops a session that has started; another one has nothing to stop.
LEMMA DestroyKeeps ==
  ASSUME LifeInv, Destroy
  PROVE  LifeInv'
<1>1. /\ owner \in {"idle", "started"} /\ at' = 1
      /\ owner' = IF has_started THEN "stop" ELSE "destroyed"
      /\ live' = IF has_started THEN live ELSE {}
      /\ UNCHANGED <<config, run, queue, todo, has_started>> /\ SameSets
  BY DEF Destroy, sessionVars, routerVars, threadVars, SameSets
<1>2. ThreadsTypeOK' /\ ConfigOK'
  BY <1>1 DEF LifeInv, ThreadsTypeOK, ConfigOK, SameSets
<1>3. StoppedIsEmpty'
  BY <1>1 DEF LifeInv, StoppedIsEmpty, SameSets
<1>4. CASE owner = "started"
  <2>1. has_started /\ \A th \in Threads : run[th] = "running"
    BY <1>4 DEF LifeInv, OwnerInStep
  <2>2. Shared("scheduler") \in live /\ Shared("router") \in live
    BY <2>1 DEF LifeInv, SharedOK, Threads
  <2>3. owner' = "stop" /\ live' = live
    BY <1>1, <2>1
  <2>4. CallsOK' /\ ReferencesOK'
    <3>1. /\ \A i : (Ready(i) => Ready(i)') /\ (CanReceive(i) => CanReceive(i)')
          /\ \A i : MayReport(i) => MayReport(i)'
          /\ \A th, c : CallOK(th, c) => CallOK(th, c)'
      BY <1>1, <1>4, <2>3, StaysReady, StaysOK DEF RoutesStay, SameSets
    <3> QED BY <1>1, <2>3, <3>1 DEF LifeInv, CallsOK, ReferencesOK, SameSets
  <2>5. SharedOK'
    BY <1>1, <2>3 DEF LifeInv, SharedOK
  <2>6. Progress'
    BY <2>3 DEF Progress, Initializing, AfterSession
  <2>7. OwnerInStep'
    BY <1>1, <2>1, <2>2, <2>3 DEF OwnerInStep, Initializing, AfterSession, AfterRtcp, AfterReceiver
  <2> QED BY <1>2, <1>3, <2>4, <2>5, <2>6, <2>7 DEF LifeInv
<1>5. CASE owner = "idle"
  <2>1. /\ ~has_started /\ initialized = {} /\ rtp_destinations = <<>> /\ rtcp_destinations = <<>>
        /\ \A th \in Threads : run[th] = "stopped" /\ queue[th] = <<>> /\ todo[th] = <<>>
        /\ delayed = {}
    BY <1>5 DEF LifeInv, OwnerInStep, StoppedIsEmpty, Progress, Threads
  <2>2. owner' = "destroyed" /\ live' = {}
    BY <1>1, <2>1
  <2>3. CallsOK' /\ ReferencesOK'
    BY <1>1, <2>1, EmptyCalls DEF CallsOK, ReferencesOK, SameSets
  <2>4. SharedOK'
    BY <1>1, <2>1, <2>2 DEF SharedOK
  <2>5. Progress'
    BY <1>1, <2>1, <2>2 DEF Progress, Initializing, AfterSession, SameSets
  <2>6. OwnerInStep'
    BY <1>1, <2>1, <2>2 DEF OwnerInStep, Initializing, AfterSession, AfterRtcp, AfterReceiver
  <2> QED BY <1>2, <1>3, <2>3, <2>4, <2>5, <2>6 DEF LifeInv
<1> QED BY <1>1, <1>4, <1>5

-----------------------------------------------------------------------------
(* The invariant, and the properties it gives *)

\* Before the first call of the user nothing runs and nothing is there.
LEMMA LifeInvAtFirst ==
  ASSUME Init
  PROVE  LifeInv
<1>1. ThreadsTypeOK
  BY EmptyCalls DEF Init, ThreadsTypeOK
<1>2. CallsOK /\ ReferencesOK
  BY EmptyCalls DEF Init, CallsOK, ReferencesOK
<1>3. SharedOK /\ StoppedIsEmpty /\ ConfigOK
  BY DEF Init, SharedOK, StoppedIsEmpty, ConfigOK
<1>4. Progress
  BY DEF Init, Progress, Initializing, AfterSession
<1>5. OwnerInStep
  BY DEF Init, OwnerInStep, Initializing, AfterSession, AfterRtcp, AfterReceiver
<1> QED BY <1>1, <1>2, <1>3, <1>4, <1>5 DEF LifeInv

\* A step of the network thread, the worker thread or the signaling thread.
LEMMA ThreadStepKeeps ==
  ASSUME LifeInv, UnreadOK, NetworkStep \/ WorkerStep \/ SignalingStep
  PROVE  LifeInv'
<1>1. \A th \in Threads : TakeTask(th) => LifeInv'
  BY TakeTaskKeeps
<1>2. "network" \in Threads /\ "worker" \in Threads /\ "signaling" \in Threads
  BY DEF Threads
<1>3. CASE NetworkStep
  BY <1>1, <1>2, <1>3, ReadSocketKeeps, PassToWorkerKeeps, SendToKeeps DEF NetworkStep
<1>4. CASE WorkerStep
  BY <1>1, <1>2, <1>4, DropRtpKeeps, RouteRtpKeeps, GetPacketsKeeps, RouteRtcpKeeps,
     AnswerNetworkKeeps, PassToSignalingKeeps, BeginReportKeeps, ScheduleSendRtcpKeeps,
     ScheduleNothingKeeps, ScheduleCrashesKeeps DEF WorkerStep
<1>5. CASE SignalingStep
  BY <1>1, <1>2, <1>5, CallBackKeeps, SendRtpKeeps DEF SignalingStep
<1> QED BY <1>3, <1>4, <1>5

\* A step of StartSession, its failed path or the destructor.
LEMMA OwnerStepKeeps ==
  ASSUME LifeInv, OwnerStep
  PROVE  LifeInv'
BY CreateTranceiverKeeps, CreateSessionKeeps, CreateRtcpKeeps, CreateRtpReceiverKeeps,
   AddRtpDstKeeps, AddRtcpDstKeeps, KeepSessionKeeps, ReturnStartedKeeps, FailInitializeKeeps,
   StopThreadKeeps, JoinThreadKeeps, ReleaseKeeps DEF OwnerStep

\* Every step keeps the invariant.
LEMMA LifeInvKept ==
  ASSUME LifeInv, UnreadOK, [Next]_vars
  PROVE  LifeInv'
<1>1. CASE NetworkStep \/ WorkerStep \/ SignalingStep
  BY <1>1, ThreadStepKeeps
<1>2. CASE OwnerStep
  BY <1>2, OwnerStepKeeps
<1>3. CASE StartSession \/ Destroy
  BY <1>3, StartSessionKeeps, DestroyKeeps
<1>4. CASE \E i \in DOMAIN config : SendRtpPacket(config[i].local)
  BY <1>4, SendRtpPacketKeeps
<1>5. CASE \E d \in Datagrams : Arrive(d)
  BY <1>5, ArriveKeeps
<1>6. CASE UNCHANGED vars
  <2>1. Settled /\ Pushes /\ todo' = todo /\ delayed' = delayed /\ queue' = queue
    BY <1>6 DEF vars, userVars, sessionVars, routerVars, threadVars, Settled, Pushes
  <2> QED BY <2>1, OnlyPushes
<1> QED BY <1>1, <1>2, <1>3, <1>4, <1>5, <1>6 DEF Next

\* The socket holds datagrams that arrived.
LEMMA UnreadKept ==
  ASSUME UnreadOK, [Next]_vars
  PROVE  UnreadOK'
<1>1. CASE \E d \in Datagrams : Arrive(d)
  BY <1>1, AppendProperties DEF Arrive, UnreadOK
<1>2. CASE ReadSocket
  BY <1>2 DEF ReadSocket, UnreadOK
<1>3. CASE UNCHANGED unread
  BY <1>3 DEF UnreadOK
<1>4. NetworkStep \/ SignalingStep => ReadSocket \/ UNCHANGED unread
  BY DEF NetworkStep, SignalingStep, TakeTask, PassToWorker, SendTo, CallBack, SendRtp, outsideVars
<1>5. WorkerStep => UNCHANGED unread
  BY DEF WorkerStep, TakeTask, DropRtp, RouteRtp, GetPackets, RouteRtcp, AnswerNetwork,
     PassToSignaling, BeginReport, ScheduleSendRtcp, ScheduleNothing, ScheduleCrashes, outsideVars
<1>6. OwnerStep => UNCHANGED unread
  BY DEF OwnerStep, CreateTranceiver, CreateSession, CreateRtcp, CreateRtpReceiver, AddRtpDst,
     AddRtcpDst, KeepSession, ReturnStarted, FailInitialize, StopThread, JoinThread, Release,
     outsideVars
<1>7. StartSession \/ Destroy => UNCHANGED unread
  BY DEF StartSession, Destroy, outsideVars
<1>8. \A ssrc : SendRtpPacket(ssrc) => UNCHANGED unread
  BY DEF SendRtpPacket
<1>9. UNCHANGED vars => UNCHANGED unread
  BY DEF vars, outsideVars
<1> QED BY <1>1, <1>2, <1>3, <1>4, <1>5, <1>6, <1>7, <1>8, <1>9 DEF Next

\* The invariant holds.
LEMMA LifeInvHolds == Spec => [](LifeInv /\ UnreadOK)
<1>1. Init => LifeInv /\ UnreadOK
  <2>1. Init => UnreadOK
    BY DEF Init, UnreadOK
  <2>2. Init => LifeInv
    BY LifeInvAtFirst
  <2> QED BY <2>1, <2>2
<1>2. LifeInv /\ UnreadOK /\ [Next]_vars => (LifeInv /\ UnreadOK)'
  BY LifeInvKept, UnreadKept
<1> QED BY <1>1, <1>2, PTL DEF Spec

\* What a call dereferences is what it needs, but for reports of freed senders.
LEMMA TouchedAreLive ==
  ASSUME LifeInv, NEW th \in Threads, NEW c, CallOK(th, c)
  PROVE  \/ Touched(th, c) \subseteq live
         \/ c.op = "ScheduleSendRtcp" /\ ReceiverRefused(config[c.session])
<1>1. CASE th = "network" /\ c.op \in {"Send", "OnRtp", "OnRtcp"}
  <2>1. Shared("tranceiver") \in live /\ Shared("router") \in live
    BY <1>1 DEF CallOK
  <2>2. Touched(th, c) = {Shared("tranceiver")} \/
        Touched(th, c) = {Shared("tranceiver"), Shared("router")}
    BY <1>1 DEF Touched
  <2> QED BY <2>1, <2>2
<1>2. CASE th = "worker" /\ c.op = "OnRtp"
  <2>1. Shared("router") \in live
    BY <1>2 DEF CallOK
  <2>2. \A k \in ToSet(rtp_destinations) : <<"rtp_receiver", k>> \in live
    BY DEF LifeInv, ReferencesOK, CanReceive
  <2>3. Touched(th, c) = {Shared("router")} \cup {<<"rtp_receiver", k>> : k \in ToSet(rtp_destinations)}
    BY <1>2 DEF Touched
  <2> QED BY <2>1, <2>2, <2>3
<1>3. CASE th = "worker" /\ c.op = "OnRtcp"
  <2>1. Shared("router") \in live
    BY <1>3 DEF CallOK
  <2>2. \A k \in ToSet(rtcp_destinations) : <<"rtcp_receiver", k>> \in live
    BY DEF LifeInv, ReferencesOK, Ready
  <2>3. Touched(th, c) = {Shared("router")} \cup {<<"rtcp_receiver", k>> : k \in ToSet(rtcp_destinations)}
    BY <1>3 DEF Touched
  <2> QED BY <2>1, <2>2, <2>3
<1>4. CASE th \in {"worker", "signaling"} /\ c.op = "OnRtpPacket"
  BY <1>4 DEF CallOK, Touched, Objects, CanReceive, Ready
<1>5. CASE th = "worker" /\ c.op \in {"NotifyLoss", "GetPackets"}
  BY <1>5 DEF CallOK, Touched, Objects, CanReceive, Ready
<1>6. CASE th = "worker" /\ c.op = "NotifyNackReceived"
  BY <1>6 DEF CallOK, Touched, Objects, Ready
<1>7. CASE th = "worker" /\ c.op = "ScheduleSendRtcp"
  BY <1>7 DEF CallOK, Touched, Objects, MayReport, Ready, Orphaned
<1>8. CASE th = "signaling" /\ c.op = "SendRtpPacket"
  BY <1>8 DEF CallOK, Touched, Objects, Ready
<1> QED BY <1>1, <1>2, <1>3, <1>4, <1>5, <1>6, <1>7, <1>8 DEF CallOK

\* No thread calls into an object that was destroyed or never made, however many
\* sessions there are, whichever of them fails to start and whenever the destructor
\* is called (media_session.cc, qosrtp_session_impl.cc): all but the reports of a
\* session whose receiver was refused for its cache after its report was pushed.
THEOREM LiveObjectsOnly == Spec => []OnlyLiveObjectsCalled
<1>1. LifeInv => OnlyLiveObjectsCalled
  <2> SUFFICES ASSUME LifeInv PROVE OnlyLiveObjectsCalled
    OBVIOUS
  <2>1. \A th \in Threads : todo[th] # <<>> =>
          \/ Touched(th, Head(todo[th])) \subseteq live
          \/ /\ Head(todo[th]).op = "ScheduleSendRtcp"
             /\ ReceiverRefused(config[Head(todo[th]).session])
    BY NextCallOK, TouchedAreLive
  <2>2. run["network"] # "stopped" => Shared("scheduler") \in live
    BY DEF LifeInv, SharedOK, Threads
  <2> QED BY <2>1, <2>2 DEF OnlyLiveObjectsCalled
<1> QED BY <1>1, LifeInvHolds, PTL

\* StartSession leaves every media session initialized and routed, or nothing,
\* wherever it fails: at the tranceiver, at an RtpSender, at an RtpReceiver.
THEOREM StartIsAllOrNothing == Spec => []AllOrNothing
<1>1. LifeInv => AllOrNothing
  <2> SUFFICES ASSUME LifeInv PROVE AllOrNothing
    OBVIOUS
  <2>1. CASE owner = "started"
    <3>1. /\ at - 1 = Len(config) /\ DOMAIN config = 1..Len(config)
          /\ initialized = 1..(at - 1) /\ ToSet(rtcp_destinations) = 1..(at - 1)
          /\ ToSet(rtp_destinations) = {i \in 1..(at - 1) : Receives(config[i])}
      BY <2>1 DEF LifeInv, Progress, ConfigOK, ThreadsTypeOK
    <3>2. \A th \in Threads : run[th] = "running"
      BY <2>1 DEF LifeInv, OwnerInStep
    <3> QED BY <2>1, <3>1, <3>2 DEF AllOrNothing
  <2>2. CASE owner \in {"idle", "destroyed"}
    BY <2>2 DEF LifeInv, OwnerInStep, StoppedIsEmpty, Progress, AllOrNothing, Threads
  <2>3. CASE owner \notin {"started", "idle", "destroyed"}
    BY <2>3 DEF AllOrNothing
  <2> QED BY <2>1, <2>2, <2>3
<1> QED BY <1>1, LifeInvHolds, PTL

-----------------------------------------------------------------------------
(* The order of the packets on their way to the user *)

Before(S, T) == \A s \in S, t \in T : s < t

\* Of the batches in C and D, those of the same session come in this order.
Ahead(C, D) == \A c \in C, d \in D : c.session = d.session => Before(c.batch, d.batch)

\* The calls with packets for the user, and those of a task.
ForUser(c) == c.op = "OnRtpPacket"
UserCalls(s) == {c \in ToSet(s) : ForUser(c)}

\* The batches of a queue come in order; a task has such a call only as its next one.
Rising(s) ==
  \A j, k \in DOMAIN s :
    j < k /\ ForUser(s[j]) /\ ForUser(s[k]) /\ s[j].session = s[k].session =>
      Before(s[j].batch, s[k].batch)
NextOnly(s) == \A k \in DOMAIN s : ForUser(s[k]) => k = 1

\* What was given since this start, and the batches on their way, the first to come last.
GivenNow == {given[k] : k \in {j \in DOMAIN given : given[j].start = starts}}
Calling == UserCalls(todo["signaling"])
Queued == UserCalls(queue["signaling"])
Giving == UserCalls(todo["worker"])

\* No packet of the batches is after the last one its receiver gave out.
BoundedBy(latest, C) ==
  \A c \in C : c.session \in Sessions /\ \A n \in c.batch : n \in Nat /\ n <= latest[c.session]

CountsOK ==
  /\ starts \in Nat /\ IsSequence(given)
  /\ \A k \in DOMAIN given : given[k].start \in Nat /\ given[k].start <= starts

\* A receiver keeps what is after all it gave out.
CachesOK ==
  /\ latest_callback \in [Sessions -> Nat] /\ cached_packets \in [Sessions -> SUBSET Nat]
  /\ \A i \in Sessions : \A n \in cached_packets[i] : latest_callback[i] < n

StagesOK ==
  /\ Rising(queue["signaling"]) /\ UserCalls(queue["worker"]) = {}
  /\ NextOnly(todo["signaling"]) /\ NextOnly(todo["worker"])
  /\ Ahead(GivenNow, Calling) /\ Ahead(GivenNow, Queued) /\ Ahead(GivenNow, Giving)
  /\ Ahead(Calling, Queued) /\ Ahead(Calling, Giving) /\ Ahead(Queued, Giving)
  /\ BoundedBy(latest_callback, Calling \cup Queued \cup Giving)
  /\ owner \in {"idle", "destroyed"} \/ BoundedBy(latest_callback, GivenNow)

\* The inductive invariant, given LifeInv.
OrderInv == CountsOK /\ CachesOK /\ StagesOK /\ GivenInOrder

\* What a sequence of calls is.
LEMMA ListFacts ==
  ASSUME NEW s, IsSequence(s)
  PROVE  /\ Len(s) \in Nat /\ DOMAIN s = 1..Len(s)
         /\ ToSet(s) = {s[k] : k \in 1..Len(s)}
         /\ s # <<>> => Len(s) > 0 /\ Head(s) = s[1]
         /\ s # <<>> => IsSequence(Tail(s)) /\ DOMAIN Tail(s) = 1..(Len(s) - 1)
         /\ s # <<>> => \A k \in 1..(Len(s) - 1) : Tail(s)[k] = s[k + 1]
<1>1. PICK S : s \in Seq(S)
  BY DEF IsSequence
<1>2. Len(s) \in Nat /\ DOMAIN s = 1..Len(s)
  BY <1>1
<1>3. ASSUME s # <<>>
      PROVE  /\ Len(s) > 0 /\ Head(s) = s[1] /\ IsSequence(Tail(s))
             /\ DOMAIN Tail(s) = 1..(Len(s) - 1)
             /\ \A k \in 1..(Len(s) - 1) : Tail(s)[k] = s[k + 1]
  <2>1. Len(s) > 0 /\ Head(s) = s[1]
    BY <1>1, <1>3, EmptySeq
  <2>2. Tail(s) \in Seq(S) /\ Len(Tail(s)) = Len(s) - 1
        /\ \A k \in 1..Len(Tail(s)) : Tail(s)[k] = s[k + 1]
    BY <1>1, <1>3, HeadTailProperties
  <2> QED BY <2>1, <2>2 DEF IsSequence
<1> QED BY <1>2, <1>3 DEF ToSet

\* What an appended sequence is.
LEMMA AppendFacts ==
  ASSUME NEW s, IsSequence(s), NEW c
  PROVE  /\ IsSequence(Append(s, c)) /\ DOMAIN Append(s, c) = 1..(Len(s) + 1)
         /\ \A k \in 1..Len(s) : Append(s, c)[k] = s[k]
         /\ Append(s, c)[Len(s) + 1] = c
<1>1. PICK S : s \in Seq(S)
  BY DEF IsSequence
<1>2. s \in Seq(S \cup {c}) /\ Len(s) \in Nat
  BY <1>1, SeqMonotonic
<1>3. Append(s, c) \in Seq(S \cup {c}) /\ Len(Append(s, c)) = Len(s) + 1
      /\ \A i \in 1..(Len(s) + 1) : Append(s, c)[i] = IF i <= Len(s) THEN s[i] ELSE c
  BY <1>2, AppendProperties
<1> QED BY <1>2, <1>3 DEF IsSequence

\* A task without packets for the user has none as a later call.
LEMMA NoneIsNextOnly ==
  ASSUME NEW s, UserCalls(s) = {}
  PROVE  NextOnly(s)
BY DEF UserCalls, NextOnly, ToSet

\* The calls after the next one have none.
LEMMA NoneAfterNext ==
  ASSUME NEW s, IsSequence(s), s # <<>>, NextOnly(s)
  PROVE  IsSequence(Tail(s)) /\ UserCalls(Tail(s)) = {}
<1>1. /\ IsSequence(Tail(s)) /\ Len(s) \in Nat
      /\ DOMAIN Tail(s) = 1..(Len(s) - 1) /\ DOMAIN s = 1..Len(s)
      /\ \A k \in 1..(Len(s) - 1) : Tail(s)[k] = s[k + 1]
  BY ListFacts
<1>2. \A k \in DOMAIN Tail(s) : k + 1 \in DOMAIN s /\ k + 1 # 1 /\ Tail(s)[k] = s[k + 1]
  BY <1>1
<1> QED BY <1>1, <1>2 DEF NextOnly, UserCalls, ToSet

\* A step that gives the user nothing and has nothing new on the way.
LEMMA NothingNew ==
  ASSUME OrderInv, CachesOK', UNCHANGED <<latest_callback, given, starts>>,
         Calling' \subseteq Calling, Queued' \subseteq Queued, Giving' \subseteq Giving,
         Rising(queue'["signaling"]), UserCalls(queue'["worker"]) = {},
         NextOnly(todo'["signaling"]), NextOnly(todo'["worker"]),
         owner \in {"idle", "destroyed"} => owner' \in {"idle", "destroyed"}
  PROVE  OrderInv'
<1>1. GivenNow' = GivenNow /\ latest_callback' = latest_callback
  BY DEF GivenNow
<1>2. StagesOK'
  <2>1. /\ Ahead(GivenNow, Calling)' /\ Ahead(GivenNow, Queued)' /\ Ahead(GivenNow, Giving)'
        /\ Ahead(Calling, Queued)' /\ Ahead(Calling, Giving)' /\ Ahead(Queued, Giving)'
    BY <1>1 DEF OrderInv, StagesOK, Ahead
  <2>2. BoundedBy(latest_callback, Calling \cup Queued \cup Giving)'
    BY <1>1 DEF OrderInv, StagesOK, BoundedBy
  <2>3. owner' \in {"idle", "destroyed"} \/ BoundedBy(latest_callback, GivenNow)'
    BY <1>1 DEF OrderInv, StagesOK
  <2> QED BY <2>1, <2>2, <2>3 DEF StagesOK
<1>3. CountsOK' /\ GivenInOrder'
  BY DEF OrderInv, CountsOK, GivenInOrder
<1> QED BY <1>2, <1>3 DEF OrderInv

\* A thread makes a call and goes on without packets for the user.
LEMMA TodoMoves ==
  ASSUME LifeInv, OrderInv, NEW th \in Threads, todo[th] # <<>>,
         NEW cs, IsSequence(cs), UserCalls(cs) = {}, Continue(th, cs)
  PROVE  /\ Calling' \subseteq Calling /\ NextOnly(todo'["signaling"])
         /\ Giving' \subseteq Giving /\ NextOnly(todo'["worker"])
         /\ th = "signaling" => Calling' = {}
         /\ th = "worker" => Giving' = {}
<1>1. /\ todo = [t \in Threads |-> todo[t]] /\ IsSequence(todo[th])
      /\ todo' = [todo EXCEPT ![th] = cs \o Tail(todo[th])]
  BY DEF LifeInv, ThreadsTypeOK, Continue
<1>2. \A t \in Threads : todo'[t] = IF t = th THEN cs \o Tail(todo[th]) ELSE todo[t]
  BY <1>1
<1>3. NextOnly(todo["signaling"]) /\ NextOnly(todo["worker"])
  BY DEF OrderInv, StagesOK
<1>4. th \in {"signaling", "worker"} => UserCalls(cs \o Tail(todo[th])) = {}
  <2> SUFFICES ASSUME th \in {"signaling", "worker"}
               PROVE  UserCalls(cs \o Tail(todo[th])) = {}
    OBVIOUS
  <2>1. IsSequence(Tail(todo[th])) /\ UserCalls(Tail(todo[th])) = {}
    BY <1>1, <1>3, NoneAfterNext
  <2>2. ToSet(cs \o Tail(todo[th])) = ToSet(cs) \cup ToSet(Tail(todo[th]))
    BY <2>1, CallsBefore
  <2> QED BY <2>1, <2>2 DEF UserCalls
<1>5. \A t \in {"signaling", "worker"} :
        /\ UserCalls(todo'[t]) = IF t = th THEN {} ELSE UserCalls(todo[t])
        /\ NextOnly(todo'[t])
  BY <1>2, <1>3, <1>4, NoneIsNextOnly DEF Threads
<1> QED BY <1>5 DEF Calling, Giving

\* A push to another thread leaves the queue of the signaling thread as it is.
LEMMA PushedElsewhere ==
  ASSUME LifeInv, NEW th \in Threads, NEW c
  PROVE  \A t \in Threads : t # th => Pushed(th, c)[t] = queue[t]
<1>1. queue = [t \in Threads |-> queue[t]]
  BY DEF LifeInv, ThreadsTypeOK
<1> QED BY <1>1 DEF Pushed

\* The step of a thread that gives the user nothing and pushes nothing for the user.
LEMMA QuietStep ==
  ASSUME LifeInv, OrderInv, NEW th \in Threads, todo[th] # <<>>,
         NEW cs, IsSequence(cs), UserCalls(cs) = {}, Continue(th, cs),
         CachesOK', UNCHANGED <<latest_callback, given, starts, owner>>,
         queue'["signaling"] = queue["signaling"], queue'["worker"] = queue["worker"]
  PROVE  OrderInv'
<1>1. /\ Calling' \subseteq Calling /\ NextOnly(todo'["signaling"])
      /\ Giving' \subseteq Giving /\ NextOnly(todo'["worker"])
  BY TodoMoves
<1>2. Queued' = Queued /\ Rising(queue'["signaling"]) /\ UserCalls(queue'["worker"]) = {}
  BY DEF Queued, OrderInv, StagesOK
<1> QED BY <1>1, <1>2, NothingNew

\* What a step that leaves the caches alone leaves of them.
LEMMA CachesStay ==
  ASSUME OrderInv, UNCHANGED receiverVars
  PROVE  CachesOK' /\ latest_callback' = latest_callback
BY DEF OrderInv, CachesOK, receiverVars

\* A call made with nothing to follow, and at most a push to the network thread.
LEMMA CallEnds ==
  ASSUME LifeInv, OrderInv, NEW th \in Threads, todo[th] # <<>>, Continue(th, <<>>),
         UNCHANGED <<receiverVars, given, starts, owner>>,
         queue' = queue \/ \E c : queue' = Pushed("network", c)
  PROVE  OrderInv'
<1>1. IsSequence(<<>>) /\ UserCalls(<<>>) = {}
  BY EmptyCalls DEF UserCalls
<1>2. "network" \in Threads /\ "signaling" \in Threads /\ "worker" \in Threads
  BY DEF Threads
<1>3. queue'["signaling"] = queue["signaling"] /\ queue'["worker"] = queue["worker"]
  BY <1>2, PushedElsewhere
<1>4. CachesOK' /\ latest_callback' = latest_callback
  BY CachesStay
<1> QED BY <1>1, <1>3, <1>4, QuietStep

\* The rest of a batch is no packets for the user.
LEMMA RestIsQuiet ==
  ASSUME NEW call, CallOK("worker", call), call.op \in {"OnRtp", "OnRtcp"}
  PROVE  IsSequence(Rest(call)) /\ UserCalls(Rest(call)) = {}
<1> DEFINE rest == Call(call.op, call.session, Tail(call.packets))
<1>1. ~ForUser(rest)
  BY DEF ForUser, Call
<1> HIDE DEF rest
<1>2. Rest(call) = <<>> \/ Rest(call) = <<rest>>
  BY DEF Rest, rest
<1>3. UserCalls(Rest(call)) = {}
  BY <1>1, <1>2, EmptyCalls, OneCall DEF UserCalls
<1> QED BY <1>3, RestOK

\* A sequence of one call, and the rest after it.
LEMMA QuietCallBefore ==
  ASSUME NEW c, ~ForUser(c), NEW rest, IsSequence(rest), UserCalls(rest) = {}
  PROVE  IsSequence(<<c>> \o rest) /\ UserCalls(<<c>> \o rest) = {}
<1>1. IsSequence(<<c>>) /\ ToSet(<<c>>) = {c}
  BY OneCall
<1>2. IsSequence(<<c>> \o rest) /\ ToSet(<<c>> \o rest) = ToSet(<<c>>) \cup ToSet(rest)
  BY <1>1, CallsBefore
<1> QED BY <1>1, <1>2 DEF UserCalls

-----------------------------------------------------------------------------
(* Steps of the threads *)

\* A thread takes a task: the signaling thread the oldest batch of its queue.
LEMMA TakeTaskInOrder ==
  ASSUME LifeInv, OrderInv, NEW th \in Threads, TakeTask(th)
  PROVE  OrderInv'
<1> DEFINE q == queue[th]
<1>1. /\ todo[th] = <<>> /\ q # <<>>
      /\ todo' = [todo EXCEPT ![th] = <<Head(q)>>] /\ queue' = [queue EXCEPT ![th] = Tail(q)]
      /\ UNCHANGED <<receiverVars, given, starts, owner>>
  BY DEF TakeTask, Idle, userVars, sessionVars, outsideVars
<1>2. /\ todo = [t \in Threads |-> todo[t]] /\ queue = [t \in Threads |-> queue[t]]
      /\ IsSequence(q)
  BY DEF LifeInv, ThreadsTypeOK
<1> HIDE DEF q
<1>3. \A t \in Threads : /\ todo'[t] = IF t = th THEN <<Head(q)>> ELSE todo[t]
                         /\ queue'[t] = IF t = th THEN Tail(q) ELSE queue[t]
  BY <1>1, <1>2
<1>4. /\ Len(q) \in Nat /\ DOMAIN q = 1..Len(q) /\ Len(q) > 0 /\ Head(q) = q[1]
      /\ DOMAIN Tail(q) = 1..(Len(q) - 1) /\ \A k \in 1..(Len(q) - 1) : Tail(q)[k] = q[k + 1]
  BY <1>1, <1>2, ListFacts
<1>5. Head(q) \in ToSet(q) /\ ToSet(Tail(q)) \subseteq ToSet(q) /\ ToSet(<<Head(q)>>) = {Head(q)}
  BY <1>1, <1>2, FirstCall, OneCall
<1>6. NextOnly(<<Head(q)>>)
  <2>1. DOMAIN <<Head(q)>> = {1}
    OBVIOUS
  <2> QED BY <2>1 DEF NextOnly
<1>7. CachesOK' /\ latest_callback' = latest_callback
  BY <1>1, CachesStay
<1>8. UserCalls(queue["worker"]) = {}
  BY DEF OrderInv, StagesOK
<1>9. CASE th # "signaling"
  <2>1. Queued' = Queued /\ Calling' = Calling /\ Rising(queue'["signaling"])
        /\ NextOnly(todo'["signaling"])
    BY <1>3, <1>9 DEF Queued, Calling, Threads, OrderInv, StagesOK
  <2>2. UserCalls(queue'["worker"]) = {} /\ Giving' \subseteq Giving /\ NextOnly(todo'["worker"])
    <3>1. CASE th = "worker"
      <4>1. UserCalls(<<Head(q)>>) = {} /\ UserCalls(Tail(q)) = {}
        BY <1>5, <1>8, <3>1 DEF UserCalls, q
      <4> QED BY <1>3, <1>6, <3>1, <4>1 DEF Giving, Threads
    <3>2. CASE th # "worker"
      BY <1>3, <1>8, <3>2 DEF Giving, Threads, OrderInv, StagesOK
    <3> QED BY <3>1, <3>2
  <2> QED BY <1>1, <1>7, <2>1, <2>2, NothingNew
<1>10. CASE th = "signaling"
  <2> DEFINE c == Head(q)
  <2>1. /\ Calling' = {d \in {c} : ForUser(d)} /\ Queued' = UserCalls(Tail(q))
        /\ Queued = UserCalls(q) /\ Giving' = Giving
        /\ NextOnly(todo'["signaling"]) /\ NextOnly(todo'["worker"])
        /\ UserCalls(queue'["worker"]) = {} /\ queue'["signaling"] = Tail(q)
    BY <1>3, <1>5, <1>6, <1>8, <1>10 DEF Calling, Queued, Giving, UserCalls, Threads, q, OrderInv, StagesOK
  <2>2. Calling' \subseteq Queued /\ Queued' \subseteq Queued
    BY <1>5, <2>1 DEF UserCalls
  <2>3. Rising(q)
    BY <1>10 DEF OrderInv, StagesOK, q
  <2>4. \A k \in DOMAIN Tail(q) : k + 1 \in DOMAIN q /\ 1 \in DOMAIN q /\ 1 < k + 1 /\ Tail(q)[k] = q[k + 1]
    BY <1>4
  <2>5. \A j, k \in DOMAIN Tail(q) : j < k => j + 1 < k + 1
    BY <1>4
  <2>6. Rising(Tail(q))
    BY <2>3, <2>4, <2>5 DEF Rising
  <2>7. Ahead(Calling', Queued')
    <3> SUFFICES ASSUME NEW k \in DOMAIN Tail(q), ForUser(c), ForUser(Tail(q)[k]),
                        c.session = Tail(q)[k].session
                 PROVE  Before(c.batch, Tail(q)[k].batch)
      BY <2>1 DEF Ahead, UserCalls, ToSet
    <3>1. c = q[1]
      BY <1>4
    <3> HIDE DEF c
    <3> QED BY <2>3, <2>4, <3>1 DEF Rising
  <2> HIDE DEF c
  <2>8. GivenNow' = GivenNow
    BY <1>1 DEF GivenNow
  <2>9. /\ Ahead(GivenNow, Calling)' /\ Ahead(GivenNow, Queued)' /\ Ahead(GivenNow, Giving)'
        /\ Ahead(Calling, Queued)' /\ Ahead(Calling, Giving)' /\ Ahead(Queued, Giving)'
    BY <2>1, <2>2, <2>7, <2>8 DEF OrderInv, StagesOK, Ahead
  <2>10. BoundedBy(latest_callback, Calling \cup Queued \cup Giving)'
    BY <1>7, <2>1, <2>2 DEF OrderInv, StagesOK, BoundedBy
  <2>11. owner' \in {"idle", "destroyed"} \/ BoundedBy(latest_callback, GivenNow)'
    BY <1>1, <1>7, <2>8 DEF OrderInv, StagesOK
  <2>12. StagesOK'
    BY <2>1, <2>6, <2>9, <2>10, <2>11 DEF StagesOK
  <2>13. CountsOK' /\ GivenInOrder'
    BY <1>1 DEF OrderInv, CountsOK, GivenInOrder
  <2> QED BY <1>7, <2>12, <2>13 DEF OrderInv
<1> QED BY <1>9, <1>10

\* The network thread reads, passes on and sends.
LEMMA NetworkInOrder ==
  ASSUME LifeInv, OrderInv, ReadSocket \/ PassToWorker \/ SendTo
  PROVE  OrderInv'
<1>1. "network" \in Threads /\ "signaling" \in Threads /\ "worker" \in Threads
  BY DEF Threads
<1>2. CASE ReadSocket
  <2>1. /\ \E cs : todo' = [todo EXCEPT !["network"] = cs]
        /\ queue' = queue /\ UNCHANGED <<receiverVars, given, starts, owner>>
    BY <1>2 DEF ReadSocket, userVars, sessionVars
  <2>2. todo'["signaling"] = todo["signaling"] /\ todo'["worker"] = todo["worker"]
    BY <1>1, <2>1 DEF LifeInv, ThreadsTypeOK
  <2>3. CachesOK' /\ latest_callback' = latest_callback
    BY <2>1, CachesStay
  <2>4. /\ Calling' = Calling /\ Queued' = Queued /\ Giving' = Giving
        /\ Rising(queue'["signaling"]) /\ UserCalls(queue'["worker"]) = {}
        /\ NextOnly(todo'["signaling"]) /\ NextOnly(todo'["worker"])
    BY <2>1, <2>2 DEF Calling, Queued, Giving, OrderInv, StagesOK
  <2> QED BY <2>1, <2>3, <2>4, NothingNew
<1>3. CASE PassToWorker
  <2> DEFINE call == Head(todo["network"])
  <2>1. /\ queue' = Pushed("worker", call) /\ call.op \in {"OnRtp", "OnRtcp"}
        /\ todo["network"] # <<>> /\ Continue("network", <<>>)
        /\ UNCHANGED <<receiverVars, given, starts, owner>>
    BY <1>3 DEF PassToWorker, Running, userVars, sessionVars, outsideVars
  <2>2. queue'["signaling"] = queue["signaling"]
    BY <1>1, <2>1, PushedElsewhere
  <2>3. UserCalls(queue'["worker"]) = {}
    <3>1. queue = [t \in Threads |-> queue[t]] /\ IsSequence(queue["worker"])
      BY <1>1 DEF LifeInv, ThreadsTypeOK
    <3>2. queue'["worker"] = queue["worker"] \/ queue'["worker"] = Append(queue["worker"], call)
      BY <1>1, <2>1, <3>1 DEF Pushed
    <3>3. ToSet(queue'["worker"]) \subseteq ToSet(queue["worker"]) \cup {call}
      BY <3>1, <3>2, PushedCall
    <3>4. UserCalls(queue["worker"]) = {} /\ ~ForUser(call)
      BY <2>1 DEF OrderInv, StagesOK, ForUser
    <3> QED BY <3>3, <3>4 DEF UserCalls
  <2>4. IsSequence(<<>>) /\ UserCalls(<<>>) = {}
    BY EmptyCalls DEF UserCalls
  <2>5. /\ Calling' \subseteq Calling /\ NextOnly(todo'["signaling"])
        /\ Giving' \subseteq Giving /\ NextOnly(todo'["worker"])
    BY <1>1, <2>1, <2>4, TodoMoves
  <2>6. CachesOK' /\ latest_callback' = latest_callback
    BY <2>1, CachesStay
  <2>7. Queued' = Queued /\ Rising(queue'["signaling"])
    BY <2>2 DEF Queued, OrderInv, StagesOK
  <2> QED BY <2>1, <2>3, <2>5, <2>6, <2>7, NothingNew
<1>4. CASE SendTo
  BY <1>1, <1>4, CallEnds DEF SendTo, Running, userVars, sessionVars, outsideVars
<1> QED BY <1>2, <1>3, <1>4

\* A packet is dropped, or cached after all that was given out.
LEMMA RouteRtpInOrder ==
  ASSUME LifeInv, OrderInv, DropRtp \/ RouteRtp
  PROVE  OrderInv'
<1> DEFINE call == Head(todo["worker"])
           p == Head(call.packets)
           rest == Rest(call)
           get(k) == Call("GetPackets", rtp_destinations[k], <<>>)
           loss(k) == Call("NotifyLoss", rtp_destinations[k], <<>>)
<1>1. /\ todo["worker"] # <<>> /\ call.op = "OnRtp" /\ "worker" \in Threads
      /\ UNCHANGED <<latest_callback, given, starts, owner, queue>>
  BY DEF DropRtp, RouteRtp, Running, userVars, sessionVars, receiverVars, outsideVars, Threads
<1>2. CallOK("worker", call)
  BY <1>1, NextCallOK
<1>3. IsSequence(rest) /\ UserCalls(rest) = {}
  BY <1>1, <1>2, RestIsQuiet
<1>4. CASE DropRtp
  <2>1. Continue("worker", rest) /\ UNCHANGED receiverVars
    BY <1>4 DEF DropRtp, sessionVars
  <2>2. CachesOK'
    BY <2>1, CachesStay
  <2> HIDE DEF rest
  <2> QED BY <1>1, <1>3, <2>1, <2>2, QuietStep
<1>5. CASE RouteRtp
  <2>1. PICK k \in Destination(p) :
          /\ cached_packets' = PutPacket(rtp_destinations[k], p.position)
          /\ \/ Continue("worker", <<get(k)>> \o rest)
             \/ Continue("worker", <<loss(k)>> \o (<<get(k)>> \o rest))
    BY <1>5 DEF RouteRtp
  <2>2. p.position \in Nat
    <3>1. call.packets \in Seq(Datagrams) /\ call.packets # <<>>
      BY <1>1, <1>2 DEF CallOK
    <3>2. p \in Datagrams
      BY <3>1, HeadTailProperties
    <3> QED BY <3>2, DatagramsAssumption
  <2>3. rtp_destinations[k] \in Sessions
    BY DEF Destination, ToSet, LifeInv, ReferencesOK, CanReceive
  <2>4. ~ForUser(get(k)) /\ ~ForUser(loss(k))
    BY DEF ForUser, Call
  <2> HIDE DEF call, p, rest, get, loss
  <2>5. CachesOK'
    <3> DEFINE i == rtp_destinations[k]
               n == p.position
    <3>1. /\ latest_callback \in [Sessions -> Nat] /\ cached_packets \in [Sessions -> SUBSET Nat]
          /\ \A j \in Sessions : \A m \in cached_packets[j] : latest_callback[j] < m
      BY DEF OrderInv, CachesOK
    <3>2. i \in Sessions /\ n \in Nat /\ latest_callback[i] \in Nat
          /\ cached_packets' = IF n <= latest_callback[i] THEN cached_packets
                               ELSE [cached_packets EXCEPT ![i] = cached_packets[i] \cup {n}]
      BY <2>1, <2>2, <2>3, <3>1 DEF PutPacket
    <3> HIDE DEF i, n
    <3>3. CASE n <= latest_callback[i]
      BY <1>1, <3>1, <3>2, <3>3 DEF CachesOK
    <3>4. CASE ~(n <= latest_callback[i])
      <4>1. cached_packets' = [cached_packets EXCEPT ![i] = cached_packets[i] \cup {n}]
            /\ latest_callback[i] < n
        BY <3>2, <3>4
      <4>2. /\ cached_packets' \in [Sessions -> SUBSET Nat]
            /\ \A j \in Sessions : cached_packets'[j] =
                 IF j = i THEN cached_packets[i] \cup {n} ELSE cached_packets[j]
        BY <3>1, <3>2, <4>1
      <4>3. \A j \in Sessions : \A m \in cached_packets'[j] : latest_callback[j] < m
        BY <3>1, <4>1, <4>2
      <4> QED BY <1>1, <3>1, <4>2, <4>3 DEF CachesOK
    <3> QED BY <3>3, <3>4
  <2>6. IsSequence(<<get(k)>> \o rest) /\ UserCalls(<<get(k)>> \o rest) = {}
    BY <1>3, <2>4, QuietCallBefore
  <2>7. /\ IsSequence(<<loss(k)>> \o (<<get(k)>> \o rest))
        /\ UserCalls(<<loss(k)>> \o (<<get(k)>> \o rest)) = {}
    BY <2>4, <2>6, QuietCallBefore
  <2>8. CASE Continue("worker", <<get(k)>> \o rest)
    BY <1>1, <2>5, <2>6, <2>8, QuietStep
  <2>9. CASE Continue("worker", <<loss(k)>> \o (<<get(k)>> \o rest))
    BY <1>1, <2>5, <2>7, <2>9, QuietStep
  <2> QED BY <2>1, <2>8, <2>9
<1> QED BY <1>4, <1>5

\* The packets given out are after all that was, and before all that is kept.
LEMMA GetPacketsInOrder ==
  ASSUME LifeInv, OrderInv, GetPackets
  PROVE  OrderInv'
<1> DEFINE call == Head(todo["worker"])
           i == call.session
           batch(last) == {n \in cached_packets[i] : n <= last}
<1>1. /\ todo["worker"] # <<>> /\ call.op = "GetPackets" /\ "worker" \in Threads
      /\ UNCHANGED <<given, starts, owner, queue>>
      /\ \E last \in cached_packets[i] \cup {latest_callback[i]} :
           /\ cached_packets' = [cached_packets EXCEPT ![i] = {n \in cached_packets[i] : n > last}]
           /\ latest_callback' = [latest_callback EXCEPT ![i] = last]
           /\ Continue("worker", IF last = latest_callback[i] THEN <<>> ELSE <<Give(i, batch(last))>>)
  BY DEF GetPackets, Running, userVars, outsideVars, Threads
<1>2. CallOK("worker", call)
  BY <1>1, NextCallOK
<1>3. i \in Sessions
  BY <1>1, <1>2 DEF CallOK, CanReceive
<1>4. PICK last \in cached_packets[i] \cup {latest_callback[i]} :
        /\ cached_packets' = [cached_packets EXCEPT ![i] = {n \in cached_packets[i] : n > last}]
        /\ latest_callback' = [latest_callback EXCEPT ![i] = last]
        /\ Continue("worker", IF last = latest_callback[i] THEN <<>> ELSE <<Give(i, batch(last))>>)
  BY <1>1
<1> HIDE DEF call, i
<1>5. /\ latest_callback \in [Sessions -> Nat] /\ cached_packets \in [Sessions -> SUBSET Nat]
      /\ \A j \in Sessions : \A m \in cached_packets[j] : latest_callback[j] < m
  BY DEF OrderInv, CachesOK
<1>6. last \in Nat /\ latest_callback[i] \in Nat /\ latest_callback[i] <= last
  BY <1>3, <1>4, <1>5
<1>7. /\ latest_callback' \in [Sessions -> Nat] /\ cached_packets' \in [Sessions -> SUBSET Nat]
      /\ \A j \in Sessions : latest_callback'[j] = IF j = i THEN last ELSE latest_callback[j]
      /\ \A j \in Sessions : cached_packets'[j] =
           IF j = i THEN {n \in cached_packets[i] : n > last} ELSE cached_packets[j]
  BY <1>3, <1>4, <1>5, <1>6
<1>8. CachesOK'
  <2>1. \A j \in Sessions : \A m \in cached_packets'[j] : latest_callback'[j] < m
    BY <1>3, <1>5, <1>6, <1>7
  <2> QED BY <1>7, <2>1 DEF CachesOK
<1>9. \A C : BoundedBy(latest_callback, C) => BoundedBy(latest_callback', C)
  <2> SUFFICES ASSUME NEW C, BoundedBy(latest_callback, C), NEW c \in C, NEW n \in c.batch
               PROVE  c.session \in Sessions /\ n \in Nat /\ n <= latest_callback'[c.session]
    BY DEF BoundedBy
  <2>1. c.session \in Sessions /\ n \in Nat /\ n <= latest_callback[c.session]
    BY DEF BoundedBy
  <2> QED BY <1>5, <1>6, <1>7, <2>1
<1>10. owner \notin {"idle", "destroyed"}
  BY <1>1 DEF LifeInv, StoppedIsEmpty, OwnerInStep
<1>11. BoundedBy(latest_callback, GivenNow)
       /\ BoundedBy(latest_callback, Calling \cup Queued \cup Giving)
  BY <1>10 DEF OrderInv, StagesOK
<1> DEFINE g == Give(i, batch(last))
<1>12. /\ ForUser(g) /\ g.session = i /\ g.batch = {n \in cached_packets[i] : n <= last}
  BY DEF Give, ForUser
<1> HIDE DEF g
<1>13. \A n \in g.batch : n \in Nat /\ latest_callback[i] < n /\ n <= last
  BY <1>3, <1>5, <1>12
<1>14. BoundedBy(latest_callback', {g})
  BY <1>3, <1>7, <1>12, <1>13 DEF BoundedBy
<1>15. \A C : BoundedBy(latest_callback, C) => Ahead(C, {g})
  <2> SUFFICES ASSUME NEW C, BoundedBy(latest_callback, C), NEW c \in C, c.session = g.session,
                      NEW n \in c.batch, NEW m \in g.batch
               PROVE  n < m
    BY DEF Ahead, Before
  <2>1. n \in Nat /\ n <= latest_callback[i]
    BY <1>12 DEF BoundedBy
  <2> QED BY <1>6, <1>13, <2>1
<1>16. Giving' \subseteq {g} /\ NextOnly(todo'["worker"])
       /\ Calling' = Calling /\ NextOnly(todo'["signaling"])
  <2>1. /\ todo = [t \in Threads |-> todo[t]] /\ IsSequence(todo["worker"])
        /\ NextOnly(todo["worker"]) /\ NextOnly(todo["signaling"])
    BY <1>1 DEF LifeInv, ThreadsTypeOK, OrderInv, StagesOK
  <2>2. IsSequence(Tail(todo["worker"])) /\ UserCalls(Tail(todo["worker"])) = {}
    BY <1>1, <2>1, NoneAfterNext
  <2> DEFINE t == Tail(todo["worker"])
             cs == IF last = latest_callback[i] THEN <<>> ELSE <<g>>
  <2>3. /\ todo' = [todo EXCEPT !["worker"] = cs \o t]
    BY <1>4 DEF Continue, g
  <2>4. cs = <<>> \/ cs = <<g>>
    OBVIOUS
  <2> HIDE DEF t, cs
  <2>5. IsSequence(t) /\ UserCalls(t) = {}
    BY <2>2 DEF t
  <2>6. todo'["worker"] = cs \o t /\ todo'["signaling"] = todo["signaling"]
    BY <2>1, <2>3 DEF Threads
  <2>7. UserCalls(cs \o t) \subseteq {g} /\ NextOnly(cs \o t)
    <3>1. CASE cs = <<>>
      <4>1. ToSet(cs \o t) = ToSet(t)
        BY <2>5, <3>1, EmptyCalls, CallsBefore
      <4>2. UserCalls(cs \o t) = {}
        BY <2>5, <4>1 DEF UserCalls
      <4> QED BY <4>2, NoneIsNextOnly
    <3>2. CASE cs = <<g>>
      <4>1. ToSet(cs \o t) = {g} \cup ToSet(t)
        BY <2>5, <3>2, OneCall, CallsBefore
      <4>2. UserCalls(cs \o t) \subseteq {g}
        BY <2>5, <4>1 DEF UserCalls
      <4>3. \A k \in DOMAIN (cs \o t) : k # 1 => (cs \o t)[k] \in ToSet(t)
        <5>1. PICK S : t \in Seq(S)
          BY <2>5 DEF IsSequence
        <5>2. t \in Seq(S \cup {g}) /\ cs \in Seq(S \cup {g}) /\ Len(cs) = 1
          BY <3>2, <5>1, SeqMonotonic
        <5>3. cs \o t \in Seq(S \cup {g}) /\ Len(cs \o t) = Len(cs) + Len(t)
              /\ \A k \in 1..Len(cs) + Len(t) : (cs \o t)[k] = IF k <= Len(cs) THEN cs[k] ELSE t[k - Len(cs)]
          BY <5>2, ConcatProperties
        <5>4. DOMAIN (cs \o t) = 1..(1 + Len(t)) /\ DOMAIN t = 1..Len(t) /\ Len(t) \in Nat
          BY <5>1, <5>2, <5>3
        <5>5. \A k \in 1..(1 + Len(t)) : k # 1 => k - 1 \in DOMAIN t /\ (cs \o t)[k] = t[k - 1]
          BY <5>2, <5>3, <5>4
        <5> QED BY <5>4, <5>5 DEF ToSet
      <4>4. NextOnly(cs \o t)
        BY <2>5, <4>3 DEF NextOnly, UserCalls
      <4> QED BY <4>2, <4>4
    <3> QED BY <2>4, <3>1, <3>2
  <2> QED BY <2>1, <2>6, <2>7 DEF Giving, Calling
<1>17. GivenNow' = GivenNow /\ Queued' = Queued
  BY <1>1 DEF GivenNow, Queued
<1>18. Ahead(GivenNow, {g}) /\ Ahead(Calling, {g}) /\ Ahead(Queued, {g})
  <2>1. BoundedBy(latest_callback, Calling) /\ BoundedBy(latest_callback, Queued)
    BY <1>11 DEF BoundedBy
  <2> QED BY <1>11, <1>15, <2>1
<1>19. StagesOK'
  <2>1. /\ Ahead(GivenNow, Calling)' /\ Ahead(GivenNow, Queued)' /\ Ahead(Calling, Queued)'
        /\ Rising(queue["signaling"])' /\ (UserCalls(queue["worker"]) = {})'
    BY <1>1, <1>16, <1>17 DEF OrderInv, StagesOK
  <2>2. Ahead(GivenNow, Giving)' /\ Ahead(Calling, Giving)' /\ Ahead(Queued, Giving)'
    BY <1>16, <1>17, <1>18 DEF Ahead
  <2>3. BoundedBy(latest_callback, Calling \cup Queued \cup Giving)'
    <3>1. BoundedBy(latest_callback', Calling \cup Queued \cup Giving)
      BY <1>9, <1>11
    <3> QED BY <1>14, <1>16, <1>17, <3>1 DEF BoundedBy
  <2>4. BoundedBy(latest_callback, GivenNow)'
    BY <1>9, <1>11, <1>17
  <2> QED BY <1>16, <2>1, <2>2, <2>3, <2>4 DEF StagesOK
<1>20. CountsOK' /\ GivenInOrder'
  BY <1>1 DEF OrderInv, CountsOK, GivenInOrder
<1> QED BY <1>8, <1>19, <1>20 DEF OrderInv

\* Every RtcpReceiver hears of the packet: nothing for the user.
LEMMA RouteRtcpInOrder ==
  ASSUME LifeInv, OrderInv, RouteRtcp
  PROVE  OrderInv'
<1> DEFINE call == Head(todo["worker"])
           notify(j) == Call("NotifyNackReceived", j, <<Head(call.packets)>>)
           first == [k \in DOMAIN rtcp_destinations |-> notify(rtcp_destinations[k])]
           rest == Rest(call)
<1>1. /\ todo["worker"] # <<>> /\ call.op = "OnRtcp" /\ "worker" \in Threads
      /\ Continue("worker", first \o rest)
      /\ UNCHANGED <<receiverVars, given, starts, owner, queue>>
  BY DEF RouteRtcp, Running, userVars, sessionVars, outsideVars, Threads
<1>2. CallOK("worker", call)
  BY <1>1, NextCallOK
<1>3. IsSequence(rest) /\ UserCalls(rest) = {}
  BY <1>1, <1>2, RestIsQuiet
<1>4. \A j : ~ForUser(notify(j))
  BY DEF ForUser, Call
<1> HIDE DEF call, notify, rest
<1>5. first = [k \in DOMAIN rtcp_destinations |-> first[k]] /\ IsSequence(rtcp_destinations)
  BY DEF LifeInv, ThreadsTypeOK
<1>6. \A k \in DOMAIN rtcp_destinations : ~ForUser(first[k])
  BY <1>4
<1> HIDE DEF first
<1>7. IsSequence(first) /\ UserCalls(first) = {}
  BY <1>5, <1>6, CallForEach DEF UserCalls
<1>8. IsSequence(first \o rest) /\ UserCalls(first \o rest) = {}
  BY <1>3, <1>7, CallsBefore DEF UserCalls
<1>9. CachesOK' /\ latest_callback' = latest_callback
  BY <1>1, CachesStay
<1> QED BY <1>1, <1>8, <1>9, QuietStep

\* The batch the worker thread has given out goes to the end of the queue.
LEMMA PassToSignalingInOrder ==
  ASSUME LifeInv, OrderInv, PassToSignaling
  PROVE  OrderInv'
<1> DEFINE call == Head(todo["worker"])
           q == queue["signaling"]
<1>1. /\ todo["worker"] # <<>> /\ ForUser(call) /\ "worker" \in Threads /\ "signaling" \in Threads
      /\ queue' = queue \/ queue' = Pushed("signaling", call)
      /\ Continue("worker", <<>>) /\ UNCHANGED <<receiverVars, given, starts, owner>>
  BY DEF PassToSignaling, Running, ForUser, userVars, sessionVars, outsideVars, Threads
<1>2. call \in Giving
  BY <1>1, FirstCall DEF Giving, UserCalls, LifeInv, ThreadsTypeOK
<1> HIDE DEF call
<1>3. IsSequence(<<>>) /\ UserCalls(<<>>) = {}
  BY EmptyCalls DEF UserCalls
<1>4. /\ Calling' \subseteq Calling /\ NextOnly(todo'["signaling"])
      /\ Giving' = {} /\ NextOnly(todo'["worker"])
  BY <1>1, <1>3, TodoMoves
<1>5. queue'["worker"] = queue["worker"]
  BY <1>1, PushedElsewhere
<1>6. queue = [t \in Threads |-> queue[t]] /\ IsSequence(q)
  BY <1>1 DEF LifeInv, ThreadsTypeOK
<1>7. queue'["signaling"] = q \/ queue'["signaling"] = Append(q, call)
  BY <1>1, <1>6 DEF Pushed
<1>8. Rising(q) /\ Ahead(Queued, {call})
  BY <1>2 DEF OrderInv, StagesOK, Ahead
<1>9. Queued = UserCalls(q)
  BY DEF Queued
<1> HIDE DEF q
<1>10. Rising(Append(q, call))
  <2>1. /\ Len(q) \in Nat /\ DOMAIN q = 1..Len(q)
        /\ DOMAIN Append(q, call) = 1..(Len(q) + 1)
        /\ \A k \in 1..Len(q) : Append(q, call)[k] = q[k]
        /\ Append(q, call)[Len(q) + 1] = call
    BY <1>6, ListFacts, AppendFacts
  <2> SUFFICES ASSUME NEW j \in 1..(Len(q) + 1), NEW k \in 1..(Len(q) + 1), j < k,
                      ForUser(Append(q, call)[j]), ForUser(Append(q, call)[k]),
                      Append(q, call)[j].session = Append(q, call)[k].session
               PROVE  Before(Append(q, call)[j].batch, Append(q, call)[k].batch)
    BY <2>1 DEF Rising
  <2>2. j \in DOMAIN q /\ Append(q, call)[j] = q[j]
    BY <2>1
  <2>3. CASE k \in DOMAIN q
    <3>1. Append(q, call)[k] = q[k]
      BY <2>1, <2>3
    <3> QED BY <1>8, <2>2, <2>3, <3>1 DEF Rising
  <2>4. CASE k \notin DOMAIN q
    <3>1. Append(q, call)[k] = call
      BY <2>1, <2>4
    <3>2. q[j] \in Queued
      BY <1>9, <2>2 DEF UserCalls, ToSet
    <3> QED BY <1>8, <2>2, <3>1, <3>2 DEF Ahead
  <2> QED BY <2>3, <2>4
<1>11. Rising(queue'["signaling"])
  BY <1>7, <1>8, <1>10
<1>12. Queued' \subseteq Queued \cup Giving
  <2>1. ToSet(queue'["signaling"]) \subseteq ToSet(q) \cup {call}
    BY <1>6, <1>7, PushedCall
  <2> QED BY <1>1, <1>2, <1>9, <2>1 DEF Queued, UserCalls
<1>13. CachesOK' /\ latest_callback' = latest_callback
  BY <1>1, CachesStay
<1>14. GivenNow' = GivenNow
  BY <1>1 DEF GivenNow
<1>15. StagesOK'
  <2>1. /\ Ahead(GivenNow, Calling)' /\ Ahead(GivenNow, Queued)' /\ Ahead(GivenNow, Giving)'
        /\ Ahead(Calling, Queued)' /\ Ahead(Calling, Giving)' /\ Ahead(Queued, Giving)'
    BY <1>4, <1>12, <1>14 DEF OrderInv, StagesOK, Ahead
  <2>2. BoundedBy(latest_callback, Calling \cup Queued \cup Giving)'
    BY <1>4, <1>12, <1>13 DEF OrderInv, StagesOK, BoundedBy
  <2>3. owner' \in {"idle", "destroyed"} \/ BoundedBy(latest_callback, GivenNow)'
    BY <1>1, <1>13, <1>14 DEF OrderInv, StagesOK
  <2>4. (UserCalls(queue["worker"]) = {})'
    BY <1>5 DEF OrderInv, StagesOK
  <2> QED BY <1>4, <1>11, <2>1, <2>2, <2>3, <2>4 DEF StagesOK
<1>16. CountsOK' /\ GivenInOrder'
  BY <1>1 DEF OrderInv, CountsOK, GivenInOrder
<1> QED BY <1>13, <1>15, <1>16 DEF OrderInv

\* A report begins, is made, or is the end of the process.
LEMMA ReportsInOrder ==
  ASSUME LifeInv, OrderInv,
         \/ \E i \in delayed : BeginReport(i)
         \/ AnswerNetwork \/ ScheduleSendRtcp \/ ScheduleNothing \/ ScheduleCrashes
  PROVE  OrderInv'
<1>1. "network" \in Threads /\ "signaling" \in Threads /\ "worker" \in Threads
  BY DEF Threads
<1>2. CASE \E i \in delayed : BeginReport(i)
  <2>1. PICK i : BeginReport(i)
    BY <1>2
  <2> DEFINE report == Call("ScheduleSendRtcp", i, <<>>)
  <2>2. /\ todo' = [todo EXCEPT !["worker"] = <<report>>] /\ queue' = queue
        /\ UNCHANGED <<receiverVars, given, starts, owner>>
    BY <2>1 DEF BeginReport, userVars, sessionVars, outsideVars
  <2>3. ~ForUser(report)
    BY DEF ForUser, Call
  <2> HIDE DEF report
  <2>4. todo'["signaling"] = todo["signaling"] /\ todo'["worker"] = <<report>>
    BY <1>1, <2>2 DEF LifeInv, ThreadsTypeOK
  <2>5. Giving' = {}
    BY <2>3, <2>4, OneCall DEF Giving, UserCalls
  <2>6. NextOnly(todo'["worker"])
    BY <2>5, NoneIsNextOnly DEF Giving
  <2>7. Calling' = Calling /\ Queued' = Queued /\ NextOnly(todo'["signaling"])
        /\ Rising(queue'["signaling"]) /\ UserCalls(queue'["worker"]) = {}
    BY <2>2, <2>4 DEF Calling, Queued, OrderInv, StagesOK
  <2>8. CachesOK' /\ latest_callback' = latest_callback
    BY <2>2, CachesStay
  <2> QED BY <2>2, <2>5, <2>6, <2>7, <2>8, NothingNew
<1>3. CASE AnswerNetwork \/ ScheduleSendRtcp \/ ScheduleNothing
  <2>1. /\ todo["worker"] # <<>> /\ Continue("worker", <<>>)
        /\ queue' = queue \/ \E c : queue' = Pushed("network", c)
        /\ UNCHANGED <<receiverVars, given, starts, owner>>
    BY <1>3 DEF AnswerNetwork, ScheduleSendRtcp, ScheduleNothing, Running, userVars, sessionVars,
       outsideVars
  <2> QED BY <1>1, <2>1, CallEnds
<1>4. CASE ScheduleCrashes
  <2>1. /\ queue' = [th \in Threads |-> <<>>] /\ todo' = [th \in Threads |-> <<>>]
        /\ UNCHANGED <<receiverVars, given, starts>> /\ todo["worker"] # <<>>
    BY <1>4 DEF ScheduleCrashes, Running, sessionVars, outsideVars
  <2>2. /\ queue'["signaling"] = <<>> /\ queue'["worker"] = <<>>
        /\ todo'["signaling"] = <<>> /\ todo'["worker"] = <<>>
    BY <1>1, <2>1
  <2>3. UserCalls(<<>>) = {} /\ NextOnly(<<>>) /\ Rising(<<>>)
    BY EmptyCalls DEF UserCalls, NextOnly, Rising
  <2>4. CachesOK' /\ latest_callback' = latest_callback
    BY <2>1, CachesStay
  <2>5. owner \notin {"idle", "destroyed"}
    BY <1>1, <2>1 DEF LifeInv, StoppedIsEmpty, OwnerInStep
  <2>6. Calling' = {} /\ Queued' = {} /\ Giving' = {}
    BY <2>2, <2>3 DEF Calling, Queued, Giving
  <2> QED BY <2>1, <2>2, <2>3, <2>4, <2>5, <2>6, NothingNew
<1> QED BY <1>2, <1>3, <1>4

\* The user gets the batch that is the oldest on its way.
LEMMA CallBackInOrder ==
  ASSUME LifeInv, OrderInv, CallBack
  PROVE  OrderInv'
<1> DEFINE call == Head(todo["signaling"])
           new == [start |-> starts, session |-> call.session, batch |-> call.batch]
<1>1. /\ todo["signaling"] # <<>> /\ ForUser(call) /\ "signaling" \in Threads
      /\ Continue("signaling", <<>>) /\ queue' = queue
      /\ given' = given \/ given' = Append(given, new)
      /\ UNCHANGED <<receiverVars, starts, owner>>
  BY DEF CallBack, Running, ForUser, userVars, sessionVars, Threads
<1>2. call \in Calling
  BY <1>1, FirstCall DEF Calling, UserCalls, LifeInv, ThreadsTypeOK
<1>3. new.start = starts /\ new.session = call.session /\ new.batch = call.batch
  OBVIOUS
<1> HIDE DEF call, new
<1>4. IsSequence(<<>>) /\ UserCalls(<<>>) = {}
  BY EmptyCalls DEF UserCalls
<1>5. /\ Calling' = {} /\ NextOnly(todo'["signaling"])
      /\ Giving' \subseteq Giving /\ NextOnly(todo'["worker"])
  BY <1>1, <1>4, TodoMoves
<1>6. CachesOK' /\ latest_callback' = latest_callback
  BY <1>1, CachesStay
<1>7. Queued' = Queued /\ Rising(queue'["signaling"]) /\ UserCalls(queue'["worker"]) = {}
  BY <1>1 DEF Queued, OrderInv, StagesOK
<1>8. CASE given' = given
  BY <1>1, <1>5, <1>6, <1>7, <1>8, NothingNew
<1>9. CASE given' = Append(given, new)
  <2>1. /\ IsSequence(given) /\ starts \in Nat
        /\ \A k \in DOMAIN given : given[k].start \in Nat /\ given[k].start <= starts
    BY DEF OrderInv, CountsOK
  <2>2. /\ Len(given) \in Nat /\ DOMAIN given = 1..Len(given)
        /\ IsSequence(given') /\ DOMAIN given' = 1..(Len(given) + 1)
        /\ \A k \in 1..Len(given) : given'[k] = given[k]
        /\ given'[Len(given) + 1] = new
    BY <1>9, <2>1, ListFacts, AppendFacts
  <2>3. \A k \in DOMAIN given' : \/ k \in DOMAIN given /\ given'[k] = given[k]
                                 \/ k = Len(given) + 1 /\ given'[k] = new
    BY <2>2
  <2>4. CountsOK'
    BY <1>1, <1>3, <2>1, <2>2, <2>3 DEF CountsOK
  <2>5. GivenNow' \subseteq GivenNow \cup {new}
    BY <1>1, <2>3 DEF GivenNow
  <2>6. Ahead(GivenNow, Calling)
    BY DEF OrderInv, StagesOK
  <2>7. GivenInOrder'
    <3> SUFFICES ASSUME NEW j \in DOMAIN given', NEW k \in DOMAIN given', j < k,
                        given'[j].start = given'[k].start, given'[j].session = given'[k].session
                 PROVE  Before(given'[j].batch, given'[k].batch)
      BY DEF GivenInOrder, Before
    <3>1. j \in DOMAIN given /\ given'[j] = given[j]
      BY <2>2, <2>3
    <3>2. CASE k \in DOMAIN given
      BY <2>2, <3>1, <3>2 DEF OrderInv, GivenInOrder, Before
    <3>3. CASE k \notin DOMAIN given
      <4>1. given'[k] = new
        BY <2>3, <3>3
      <4>2. given[j] \in GivenNow
        BY <1>3, <3>1, <4>1 DEF GivenNow
      <4> QED BY <1>2, <1>3, <2>6, <3>1, <4>1, <4>2 DEF Ahead
    <3> QED BY <3>2, <3>3
  <2>8. StagesOK'
    <3>1. /\ Ahead(GivenNow, Calling)' /\ Ahead(GivenNow, Queued)' /\ Ahead(GivenNow, Giving)'
          /\ Ahead(Calling, Queued)' /\ Ahead(Calling, Giving)' /\ Ahead(Queued, Giving)'
      BY <1>2, <1>3, <1>5, <1>7, <2>5 DEF OrderInv, StagesOK, Ahead
    <3>2. BoundedBy(latest_callback, Calling \cup Queued \cup Giving)'
      BY <1>5, <1>6, <1>7 DEF OrderInv, StagesOK, BoundedBy
    <3>3. owner' \in {"idle", "destroyed"} \/ BoundedBy(latest_callback, GivenNow)'
      BY <1>1, <1>2, <1>3, <1>6, <2>5 DEF OrderInv, StagesOK, BoundedBy
    <3> QED BY <1>5, <1>7, <3>1, <3>2, <3>3 DEF StagesOK
  <2> QED BY <1>6, <2>4, <2>7, <2>8 DEF OrderInv
<1> QED BY <1>1, <1>8, <1>9

\* The user sends: a call that brings no packets.
LEMMA SendingInOrder ==
  ASSUME LifeInv, OrderInv, SendRtp \/ \E ssrc : SendRtpPacket(ssrc)
  PROVE  OrderInv'
<1>1. "signaling" \in Threads /\ "worker" \in Threads
  BY DEF Threads
<1>2. CASE SendRtp
  BY <1>1, <1>2, CallEnds DEF SendRtp, Running, userVars, sessionVars, outsideVars
<1>3. CASE \E ssrc : SendRtpPacket(ssrc)
  <2>1. /\ \E i : queue' \in {queue, Pushed("signaling", Call("SendRtpPacket", i, <<>>))}
        /\ todo' = todo /\ UNCHANGED <<receiverVars, given, starts, owner>>
    BY <1>3 DEF SendRtpPacket, userVars, sessionVars
  <2>2. PICK c : ~ForUser(c) /\ queue' \in {queue, Pushed("signaling", c)}
    <3>1. \A i : ~ForUser(Call("SendRtpPacket", i, <<>>))
      BY DEF ForUser, Call
    <3> QED BY <2>1, <3>1
  <2> DEFINE q == queue["signaling"]
  <2>3. queue = [t \in Threads |-> queue[t]] /\ IsSequence(q) /\ Rising(q)
    BY <1>1 DEF LifeInv, ThreadsTypeOK, OrderInv, StagesOK
  <2>4. queue'["signaling"] = q \/ queue'["signaling"] = Append(q, c)
    BY <1>1, <2>2, <2>3 DEF Pushed
  <2>5. queue'["worker"] = queue["worker"]
    BY <1>1, <2>2, PushedElsewhere
  <2>6. Queued = UserCalls(q) /\ Queued' = UserCalls(queue'["signaling"])
    BY DEF Queued
  <2> HIDE DEF q
  <2>7. Rising(Append(q, c))
    <3>1. /\ Len(q) \in Nat /\ DOMAIN q = 1..Len(q)
          /\ DOMAIN Append(q, c) = 1..(Len(q) + 1)
          /\ \A k \in 1..Len(q) : Append(q, c)[k] = q[k]
          /\ Append(q, c)[Len(q) + 1] = c
      BY <2>3, ListFacts, AppendFacts
    <3>2. \A k \in DOMAIN Append(q, c) : ForUser(Append(q, c)[k]) => k \in DOMAIN q /\ Append(q, c)[k] = q[k]
      BY <2>2, <3>1
    <3> QED BY <2>3, <3>2 DEF Rising
  <2>8. Queued' \subseteq Queued
    <3>1. ToSet(queue'["signaling"]) \subseteq ToSet(q) \cup {c}
      BY <2>3, <2>4, PushedCall
    <3> QED BY <2>2, <2>6, <3>1 DEF UserCalls
  <2>9. Rising(queue'["signaling"])
    BY <2>3, <2>4, <2>7
  <2>10. /\ Calling' = Calling /\ Giving' = Giving /\ UserCalls(queue'["worker"]) = {}
         /\ NextOnly(todo'["signaling"]) /\ NextOnly(todo'["worker"])
    BY <2>1, <2>5 DEF Calling, Giving, OrderInv, StagesOK
  <2>11. CachesOK' /\ latest_callback' = latest_callback
    BY <2>1, CachesStay
  <2> QED BY <2>1, <2>8, <2>9, <2>10, <2>11, NothingNew
<1> QED BY <1>2, <1>3

-----------------------------------------------------------------------------
(* Steps of the user *)

\* A step that leaves the packets and the calls alone.
LEMMA NothingMoves ==
  ASSUME OrderInv, UNCHANGED <<receiverVars, given, starts, queue, todo>>,
         owner \in {"idle", "destroyed"} => owner' \in {"idle", "destroyed"}
  PROVE  OrderInv'
<1>1. CachesOK' /\ latest_callback' = latest_callback
  BY CachesStay
<1>2. /\ Calling' = Calling /\ Queued' = Queued /\ Giving' = Giving
      /\ Rising(queue'["signaling"]) /\ UserCalls(queue'["worker"]) = {}
      /\ NextOnly(todo'["signaling"]) /\ NextOnly(todo'["worker"])
  BY DEF Calling, Queued, Giving, OrderInv, StagesOK
<1> QED BY <1>1, <1>2, NothingNew

\* With no call left nothing is on its way.
LEMMA NothingOnTheWay ==
  ASSUME \A th \in Threads : queue'[th] = <<>> /\ todo'[th] = <<>>
  PROVE  /\ Calling' = {} /\ Queued' = {} /\ Giving' = {}
         /\ Rising(queue'["signaling"]) /\ UserCalls(queue'["worker"]) = {}
         /\ NextOnly(todo'["signaling"]) /\ NextOnly(todo'["worker"])
<1>1. UserCalls(<<>>) = {} /\ NextOnly(<<>>) /\ Rising(<<>>)
  BY EmptyCalls DEF UserCalls, NextOnly, Rising
<1> QED BY <1>1 DEF Calling, Queued, Giving, Threads

\* A new start has given nothing yet.
LEMMA StartSessionInOrder ==
  ASSUME LifeInv, OrderInv, StartSession
  PROVE  OrderInv'
<1>1. /\ owner = "idle" /\ starts' = starts + 1
      /\ UNCHANGED <<receiverVars, given, queue, todo>>
  BY DEF StartSession, sessionVars, outsideVars
<1>2. \A th \in Threads : queue'[th] = <<>> /\ todo'[th] = <<>>
  BY <1>1 DEF LifeInv, OwnerInStep, StoppedIsEmpty
<1>3. /\ Calling' = {} /\ Queued' = {} /\ Giving' = {}
      /\ Rising(queue'["signaling"]) /\ UserCalls(queue'["worker"]) = {}
      /\ NextOnly(todo'["signaling"]) /\ NextOnly(todo'["worker"])
  BY <1>2, NothingOnTheWay
<1>4. CountsOK' /\ GivenNow' = {}
  BY <1>1 DEF OrderInv, CountsOK, GivenNow
<1>5. CachesOK' /\ GivenInOrder'
  BY <1>1, CachesStay DEF OrderInv, GivenInOrder
<1>6. StagesOK'
  BY <1>3, <1>4 DEF StagesOK, Ahead, BoundedBy
<1> QED BY <1>4, <1>5, <1>6 DEF OrderInv

\* A thread that ends drops its tasks.
LEMMA JoinThreadInOrder ==
  ASSUME LifeInv, OrderInv, JoinThread
  PROVE  OrderInv'
<1>1. /\ owner = "join" /\ todo' = todo /\ UNCHANGED <<receiverVars, given, starts>>
      /\ \E th : queue' = [queue EXCEPT ![th] = <<>>]
  BY DEF JoinThread, sessionVars, outsideVars
<1>2. queue = [t \in Threads |-> queue[t]] /\ "signaling" \in Threads /\ "worker" \in Threads
  BY DEF LifeInv, ThreadsTypeOK, Threads
<1>3. \A t \in Threads : queue'[t] \in {queue[t], <<>>}
  BY <1>1, <1>2
<1>4. UserCalls(<<>>) = {} /\ Rising(<<>>)
  BY EmptyCalls DEF UserCalls, Rising
<1>5. Queued' \subseteq Queued /\ Rising(queue'["signaling"]) /\ UserCalls(queue'["worker"]) = {}
  BY <1>2, <1>3, <1>4 DEF Queued, OrderInv, StagesOK
<1>6. /\ Calling' = Calling /\ Giving' = Giving
      /\ NextOnly(todo'["signaling"]) /\ NextOnly(todo'["worker"])
  BY <1>1 DEF Calling, Giving, OrderInv, StagesOK
<1>7. CachesOK' /\ latest_callback' = latest_callback
  BY <1>1, CachesStay
<1> QED BY <1>1, <1>5, <1>6, <1>7, NothingNew

\* When everything is freed nothing is on its way.
LEMMA ReleaseInOrder ==
  ASSUME LifeInv, OrderInv, Release
  PROVE  OrderInv'
<1>1. /\ owner = "stop" /\ at > 3 /\ owner' \in {"idle", "destroyed"}
      /\ cached_packets' = [i \in Sessions |-> {}] /\ latest_callback' = [i \in Sessions |-> 0]
      /\ UNCHANGED <<given, starts, queue, todo>>
  BY StopOrderOnce DEF Release, threadVars, outsideVars
<1>2. \A th \in Threads : run[th] = "stopped"
  BY <1>1, StopOrderOnce DEF LifeInv, OwnerInStep, ThreadsTypeOK
<1>3. \A th \in Threads : queue'[th] = <<>> /\ todo'[th] = <<>>
  BY <1>1, <1>2 DEF LifeInv, StoppedIsEmpty
<1>4. /\ Calling' = {} /\ Queued' = {} /\ Giving' = {}
      /\ Rising(queue'["signaling"]) /\ UserCalls(queue'["worker"]) = {}
      /\ NextOnly(todo'["signaling"]) /\ NextOnly(todo'["worker"])
  BY <1>3, NothingOnTheWay
<1>5. StagesOK'
  BY <1>1, <1>4 DEF StagesOK, Ahead, BoundedBy
<1>6. CachesOK'
  BY <1>1 DEF CachesOK
<1>7. CountsOK' /\ GivenInOrder'
  BY <1>1 DEF OrderInv, CountsOK, GivenInOrder
<1> QED BY <1>5, <1>6, <1>7 DEF OrderInv

\* The other steps of StartSession, its failed path and the destructor.
LEMMA OwnerInOrder ==
  ASSUME LifeInv, OrderInv, OwnerStep \/ Destroy
  PROVE  OrderInv'
<1>1. CASE CreateTranceiver \/ CreateSession \/ CreateRtcp \/ CreateRtpReceiver \/ AddRtpDst
  BY <1>1, NothingMoves DEF CreateTranceiver, CreateSession, CreateRtcp, CreateRtpReceiver,
     AddRtpDst, sessionVars, threadVars, outsideVars
<1>2. CASE AddRtcpDst \/ KeepSession \/ ReturnStarted \/ FailInitialize \/ StopThread
  BY <1>2, NothingMoves DEF AddRtcpDst, KeepSession, ReturnStarted, FailInitialize, StopThread,
     sessionVars, threadVars, outsideVars
<1>3. CASE Destroy
  <2>1. /\ owner = "idle" => owner' = "destroyed"
        /\ owner \in {"idle", "started"}
        /\ UNCHANGED <<receiverVars, given, starts, queue, todo>>
    BY <1>3 DEF Destroy, sessionVars, threadVars, outsideVars, LifeInv, OwnerInStep
  <2> QED BY <2>1, NothingMoves
<1> QED BY <1>1, <1>2, <1>3, JoinThreadInOrder, ReleaseInOrder DEF OwnerStep

\* Every step keeps the order.
LEMMA OrderKept ==
  ASSUME LifeInv, OrderInv, [Next]_vars
  PROVE  OrderInv'
<1>1. "network" \in Threads /\ "signaling" \in Threads /\ "worker" \in Threads
  BY DEF Threads
<1>2. CASE NetworkStep
  BY <1>1, <1>2, TakeTaskInOrder, NetworkInOrder DEF NetworkStep
<1>3. CASE WorkerStep
  BY <1>1, <1>3, TakeTaskInOrder, RouteRtpInOrder, GetPacketsInOrder, RouteRtcpInOrder,
     PassToSignalingInOrder, ReportsInOrder DEF WorkerStep
<1>4. CASE SignalingStep
  BY <1>1, <1>4, TakeTaskInOrder, CallBackInOrder, SendingInOrder DEF SignalingStep
<1>5. CASE StartSession \/ OwnerStep \/ Destroy
  BY <1>5, StartSessionInOrder, OwnerInOrder
<1>6. CASE \E i \in DOMAIN config : SendRtpPacket(config[i].local)
  BY <1>6, SendingInOrder
<1>7. CASE \E d \in Datagrams : Arrive(d)
  BY <1>7, NothingMoves DEF Arrive, userVars, sessionVars, threadVars
<1>8. CASE UNCHANGED vars
  BY <1>8, NothingMoves DEF vars, userVars, sessionVars, threadVars, outsideVars
<1> QED BY <1>2, <1>3, <1>4, <1>5, <1>6, <1>7, <1>8 DEF Next

\* At first nothing was given and nothing is on its way.
LEMMA OrderAtFirst ==
  ASSUME Init
  PROVE  OrderInv
<1>1. \A th \in Threads : queue[th] = <<>> /\ todo[th] = <<>>
  BY DEF Init
<1>2. given = <<>> /\ DOMAIN given = {} /\ starts = 0 /\ owner = "idle"
  BY DEF Init
<1>3. CountsOK /\ GivenInOrder /\ GivenNow = {}
  BY <1>2, EmptyCalls DEF CountsOK, GivenInOrder, GivenNow
<1>4. CachesOK
  BY DEF Init, CachesOK
<1>5. StagesOK
  <2>1. UserCalls(<<>>) = {} /\ NextOnly(<<>>) /\ Rising(<<>>)
    BY EmptyCalls DEF UserCalls, NextOnly, Rising
  <2>2. Calling = {} /\ Queued = {} /\ Giving = {}
    BY <1>1, <2>1 DEF Calling, Queued, Giving, Threads
  <2> QED BY <1>1, <1>2, <1>3, <2>1, <2>2 DEF StagesOK, Ahead, BoundedBy, Threads
<1> QED BY <1>3, <1>4, <1>5 DEF OrderInv

\* The user gets the packets of a session in the order of the stream and none
\* twice, however they arrived or came again, whatever their receiver lets time out,
\* and whatever the three threads, StartSession and the destructor do meanwhile.
THEOREM PacketsGivenInOrder == Spec => []GivenInOrder
<1>1. Init => OrderInv
  BY OrderAtFirst
<1>2. LifeInv /\ OrderInv /\ [Next]_vars => OrderInv'
  BY OrderKept
<1>3. OrderInv => GivenInOrder
  BY DEF OrderInv
<1> QED BY <1>1, <1>2, <1>3, LifeInvHolds, PTL DEF Spec
===============================================================================
