--------------------------- MODULE SessionLifecycle ---------------------------
(***************************************************************************)
(* The life of a QosrtpSessionImpl: Configure, StartSession with the       *)
(* Initialize of every media session, packets both ways while it runs, the *)
(* failed path, another StartSession, and the destructor.                  *)
(*                                                                         *)
(* The session has three threads. The network thread reads the socket,     *)
(* sorts the datagrams into RTP and RTCP (RtpRtcpPacketDemuxer) and sends; *)
(* the worker thread routes them to the receivers (RtpRtcpRouter) and runs *)
(* the RTCP schedule; the signaling thread calls the user back. A call     *)
(* that must run on another thread is pushed on its queue as a task that   *)
(* holds bare pointers: who is destroyed when is what this module is       *)
(* about. TaskThread has the threads in detail, RtpReceiver, RtpSender and *)
(* RtcpSession what the handlers compute.                                  *)
(***************************************************************************)
EXTENDS Naturals, Sequences, SequencesExt, ListOps

CONSTANTS
  Configs,      \* what the user may start: sequences of media session configs
  Datagrams,    \* what may arrive: records [pt, ssrc, position, whole]
  MaxArrivals,  \* bound on the datagrams
  MaxSends,     \* bound on the packets the user sends and the runs of ScheduleSendRtcp
  MaxStarts     \* bound on the calls of StartSession

ASSUME LifecycleAssumption ==
  MaxArrivals \in Nat /\ MaxSends \in Nat /\ MaxStarts \in Nat

ASSUME ConfigsAssumption == \A c \in Configs : Len(c) \in Nat /\ DOMAIN c = 1..Len(c)

\* The position of a packet in the stream of its media session stands for its
\* sequence number, of an rtx packet for the one it carries; "whole" says that
\* there is more in it than that number. RtpReceiver has the numbers and times.
ASSUME DatagramsAssumption == \A d \in Datagrams : d.position \in Nat \ {0}

VARIABLES
  config,             \* config_, the media sessions by name
  owner,              \* where the thread of the user is
  at,                 \* the session it initializes, or the thread it stops
  has_started, media_sessions,
  initialized,        \* the sessions whose initialized_ is set
  cached_packets,     \* the positions in the cache of each session's receiver
  latest_callback,    \* the last position its receiver has given out, or 0
  rtp_destinations, rtcp_destinations,
  live,               \* the objects that are alive, <<kind, session>>
  bound,              \* a socket of this process is bound to the local address
  run,                \* the threads: stopped, running, stopping
  queue,              \* the tasks of each thread
  todo,               \* the calls left of the task it runs
  delayed,            \* the sessions whose ScheduleSendRtcp waits on the worker thread
  unread,             \* datagrams in the socket
  given,              \* history: the batches OnRtpPacket of the user got
  arrivals, sends, starts

userVars == <<config, owner, at, starts>>
receiverVars == <<cached_packets, latest_callback>>
sessionVars == <<has_started, media_sessions, initialized, receiverVars>>
routerVars == <<rtp_destinations, rtcp_destinations>>
threadVars == <<run, queue, todo, delayed>>
outsideVars == <<unread, given, arrivals, sends>>
vars == <<userVars, sessionVars, routerVars, live, bound, threadVars, outsideVars>>

Threads == {"network", "signaling", "worker"}

Shared(kind) == <<kind, 0>>

Sends(c) == c.direction # "kRecvOnly"
Receives(c) == c.direction # "kSendOnly"

Sessions == UNION {DOMAIN c : c \in Configs}
Receivers == UNION {{i \in DOMAIN c : Receives(c[i])} : c \in Configs}
Positions == {d.position : d \in Datagrams}

-----------------------------------------------------------------------------
(* Configure *)

\* The first one, ssrc_media_local, is compared with none.
AreAnySsrcsEqual(ssrcs) ==
  \E i, j \in 2..Len(ssrcs) : i # j /\ ssrcs[i] = ssrcs[j]

Ssrcs(rtx) == [i \in DOMAIN rtx |-> rtx[i].ssrc]

\* Configure accepts the media session.
Accepted(c) ==
  /\ ~AreAnySsrcsEqual(<<c.local, c.remote>> \o Ssrcs(c.rtx_local) \o Ssrcs(c.rtx_remote))
  /\ Sends(c) => c.pts_local # {} /\ \A pt \in c.pts_local : pt <= 127
  /\ Receives(c) => c.pts_remote # {} /\ \A pt \in c.pts_remote : pt <= 127

\* Retransmission is configured, with a cache of no packets: Configure does not
\* see to it, RtpSender and RtpReceiver refuse it.
CachesNothing(rtx) == \E i \in DOMAIN rtx : rtx[i].max_cache_seq_difference = 0

SenderRefused(c) == Sends(c) /\ CachesNothing(c.rtx_local)
ReceiverRefused(c) == Receives(c) /\ CachesNothing(c.rtx_remote)

-----------------------------------------------------------------------------
(* Tasks *)

Call(op, i, packets) == [op |-> op, session |-> i, packets |-> packets, batch |-> {}]

\* Mutant of Give: only the last of the packets is given out.
GiveLast(i, batch) ==
  [op |-> "OnRtpPacket", session |-> i, packets |-> <<>>,
   batch |-> {n \in batch : \A m \in batch : m <= n}]

\* OnRtpPacket with what the receiver gives out, ordered as RtpReceiver has it.
Give(i, batch) == [op |-> "OnRtpPacket", session |-> i, packets |-> <<>>, batch |-> batch]

\* Mutant of Pushed: the last task pushed is the first to run.
PushedInFront(th, call) ==
  IF run[th] = "stopped" THEN queue ELSE [queue EXCEPT ![th] = <<call>> \o @]

\* Thread::PushTask: dropped unless the thread runs.
Pushed(th, call) ==
  IF run[th] = "stopped" THEN queue ELSE [queue EXCEPT ![th] = Append(@, call)]

\* The thread goes on with its task, cs being the calls to make first.
Continue(th, cs) == todo' = [todo EXCEPT ![th] = cs \o Tail(@)]

Running(th, op) == todo[th] # <<>> /\ Head(todo[th]).op = op

\* The worker thread is inside OnRtp or OnRtcp and holds mutex_destinations_.
Routing == \E k \in DOMAIN todo["worker"] : todo["worker"][k].op # "ScheduleSendRtcp"

Idle(th) == run[th] = "running" /\ todo[th] = <<>>

TakeTask(th) ==
  /\ Idle(th) /\ queue[th] # <<>>
  /\ todo' = [todo EXCEPT ![th] = <<Head(queue[th])>>]
  /\ queue' = [queue EXCEPT ![th] = Tail(@)]
  /\ UNCHANGED <<userVars, sessionVars, routerVars, live, bound, run, delayed, outsideVars>>

-----------------------------------------------------------------------------
(* The network thread *)

PayloadTypeIsReservedForRtcp(pt) == 64 <= pt /\ pt < 96

IsRtp(d) == ~PayloadTypeIsReservedForRtcp(d.pt)
IsRtcp(d) == PayloadTypeIsReservedForRtcp(d.pt)

RtpOf(batch) == Picked(batch, {k \in DOMAIN batch : IsRtp(batch[k])})
RtcpOf(batch) == Picked(batch, {k \in DOMAIN batch : IsRtcp(batch[k])})

\* The call with a batch of packets, none when there are no packets.
CallWith(op, packets) == IF packets = <<>> THEN <<>> ELSE <<Call(op, 0, packets)>>

\* Mutant of ReadSocket: one datagram is read of all that are there.
ReadFirst ==
  /\ Idle("network") /\ Shared("handler") \in live /\ unread # <<>>
  /\ todo' = [todo EXCEPT !["network"] =
       CallWith("OnRtp", RtpOf(<<Head(unread)>>)) \o CallWith("OnRtcp", RtcpOf(<<Head(unread)>>))]
  /\ unread' = <<>>
  /\ UNCHANGED <<userVars, sessionVars, routerVars, live, bound, run, queue, delayed,
                 given, arrivals, sends>>

\* UdpNetworkTranceiver::OnEvent and RtpRtcpPacketDemuxer::OnData: all there is,
\* first the RTP packets, then the RTCP ones.
ReadSocket ==
  /\ Idle("network") /\ Shared("handler") \in live /\ unread # <<>>
  /\ todo' = [todo EXCEPT !["network"] =
       CallWith("OnRtp", RtpOf(unread)) \o CallWith("OnRtcp", RtcpOf(unread))]
  /\ unread' = <<>>
  /\ UNCHANGED <<userVars, sessionVars, routerVars, live, bound, run, queue, delayed,
                 given, arrivals, sends>>

\* RtpRtcpRouter::OnRtp and OnRtcp on the network thread.
PassToWorker ==
  /\ Running("network", "OnRtp") \/ Running("network", "OnRtcp")
  /\ queue' = Pushed("worker", Head(todo["network"]))
  /\ Continue("network", <<>>)
  /\ UNCHANGED <<userVars, sessionVars, routerVars, live, bound, run, delayed, outsideVars>>

\* SendRtp and SendRtcp of the tranceiver.
SendTo ==
  /\ Running("network", "Send")
  /\ Continue("network", <<>>)
  /\ UNCHANGED <<userVars, sessionVars, routerVars, live, bound, run, queue, delayed,
                 outsideVars>>

-----------------------------------------------------------------------------
(* The worker thread *)

\* RtpReceiver::IsExpectedRemoteSsrc
Expects(i, ssrc) ==
  ssrc = config[i].remote \/ \E k \in DOMAIN config[i].rtx_remote : ssrc = config[i].rtx_remote[k].ssrc

\* The place of the first destination that expects the packet, if any.
Destination(p) ==
  {k \in DOMAIN rtp_destinations :
     /\ Expects(rtp_destinations[k], p.ssrc)
     /\ \A j \in 1..(k - 1) : ~Expects(rtp_destinations[j], p.ssrc)}

\* RtpReceiver::OnRtpPacket goes on with the packet: its payload type is known,
\* and an rtx packet has one that is mapped and carries a packet.
Accepts(i, p) ==
  IF p.ssrc = config[i].remote THEN p.pt \in config[i].pts_remote
  ELSE \E k \in DOMAIN config[i].rtx_remote :
         LET rtx == config[i].rtx_remote[k]
         IN  p.ssrc = rtx.ssrc /\ p.whole /\ p.pt \in DOMAIN rtx.map /\ rtx.map[p.pt] \in config[i].pts_remote

\* Mutant of PutPacket: late packets are put as well.
PutAny(i, n) == [cached_packets EXCEPT ![i] = @ \cup {n}]

\* PutPacket returns at once for a packet not after the last one given out.
PutPacket(i, n) ==
  IF n <= latest_callback[i] THEN cached_packets ELSE [cached_packets EXCEPT ![i] = @ \cup {n}]

\* A number is missing between two that came, or the list of them is an old one,
\* which a late packet leaves as it is.
MayAsk(i, n, cached) ==
  \/ n <= latest_callback[i]
  \/ \E j, m \in (cached \cup {latest_callback[i]}) \ {0} : ~((j + 1)..m \subseteq cached)

Rest(call) ==
  IF Len(call.packets) = 1 THEN <<>>
  ELSE <<Call(call.op, call.session, Tail(call.packets))>>

\* No receiver expects the packet, or the one that does refuses it.
DropRtp ==
  LET call == Head(todo["worker"])
  IN  /\ Running("worker", "OnRtp")
      /\ \A k \in Destination(Head(call.packets)) :
            ~Accepts(rtp_destinations[k], Head(call.packets))
      /\ Continue("worker", Rest(call))
      /\ UNCHANGED <<userVars, sessionVars, routerVars, live, bound, run, queue, delayed,
                     outsideVars>>

\* RtpReceiver::OnRtpPacket puts the packet and calls NotifyLossPacketSeqsForNack,
\* when the missing numbers are due, and GetPackets.
RouteRtp ==
  LET call == Head(todo["worker"])
      p == Head(call.packets)
  IN  /\ Running("worker", "OnRtp")
      /\ \E k \in Destination(p) :
            LET i == rtp_destinations[k]
                get == <<Call("GetPackets", i, <<>>)>> \o Rest(call)
            IN  /\ Accepts(i, p)
                /\ cached_packets' = PutPacket(i, p.position)
                /\ \/ Continue("worker", get)
                   \/ /\ MayAsk(i, p.position, cached_packets'[i])
                      /\ Continue("worker", <<Call("NotifyLoss", i, <<>>)>> \o get)
      /\ UNCHANGED <<userVars, has_started, media_sessions, initialized, latest_callback,
                     routerVars, live, bound, run, queue, delayed, outsideVars>>

\* RtpReceiverPacketCache::GetPackets gives out the packets that continue what was
\* given out before, and any one that has waited out its time with all before it:
\* all up to "last". What has waited long enough is left open.
GetPackets ==
  LET i == Head(todo["worker"]).session
      cached == cached_packets[i]
      latest == latest_callback[i]
      continues(n) == latest # 0 /\ (latest + 1)..n \subseteq cached
  IN  /\ Running("worker", "GetPackets")
      /\ \E last \in cached \cup {latest} :
            /\ \A n \in cached : continues(n) => n <= last
            /\ cached_packets' = [cached_packets EXCEPT ![i] = {n \in @ : n > last}]
            /\ latest_callback' = [latest_callback EXCEPT ![i] = last]
            /\ Continue("worker",
                 IF last = latest THEN <<>> ELSE <<Give(i, {n \in cached : n <= last})>>)
      /\ UNCHANGED <<userVars, has_started, media_sessions, initialized, routerVars, live, bound,
                     run, queue, delayed, outsideVars>>

\* Every RtcpReceiver gets the packet.
RouteRtcp ==
  LET call == Head(todo["worker"])
      notify(i) == Call("NotifyNackReceived", i, <<Head(call.packets)>>)
  IN  /\ Running("worker", "OnRtcp")
      /\ Continue("worker",
           [k \in DOMAIN rtcp_destinations |-> notify(rtcp_destinations[k])] \o Rest(call))
      /\ UNCHANGED <<userVars, sessionVars, routerVars, live, bound, run, queue, delayed,
                     outsideVars>>

\* The callbacks of MediaSession do nothing before initialized_ is set.
OnInitialized(i) == i \in initialized

\* NotifyLossPacketSeqsForNack and SendNack; NotifyNackReceived and SendRtx, of
\* the sessions whose remote ssrc has sent the NACK.
AnswerNetwork ==
  LET call == Head(todo["worker"])
      i == call.session
  IN  /\ Running("worker", "NotifyLoss") \/ Running("worker", "NotifyNackReceived")
      /\ queue' = IF /\ OnInitialized(i)
                     /\ call.op = "NotifyNackReceived" =>
                          Sends(config[i]) /\ config[i].remote = call.packets[1].ssrc
                  THEN Pushed("network", Call("Send", i, <<>>)) ELSE queue
      /\ Continue("worker", <<>>)
      /\ UNCHANGED <<userVars, sessionVars, routerVars, live, bound, run, delayed,
                     outsideVars>>

\* MediaSession::OnRtpPacket on the worker thread.
PassToSignaling ==
  LET call == Head(todo["worker"])
  IN  /\ Running("worker", "OnRtpPacket")
      /\ queue' = IF OnInitialized(call.session) THEN Pushed("signaling", call) ELSE queue
      /\ Continue("worker", <<>>)
      /\ UNCHANGED <<userVars, sessionVars, routerVars, live, bound, run, delayed,
                     outsideVars>>

\* A delayed task is due.
BeginReport(i) ==
  /\ Idle("worker") /\ i \in delayed /\ sends < MaxSends
  /\ delayed' = delayed \ {i}
  /\ todo' = [todo EXCEPT !["worker"] = <<Call("ScheduleSendRtcp", i, <<>>)>>]
  /\ sends' = sends + 1
  /\ UNCHANGED <<userVars, sessionVars, routerVars, live, bound, run, queue, unread, given,
                 arrivals>>

\* RtcpSender::ScheduleSendRtcp sends and comes again. On a sender that was freed
\* it may still do so, with what is left in its memory.
ScheduleSendRtcp ==
  LET i == Head(todo["worker"]).session
  IN  /\ Running("worker", "ScheduleSendRtcp")
      /\ queue' = Pushed("network", Call("Send", i, <<>>))
      /\ delayed' = delayed \cup {i}
      /\ Continue("worker", <<>>)
      /\ UNCHANGED <<userVars, sessionVars, routerVars, live, bound, run, outsideVars>>

SenderIsFreed == <<"rtcp_sender", Head(todo["worker"]).session>> \notin live

\* It takes has_sent_bye_ of a freed sender to be set.
ScheduleNothing ==
  /\ Running("worker", "ScheduleSendRtcp") /\ SenderIsFreed
  /\ Continue("worker", <<>>)
  /\ UNCHANGED <<userVars, sessionVars, routerVars, live, bound, run, queue, delayed,
                 outsideVars>>

\* It does not return: the process crashes, or must be ended.
ScheduleCrashes ==
  /\ Running("worker", "ScheduleSendRtcp") /\ SenderIsFreed
  /\ owner' = "crashed"
  /\ run' = [th \in Threads |-> "stopped"]
  /\ queue' = [th \in Threads |-> <<>>] /\ todo' = [th \in Threads |-> <<>>]
  /\ delayed' = {} /\ bound' = FALSE
  /\ UNCHANGED <<config, at, starts, sessionVars, routerVars, live, outsideVars>>

-----------------------------------------------------------------------------
(* The signaling thread *)

\* MediaSession::OnRtpPacket calls the user back.
CallBack ==
  LET call == Head(todo["signaling"])
  IN  /\ Running("signaling", "OnRtpPacket")
      /\ given' = IF OnInitialized(call.session)
                  THEN Append(given, [start |-> starts, session |-> call.session,
                                      batch |-> call.batch])
                  ELSE given
      /\ Continue("signaling", <<>>)
      /\ UNCHANGED <<userVars, sessionVars, routerVars, live, bound, run, queue, delayed,
                     unread, arrivals, sends>>

\* MediaSession::SendRtpPacket on the signaling thread, RtpSender::SendRtp.
SendRtp ==
  LET i == Head(todo["signaling"]).session
  IN  /\ Running("signaling", "SendRtpPacket")
      /\ queue' = IF OnInitialized(i) /\ Sends(config[i])
                  THEN Pushed("network", Call("Send", i, <<>>)) ELSE queue
      /\ Continue("signaling", <<>>)
      /\ UNCHANGED <<userVars, sessionVars, routerVars, live, bound, run, delayed,
                     outsideVars>>

NetworkStep == TakeTask("network") \/ ReadSocket \/ PassToWorker \/ SendTo
WorkerStep ==
  \/ TakeTask("worker") \/ DropRtp \/ RouteRtp \/ GetPackets \/ RouteRtcp
  \/ AnswerNetwork \/ PassToSignaling
  \/ (\E i \in delayed : BeginReport(i))
  \/ ScheduleSendRtcp \/ ScheduleNothing \/ ScheduleCrashes
SignalingStep == TakeTask("signaling") \/ CallBack \/ SendRtp

-----------------------------------------------------------------------------
(* StartSession *)

\* The threads and the router are created.
StartSession ==
  /\ owner = "idle" /\ starts < MaxStarts
  /\ config' \in {c \in Configs : \A i \in DOMAIN c : Accepted(c[i])}
  /\ run' = [th \in Threads |-> "running"]
  /\ live' = live \cup {Shared("scheduler"), Shared("router")}
  /\ owner' = "tranceiver"
  /\ starts' = starts + 1
  /\ UNCHANGED <<at, sessionVars, routerVars, bound, queue, todo, delayed, outsideVars>>

\* RtpRtcpTranceiver::Create fails when the address is in use, by a socket that
\* an earlier attempt left open as well; the tranceiver of that attempt goes. The
\* new one is the handler of the scheduler from now on.
CreateTranceiver ==
  /\ owner = "tranceiver"
  /\ at' = 1
  /\ \/ /\ ~bound /\ bound' = TRUE
        /\ live' = live \cup {Shared("tranceiver"), Shared("handler")}
        /\ owner' = "session"
     \/ live' = live \ {Shared("tranceiver")} /\ owner' = "stop" /\ UNCHANGED bound
  /\ UNCHANGED <<config, starts, sessionVars, routerVars, threadVars, outsideVars>>

\* A MediaSession and its RtpSender.
CreateSession ==
  /\ owner = "session" /\ at <= Len(config)
  /\ live' = live \cup {<<"session", at>>}
                  \cup (IF Sends(config[at]) THEN {<<"rtp_sender", at>>} ELSE {})
  /\ owner' = IF SenderRefused(config[at]) THEN "failed" ELSE "rtcp_sender"
  /\ UNCHANGED <<config, at, starts, sessionVars, routerVars, bound, threadVars, outsideVars>>

\* RtcpSender::Initialize pushes ScheduleSendRtcp; the RtcpReceiver is created.
CreateRtcp ==
  /\ owner = "rtcp_sender"
  /\ live' = live \cup {<<"rtcp_sender", at>>, <<"rtcp_receiver", at>>}
  /\ delayed' = delayed \cup {at}
  /\ owner' = "rtp_receiver"
  /\ UNCHANGED <<config, at, starts, sessionVars, routerVars, bound, run, queue, todo,
                 outsideVars>>

CreateRtpReceiver ==
  /\ owner = "rtp_receiver"
  /\ live' = IF Receives(config[at]) THEN live \cup {<<"rtp_receiver", at>>} ELSE live
  /\ owner' = IF ReceiverRefused(config[at]) THEN "failed" ELSE "add_rtp_dst"
  /\ UNCHANGED <<config, at, starts, sessionVars, routerVars, bound, threadVars, outsideVars>>

AddRtpDst ==
  /\ owner = "add_rtp_dst"
  /\ Receives(config[at]) => ~Routing
  /\ rtp_destinations' =
       IF Receives(config[at]) THEN Append(rtp_destinations, at) ELSE rtp_destinations
  /\ owner' = "add_rtcp_dst"
  /\ UNCHANGED <<config, at, starts, sessionVars, rtcp_destinations, live, bound, threadVars,
                 outsideVars>>

AddRtcpDst ==
  /\ owner = "add_rtcp_dst" /\ ~Routing
  /\ rtcp_destinations' = Append(rtcp_destinations, at)
  /\ owner' = "initialized"
  /\ UNCHANGED <<config, at, starts, sessionVars, rtp_destinations, live, bound, threadVars,
                 outsideVars>>

\* initialized_ is set and the session kept.
KeepSession ==
  /\ owner = "initialized"
  /\ initialized' = initialized \cup {at}
  /\ media_sessions' = Append(media_sessions, at)
  /\ at' = at + 1
  /\ owner' = "session"
  /\ UNCHANGED <<config, starts, has_started, receiverVars, routerVars, live, bound,
                 threadVars, outsideVars>>

ReturnStarted ==
  /\ owner = "session" /\ at > Len(config)
  /\ has_started' = TRUE
  /\ owner' = "started"
  /\ UNCHANGED <<config, at, starts, media_sessions, initialized, receiverVars, routerVars,
                 live, bound, threadVars, outsideVars>>

\* Initialize frees what it made, and goto failed the session; a task pushed for
\* its RtcpSender stays where it is.
FailInitialize ==
  /\ owner = "failed"
  /\ live' = {x \in live : x[2] # at}
  /\ at' = 1
  /\ owner' = "stop"
  /\ UNCHANGED <<config, starts, sessionVars, routerVars, bound, threadVars, outsideVars>>

-----------------------------------------------------------------------------
(* The failed path of StartSession and the destructor *)

\* Mutant of StopOrder: the destructor of the worker thread is left to stop it.
StopOrderOfTwo == <<"network", "signaling">>

StopOrder == <<"network", "signaling", "worker">>

StopThread ==
  /\ owner = "stop" /\ at <= Len(StopOrder)
  /\ run' = [run EXCEPT ![StopOrder[at]] = "stopping"]
  /\ owner' = "join"
  /\ UNCHANGED <<config, at, starts, sessionVars, routerVars, live, bound, queue, todo,
                 delayed, outsideVars>>

\* Mutant of JoinThread: the task that runs is not waited for.
DetachThread ==
  LET th == StopOrder[at]
  IN  /\ owner = "join"
      /\ run' = [run EXCEPT ![th] = "stopped"]
      /\ queue' = [queue EXCEPT ![th] = <<>>]
      /\ delayed' = IF th = "worker" THEN {} ELSE delayed
      /\ at' = at + 1
      /\ owner' = "stop"
      /\ UNCHANGED <<config, starts, sessionVars, routerVars, live, bound, todo, outsideVars>>

\* Mutant of JoinThread: all its tasks must have run.
JoinDrainedThread ==
  LET th == StopOrder[at]
  IN  /\ owner = "join" /\ todo[th] = <<>> /\ queue[th] = <<>>
      /\ run' = [run EXCEPT ![th] = "stopped"]
      /\ delayed' = IF th = "worker" THEN {} ELSE delayed
      /\ at' = at + 1
      /\ owner' = "stop"
      /\ UNCHANGED <<config, starts, sessionVars, routerVars, live, bound, queue, todo,
                     outsideVars>>

\* The thread ends when its task does; its other tasks are dropped.
JoinThread ==
  LET th == StopOrder[at]
  IN  /\ owner = "join" /\ todo[th] = <<>>
      /\ run' = [run EXCEPT ![th] = "stopped"]
      /\ queue' = [queue EXCEPT ![th] = <<>>]
      /\ delayed' = IF th = "worker" THEN {} ELSE delayed
      /\ at' = at + 1
      /\ owner' = "stop"
      /\ UNCHANGED <<config, starts, sessionVars, routerVars, live, bound, todo, outsideVars>>

\* The sessions, the router, the scheduler and the threads are freed, in the
\* destructor the tranceiver as well; its socket stays open.
Release ==
  /\ owner = "stop" /\ at > Len(StopOrder)
  /\ live' = IF has_started THEN {} ELSE live \cap {Shared("tranceiver")}
  /\ media_sessions' = <<>> /\ initialized' = {}
  /\ cached_packets' = [i \in Sessions |-> {}] /\ latest_callback' = [i \in Sessions |-> 0]
  /\ rtp_destinations' = <<>> /\ rtcp_destinations' = <<>>
  /\ owner' = IF has_started THEN "destroyed" ELSE "idle"
  /\ UNCHANGED <<config, at, starts, has_started, bound, threadVars, outsideVars>>

\* The destructor is called.
Destroy ==
  /\ owner \in {"idle", "started"}
  /\ owner' = IF has_started THEN "stop" ELSE "destroyed"
  /\ live' = IF has_started THEN live ELSE {}
  /\ at' = 1
  /\ UNCHANGED <<config, starts, sessionVars, routerVars, bound, threadVars, outsideVars>>

OwnerStep ==
  \/ CreateTranceiver \/ CreateSession \/ CreateRtcp \/ CreateRtpReceiver \/ AddRtpDst
  \/ AddRtcpDst \/ KeepSession \/ ReturnStarted \/ FailInitialize
  \/ StopThread \/ JoinThread \/ Release

-----------------------------------------------------------------------------
(* The user and the network *)

\* QosrtpSessionImpl::SendRtpPacket: to the first session with the ssrc.
SendRtpPacket(ssrc) ==
  LET fits(i) == config[i].local = ssrc
      found == SelectSeq(media_sessions, fits)
  IN  /\ owner = "started" /\ sends < MaxSends /\ found # <<>>
      /\ queue' = IF OnInitialized(found[1]) /\ Sends(config[found[1]])
                  THEN Pushed("signaling", Call("SendRtpPacket", found[1], <<>>)) ELSE queue
      /\ sends' = sends + 1
      /\ UNCHANGED <<userVars, sessionVars, routerVars, live, bound, run, todo, delayed,
                     unread, given, arrivals>>

Arrive(d) ==
  /\ bound /\ arrivals < MaxArrivals
  /\ arrivals' = arrivals + 1
  /\ unread' = Append(unread, d)
  /\ UNCHANGED <<userVars, sessionVars, routerVars, live, bound, threadVars, given, sends>>

Init ==
  /\ config = <<>> /\ owner = "idle" /\ at = 1 /\ starts = 0
  /\ has_started = FALSE /\ media_sessions = <<>> /\ initialized = {}
  /\ cached_packets = [i \in Sessions |-> {}] /\ latest_callback = [i \in Sessions |-> 0]
  /\ rtp_destinations = <<>> /\ rtcp_destinations = <<>>
  /\ live = {} /\ bound = FALSE
  /\ run = [th \in Threads |-> "stopped"]
  /\ queue = [th \in Threads |-> <<>>] /\ todo = [th \in Threads |-> <<>>]
  /\ delayed = {}
  /\ unread = <<>> /\ given = <<>>
  /\ arrivals = 0 /\ sends = 0

Next ==
  \/ NetworkStep \/ WorkerStep \/ SignalingStep
  \/ StartSession \/ OwnerStep \/ Destroy
  \/ \E i \in DOMAIN config : SendRtpPacket(config[i].local)
  \/ \E d \in Datagrams : Arrive(d)

Spec == Init /\ [][Next]_vars

\* The operating system runs the threads and the call under way. Nobody need
\* call, and nothing need arrive.
FairSpec ==
  /\ Spec
  /\ WF_vars(NetworkStep) /\ WF_vars(WorkerStep) /\ WF_vars(SignalingStep)
  /\ WF_vars(OwnerStep)

-----------------------------------------------------------------------------
(* Properties *)

Objects(kinds, i) == {<<kind, i>> : kind \in kinds}

\* The objects a call dereferences.
Touched(th, call) ==
  LET i == call.session
  IN  CASE th = "network" /\ call.op = "Send" -> {Shared("tranceiver")}
        [] th = "network" /\ call.op # "Send" -> {Shared("tranceiver"), Shared("router")}
        [] th = "worker" /\ call.op = "OnRtp" ->
             {Shared("router")} \cup {<<"rtp_receiver", k>> : k \in ToSet(rtp_destinations)}
        [] th = "worker" /\ call.op = "OnRtcp" ->
             {Shared("router")} \cup {<<"rtcp_receiver", k>> : k \in ToSet(rtcp_destinations)}
        [] call.op = "NotifyLoss" -> Objects({"session", "rtp_receiver", "rtcp_sender"}, i)
        [] call.op = "GetPackets" -> Objects({"rtp_receiver"}, i)
        [] call.op = "NotifyNackReceived" ->
             Objects({"session", "rtcp_receiver"} \cup
                     (IF Sends(config[i]) THEN {"rtp_sender"} ELSE {}), i)
        [] call.op = "ScheduleSendRtcp" -> Objects({"session", "rtcp_sender"}, i)
        [] call.op = "OnRtpPacket" -> Objects({"session", "rtp_receiver"}, i)
        [] call.op = "SendRtpPacket" -> Objects({"session", "rtp_sender"}, i)

\* No thread calls into an object that was destroyed or never made, while a
\* session starts, fails to start or is destroyed under it, but for one call: the
\* scheduled report of a session whose RtpReceiver was refused. And the network
\* thread always has its scheduler to wait in.
OnlyLiveObjectsCalled ==
  /\ \A th \in Threads : todo[th] # <<>> =>
       LET call == Head(todo[th])
       IN  \/ Touched(th, call) \subseteq live
           \/ call.op = "ScheduleSendRtcp" /\ ReceiverRefused(config[call.session])
  /\ run["network"] # "stopped" => Shared("scheduler") \in live

\* The RtcpSender of every report that is made is there: "Schedule_thread must be
\* stopped before destruction" (rtcp_sender.h:52). A refused RtpReceiver has
\* Initialize free the sender while the worker thread holds its task.
ReportsOfLiveSenders == Running("worker", "ScheduleSendRtcp") => ~SenderIsFreed

\* StartSession succeeds with every media session initialized and routed, or
\* fails and leaves no thread, no task and no destination behind.
AllOrNothing ==
  /\ owner = "started" =>
       /\ initialized = DOMAIN config /\ ToSet(rtcp_destinations) = DOMAIN config
       /\ ToSet(rtp_destinations) = {i \in DOMAIN config : Receives(config[i])}
       /\ \A th \in Threads : run[th] = "running"
  /\ owner \in {"idle", "destroyed"} =>
       /\ rtp_destinations = <<>> /\ rtcp_destinations = <<>> /\ delayed = {}
       /\ \A th \in Threads : run[th] = "stopped" /\ queue[th] = <<>> /\ todo[th] = <<>>

\* The user gets the packets of a media session in the order of its stream and
\* none twice, from one batch to the next: however they arrived, were repeated or
\* came again as rtx, waited in the cache, and passed the queues of two threads.
GivenInOrder ==
  \A j, k \in DOMAIN given :
    j < k /\ given[j].start = given[k].start /\ given[j].session = given[k].session =>
      \A m \in given[j].batch, n \in given[k].batch : m < n

\* A packet that session i will accept waits in the socket.
Unread(i, n) == \E k \in DOMAIN unread :
  /\ unread[k].position = n /\ IsRtp(unread[k])
  /\ i \in ToSet(rtp_destinations) /\ Expects(i, unread[k].ssrc) /\ Accepts(i, unread[k])
  /\ \A j \in 1..(i - 1) : ~Expects(j, unread[k].ssrc)

IsGiven(i, n) == \E k \in DOMAIN given :
  given[k].start = starts /\ given[k].session = i /\ n \in given[k].batch

\* When StartSession has returned, a packet in the socket gets into the cache of the
\* receiver that expects it, unless it comes too late; and a packet in the cache,
\* put there before or after initialized_ was set, reaches the user or waits there
\* for ever: none is dropped on the way, unless the session is destroyed.
StartedSessionDelivers ==
  \A i \in Receivers, n \in Positions :
    /\ owner = "started" /\ Unread(i, n) ~>
         owner # "started" \/ n \in cached_packets[i] \/ n <= latest_callback[i]
    /\ owner = "started" /\ n \in cached_packets[i] ~>
         owner # "started" \/ IsGiven(i, n) \/ [](n \in cached_packets[i])

\* StartSession and the destructor return, whatever the threads are doing, unless
\* a report of a freed sender brought the process down.
CallsReturn ==
  owner \notin {"idle", "started", "destroyed"} ~>
    owner \in {"idle", "started", "destroyed", "crashed"}
===============================================================================
