------------------------------ MODULE RtcpSession ------------------------------
(***************************************************************************)
(* The RTCP side of one MediaSession: RtcpSender with its schedule         *)
(* (src/src/rtp_rtcp/rtcp_sender.h, .cc), the BYE that RtcpReceiver        *)
(* parses, and what MediaSession tells them of the RTP traffic.            *)
(*                                                                         *)
(* The worker thread runs the schedule, a delayed task that pushes itself  *)
(* again, and the handlers of arriving packets, which may end in a NACK.   *)
(* Other threads finish Initialize and send BYE. mutex_ of RtcpSender      *)
(* makes each sending one action; the schedule reads the clock before it   *)
(* takes it.                                                               *)
(*                                                                         *)
(* Of the RTP received the report needs the first and the highest extended *)
(* number and the count of packets; RtpReceiver has the arithmetic of the  *)
(* numbers. What tells a sender report from a receiver report, the jitter, *)
(* LSR, DLSR and the contents of a NACK are left out.                      *)
(***************************************************************************)
EXTENDS SeqNum, Sequences, SequencesExt

CONSTANTS
  Interval,     \* rtcp_report_interval_ms
  MaxLateness,  \* a task is done at most this long after it is due
  ReceivesRtp,  \* direction of the session is not kSendOnly
  FirstSeqs,    \* the numbers the first packet to arrive may have
  Losses,       \* how many packets may be missing between the ones that have
                \* arrived and the next, which comes after or before them
  MaxReceived,  \* bound on the packets received
  MaxSent,      \* bound on the packets sent for another BYE
  MaxTime       \* bound on the clock

ASSUME RtcpAssumption ==
  /\ Interval \in Nat /\ MaxLateness \in Nat
  /\ ReceivesRtp \in BOOLEAN
  /\ FirstSeqs \subseteq SeqNums /\ Losses \subseteq Nat
  /\ MaxReceived \in Nat /\ MaxSent \in Nat /\ MaxTime \in Nat

VARIABLES
  now,
  initialized,        \* initialized_ of MediaSession
  received,           \* packets received
  first, highest,     \* first_extended_seq_num, extended_seq_num of the statistics
  worker,             \* what the worker thread is in the middle of
  scheduled,          \* execution times of the pending ScheduleSendRtcp
  utc_ms_next_send, has_received_rtp, has_sent_bye, has_sent_rtcp,
  last_report,        \* last_report_remote_sender_info
  has_received_bye,
  sent,               \* how many compound packets were sent
  packet,             \* the last of them
  sent_at, sent_info  \* history: its time, and the statistics at that time

environment == <<initialized, received, first, highest>>
senderVars == <<utc_ms_next_send, has_received_rtp, has_sent_bye,
                has_sent_rtcp, last_report>>
outVars == <<sent, packet, sent_at, sent_info>>
vars == <<now, environment, worker, scheduled, senderVars, has_received_bye, outVars>>

Idle == [at |-> "idle", now |-> 0, due |-> 0]

\* GetRemoteSenderInfo: the statistics of OnRtpPacket. The loss is counted from
\* the highest number less the first, and not below 0.
RemoteSenderInfo ==
  LET loss == (highest - first) - received
  IN  [first_extended_seq_num |-> first, extended_seq_num |-> highest,
       cumulative_loss |-> IF loss > 0 THEN loss ELSE 0]

NoInfo == [first_extended_seq_num |-> 0, extended_seq_num |-> 0, cumulative_loss |-> 0]

\* Of MediaSession.
HasReceivedRtp == initialized /\ ReceivesRtp /\ received > 0
HasReceivedBye == initialized /\ has_received_bye

-----------------------------------------------------------------------------
(* Reports *)

\* The packets lost and expected between two states of the statistics.
LossBetween(a, b) == b.cumulative_loss - a.cumulative_loss
ExpectedBetween(a, b) == b.extended_seq_num - a.extended_seq_num

\* The fraction lost, in 256ths, of what was lost and expected.
Fraction(loss, expected) ==
  IF expected = 0 \/ loss <= 0 THEN 0 ELSE (loss * 256) \div expected

\* Where the packets expected are counted from.
ExpectedFrom(info) ==
  IF has_sent_rtcp THEN last_report.extended_seq_num ELSE info.first_extended_seq_num

\* Mutant of SinceLastReport: the loss is that of the whole stream.
SinceLastReportTotal(info) ==
  Fraction(info.cumulative_loss, info.extended_seq_num - ExpectedFrom(info)) % 256

\* Cast to 8 bits. last_report is zero until a report block was sent.
SinceLastReport(info) ==
  Fraction(LossBetween(last_report, info), info.extended_seq_num - ExpectedFrom(info)) % 256

\* Sends a compound packet: a sender or receiver report, with a report block once
\* RTP was received, and the NACK or BYE asked for.
SendRtcp(kind) ==
  LET info == RemoteSenderInfo
  IN  /\ has_received_rtp' = (has_received_rtp \/ HasReceivedRtp)
      /\ packet' = [kind |-> kind,
                    block |-> has_received_rtp',
                    fraction |-> IF has_received_rtp' THEN SinceLastReport(info) ELSE 0]
      /\ last_report' = IF has_received_rtp' THEN info ELSE last_report
      /\ has_sent_rtcp' = TRUE
      /\ sent' = sent + 1
      /\ sent_at' = now
      /\ sent_info' = info

-----------------------------------------------------------------------------
(* The schedule, on the worker thread *)

\* The task starts and reads the clock.
BeginSchedule ==
  /\ worker = Idle
  /\ \E i \in DOMAIN scheduled :
       /\ scheduled[i] <= now
       /\ worker' = [at |-> "schedule", now |-> now, due |-> scheduled[i]]
       /\ scheduled' = RemoveAt(scheduled, i)
  /\ UNCHANGED <<now, environment, senderVars, has_received_bye, outVars>>

\* After a BYE of either side the schedule ends.
EndSchedule ==
  /\ worker.at = "schedule"
  /\ has_sent_bye \/ HasReceivedBye
  /\ worker' = Idle
  /\ UNCHANGED <<now, environment, scheduled, senderVars, has_received_bye, outVars>>

\* Mutant of Postpone: the task is not pushed again.
PostponeForEver ==
  /\ worker.at = "schedule"
  /\ ~(has_sent_bye \/ HasReceivedBye)
  /\ worker.now < utc_ms_next_send
  /\ worker' = Idle
  /\ UNCHANGED <<now, environment, scheduled, senderVars, has_received_bye, outVars>>

\* A NACK was sent since: the report waits for the rest of the interval.
Postpone ==
  /\ worker.at = "schedule"
  /\ ~(has_sent_bye \/ HasReceivedBye)
  /\ worker.now < utc_ms_next_send
  /\ scheduled' = Append(scheduled, now + (utc_ms_next_send - worker.now))
  /\ worker' = Idle
  /\ UNCHANGED <<now, environment, senderVars, has_received_bye, outVars>>

\* Mutant of Report: BYE is not looked for after the lock was taken.
ReportAfterBye ==
  /\ worker.at = "schedule"
  /\ worker.now >= utc_ms_next_send
  /\ SendRtcp("report")
  /\ utc_ms_next_send' = worker.now + Interval
  /\ scheduled' = Append(scheduled, now + Interval)
  /\ worker' = Idle
  /\ UNCHANGED <<now, environment, has_sent_bye, has_received_bye>>

Report ==
  /\ worker.at = "schedule"
  /\ ~(has_sent_bye \/ HasReceivedBye)
  /\ worker.now >= utc_ms_next_send
  /\ SendRtcp("report")
  /\ utc_ms_next_send' = worker.now + Interval
  /\ scheduled' = Append(scheduled, now + Interval)
  /\ worker' = Idle
  /\ UNCHANGED <<now, environment, has_sent_bye, has_received_bye>>

-----------------------------------------------------------------------------
(* Arriving packets, on the worker thread *)

\* An RTP packet with this extended number is counted. One from before the first
\* makes a new first while the numbers are in their first cycle. The handler goes
\* on to NotifyLossPacketSeqsForNack.
ReceiveRtp(number) ==
  /\ ReceivesRtp
  /\ worker = Idle
  /\ received < MaxReceived
  /\ received' = received + 1
  /\ highest' = IF received = 0 \/ number > highest THEN number ELSE highest
  /\ first' = IF received = 0 \/ (highest' < SeqSpace /\ number < first)
              THEN number ELSE first
  /\ worker' = [Idle EXCEPT !.at = "nack"]
  /\ UNCHANGED <<now, initialized, scheduled, senderVars, has_received_bye,
                 outVars>>

\* Nothing to ask for, or nobody to ask.
SkipNack ==
  /\ worker.at = "nack"
  /\ worker' = Idle
  /\ UNCHANGED <<now, environment, scheduled, senderVars, has_received_bye, outVars>>

\* Mutant of SendNack: the schedule starts anew and the old one goes on.
SendNackSchedules ==
  /\ worker.at = "nack"
  /\ initialized /\ highest > first
  /\ ~(has_sent_bye \/ HasReceivedBye)
  /\ SendRtcp("nack")
  /\ utc_ms_next_send' = now + Interval
  /\ scheduled' = Append(scheduled, now + Interval)
  /\ worker' = Idle
  /\ UNCHANGED <<now, environment, has_sent_bye, has_received_bye>>

\* There may be gaps: a NACK goes out with a report, which puts off the schedule.
SendNack ==
  /\ worker.at = "nack"
  /\ initialized /\ highest > first
  /\ ~(has_sent_bye \/ HasReceivedBye)
  /\ SendRtcp("nack")
  /\ utc_ms_next_send' = now + Interval
  /\ worker' = Idle
  /\ UNCHANGED <<now, environment, scheduled, has_sent_bye, has_received_bye>>

\* A BYE of the other side.
ReceiveBye ==
  /\ worker = Idle
  /\ ~has_received_bye
  /\ has_received_bye' = TRUE
  /\ UNCHANGED <<now, environment, worker, scheduled, senderVars, outVars>>

-----------------------------------------------------------------------------
(* Other threads *)

SendBye ==
  /\ initialized
  /\ sent < MaxSent
  /\ SendRtcp("bye")
  /\ has_sent_bye' = TRUE
  /\ UNCHANGED <<now, environment, worker, scheduled, utc_ms_next_send, has_received_bye>>

FinishInitialize ==
  /\ ~initialized
  /\ initialized' = TRUE
  /\ UNCHANGED <<now, received, first, highest, worker, scheduled, senderVars,
                 has_received_bye, outVars>>

\* No task is late by more than MaxLateness.
Tick ==
  /\ now < MaxTime
  /\ \A i \in DOMAIN scheduled : now < scheduled[i] + MaxLateness
  /\ worker.at = "schedule" => now < worker.due + MaxLateness
  /\ now' = now + 1
  /\ UNCHANGED <<environment, worker, scheduled, senderVars, has_received_bye, outVars>>

\* RtcpSender::Initialize has pushed the first task.
Init ==
  /\ now = 0
  /\ initialized = FALSE
  /\ received = 0 /\ first = 0 /\ highest = 0
  /\ worker = Idle
  /\ scheduled = <<Interval \div 2>>
  /\ utc_ms_next_send = Interval \div 2
  /\ has_received_rtp = FALSE
  /\ has_sent_bye = FALSE /\ has_sent_rtcp = FALSE
  /\ last_report = NoInfo
  /\ has_received_bye = FALSE
  /\ sent = 0 /\ sent_at = 0
  /\ packet = [kind |-> "none", block |-> FALSE, fraction |-> 0]
  /\ sent_info = NoInfo

\* What may arrive: the stream goes on after a loss or not, a packet comes again,
\* or late, or it is from before the first.
Arrivals ==
  IF received = 0 THEN FirstSeqs
  ELSE {highest} \cup {highest + 1 + lost : lost \in Losses}
         \cup {n \in {first - 1 - lost : lost \in Losses} :
                 n >= 0 /\ highest - n <= HalfRange}

Next ==
  \/ BeginSchedule \/ EndSchedule \/ Postpone \/ Report
  \/ \E number \in Arrivals : ReceiveRtp(number)
  \/ SkipNack \/ SendNack \/ ReceiveBye
  \/ SendBye \/ FinishInitialize
  \/ Tick

Spec == Init /\ [][Next]_vars

-----------------------------------------------------------------------------
(* Properties *)

Ended == has_sent_bye \/ HasReceivedBye

Schedules == Len(scheduled) + (IF worker.at = "schedule" THEN 1 ELSE 0)

\* The schedule goes on until a BYE, as one task: NACKs in between neither end it
\* nor start a second one.
OneSchedule == Schedules <= 1 /\ (Schedules = 0 => Ended)

\* Until a BYE, a compound packet goes out every Interval, whatever NACKs put off
\* the schedule, but for the lateness of the tasks.
SilenceBounded == ~Ended => now <= sent_at + Interval + 2 * MaxLateness

\* A scheduled report follows the packet before it no sooner than an Interval,
\* but for the time between the clock and the lock.
ReportsPaced ==
  [][sent' # sent /\ packet'.kind = "report" /\ has_sent_rtcp
       => now + MaxLateness >= sent_at + Interval]_vars

\* After a BYE of either side nothing but a BYE is sent, also when it comes while
\* the schedule waits for the lock.
SilentAfterBye == [][sent' # sent /\ Ended => packet'.kind = "bye"]_vars

\* A report block is about the time since the packet before, when that carried a
\* block: what was lost then is in no other fraction, and the fraction fits the 8
\* bits it is cast to - unless a packet from before the first came in between,
\* whose losses are counted and whose numbers are not. The first block is about the
\* whole stream, or makes the loss look smaller, never larger: after packets
\* without a block it takes the packets expected to begin at 0
\* (rtcp_sender.cc:154-175).
FractionSinceLastReport ==
  [][sent' # sent /\ packet'.block =>
       LET info == RemoteSenderInfo
           ofStream == Fraction(info.cumulative_loss, highest - first)
       IN  IF has_received_rtp
           THEN first = sent_info.first_extended_seq_num =>
                  packet'.fraction = Fraction(LossBetween(sent_info, info),
                                              ExpectedBetween(sent_info, info))
           ELSE /\ packet'.fraction <= ofStream
                /\ ~has_sent_rtcp => packet'.fraction = ofStream]_vars
===============================================================================
