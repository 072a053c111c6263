--------------------------- MODULE RtcpSessionProofs ---------------------------
(* Proofs about the schedule of RtcpSession, for every Interval and lateness, *)
(* and about NackPacking, for every mask length, modulus and list.            *)
EXTENDS RtcpSession, NackPacking, SeqNumProofs, TLAPS

\* The types of what the schedule depends on.
ScheduleTypeOK ==
  /\ now \in Nat /\ utc_ms_next_send \in Nat /\ sent_at \in Nat
  /\ sent_at <= now
  /\ worker.now \in Nat /\ worker.due \in Nat
  /\ has_sent_bye \in BOOLEAN /\ has_sent_rtcp \in BOOLEAN

\* The one task is pending, due in time for the next report, ...
Pending ==
  \E e \in Nat : /\ scheduled = <<e>>
                 /\ worker.at # "schedule"
                 /\ now <= e + MaxLateness
                 /\ ~Ended => e <= sent_at + Interval + MaxLateness

\* ... or it runs, ...
Running ==
  /\ scheduled = <<>> /\ worker.at = "schedule"
  /\ worker.due <= worker.now /\ worker.now <= now
  /\ now <= worker.due + MaxLateness
  /\ ~Ended => worker.due <= sent_at + Interval + MaxLateness

\* ... or a BYE has ended it.
Over == scheduled = <<>> /\ worker.at # "schedule" /\ Ended

\* utc_ms_next_send is an Interval after the last packet.
NextSend ==
  ~Ended => /\ utc_ms_next_send <= sent_at + Interval
            /\ has_sent_rtcp => sent_at + Interval <= utc_ms_next_send + MaxLateness

\* The inductive invariant.
ScheduleInv == ScheduleTypeOK /\ (Pending \/ Running \/ Over) /\ NextSend

\* The only task leaves an empty list.
LEMMA RemoveOnly == ASSUME NEW e \in Nat PROVE RemoveAt(<<e>>, 1) = <<>>
BY DEF RemoveAt

\* A task pushed on an empty list is the only one.
LEMMA AppendOnly == ASSUME NEW e PROVE Append(<<>>, e) = <<e>>
OBVIOUS

\* The first task is due after half an Interval.
LEMMA ScheduleInit == Init => ScheduleInv
<1> SUFFICES ASSUME Init PROVE ScheduleInv
  OBVIOUS
<1>1. Interval \div 2 \in Nat /\ Interval \div 2 <= Interval
  BY RtcpAssumption
<1>2. /\ now = 0 /\ sent_at = 0 /\ has_sent_bye = FALSE /\ has_sent_rtcp = FALSE
      /\ scheduled = <<Interval \div 2>> /\ utc_ms_next_send = Interval \div 2
      /\ worker.at = "idle" /\ worker.now = 0 /\ worker.due = 0
  BY DEF Init, Idle
<1> DEFINE half == Interval \div 2
<1> HIDE DEF half
<1>3. half \in Nat /\ half <= Interval /\ scheduled = <<half>> /\ utc_ms_next_send = half
  BY <1>1, <1>2 DEF half
<1>4. ScheduleTypeOK
  <2>1. now \in Nat /\ sent_at \in Nat /\ sent_at <= now
    BY <1>2
  <2>2. utc_ms_next_send \in Nat /\ worker.now \in Nat /\ worker.due \in Nat
    BY <1>2, <1>3
  <2> QED BY <1>2, <2>1, <2>2 DEF ScheduleTypeOK
<1>5. NextSend
  BY <1>2, <1>3, RtcpAssumption DEF NextSend
<1>6. Pending
  BY <1>2, <1>3, RtcpAssumption DEF Pending
<1> QED BY <1>4, <1>5, <1>6 DEF ScheduleInv

\* What a sending does to the schedule's variables.
LEMMA Sending ==
  ASSUME NEW kind, SendRtcp(kind)
  PROVE  has_sent_rtcp' = TRUE /\ sent_at' = now
BY DEF SendRtcp

USE RtcpAssumption DEF ScheduleInv, environment, senderVars, outVars

\* The task starts: it was the only one pending.
LEMMA BeginKeeps ==
  ASSUME ScheduleInv, BeginSchedule
  PROVE  ScheduleInv'
<1>1. PICK i \in DOMAIN scheduled :
        /\ scheduled[i] <= now
        /\ worker' = [at |-> "schedule", now |-> now, due |-> scheduled[i]]
        /\ scheduled' = RemoveAt(scheduled, i)
  BY DEF BeginSchedule
<1>2. worker.at # "schedule" /\ scheduled # <<>>
  BY <1>1 DEF BeginSchedule, Idle
<1>3. PICK e \in Nat : /\ scheduled = <<e>>
                       /\ now <= e + MaxLateness
                       /\ ~Ended => e <= sent_at + Interval + MaxLateness
  BY <1>2 DEF Pending, Running, Over
<1>4. i = 1 /\ scheduled[i] = e
  BY <1>1, <1>3
<1>5. scheduled' = <<>>
  BY <1>1, <1>3, <1>4, RemoveOnly
<1>6. UNCHANGED <<now, utc_ms_next_send, sent_at, has_sent_bye, has_sent_rtcp, Ended>>
  BY DEF BeginSchedule, Ended, HasReceivedBye
<1>7. ScheduleTypeOK'
  BY <1>1, <1>3, <1>4, <1>6 DEF ScheduleTypeOK
<1>8. Running'
  BY <1>1, <1>3, <1>4, <1>5, <1>6 DEF Running, ScheduleTypeOK
<1>9. NextSend'
  BY <1>6 DEF NextSend
<1> QED BY <1>7, <1>8, <1>9

\* The task runs and ends after a BYE.
LEMMA EndKeeps ==
  ASSUME ScheduleInv, EndSchedule
  PROVE  ScheduleInv'
<1>1. Ended /\ Ended'
  BY DEF EndSchedule, Ended, HasReceivedBye
<1>2. ScheduleTypeOK'
  BY DEF EndSchedule, ScheduleTypeOK, Idle
<1>3. Over'
  BY <1>1 DEF EndSchedule, Over, Pending, Running, Idle
<1>4. NextSend'
  BY <1>1 DEF NextSend
<1> QED BY <1>2, <1>3, <1>4

\* The task runs and is pushed again for the rest of the interval.
LEMMA PostponeKeeps ==
  ASSUME ScheduleInv, Postpone
  PROVE  ScheduleInv'
<1> DEFINE e == now + (utc_ms_next_send - worker.now)
<1>1. /\ ~Ended /\ worker.now < utc_ms_next_send
      /\ scheduled' = Append(scheduled, e) /\ worker' = Idle
      /\ UNCHANGED <<now, utc_ms_next_send, sent_at, has_sent_bye, has_sent_rtcp, Ended>>
  BY DEF Postpone, Ended, HasReceivedBye
<1>2. Running
  BY DEF Postpone, Pending, Over
<1>3. e \in Nat /\ now <= e /\ e <= sent_at + Interval + MaxLateness
  BY <1>1, <1>2 DEF ScheduleTypeOK, Running, NextSend
<1>4. scheduled' = <<e>>
  BY <1>1, <1>2, AppendOnly DEF Running
<1> HIDE DEF e
<1>5. ScheduleTypeOK'
  BY <1>1 DEF ScheduleTypeOK, Idle
<1>6. Pending'
  BY <1>1, <1>3, <1>4 DEF Pending, Idle, ScheduleTypeOK
<1>7. NextSend'
  BY <1>1 DEF NextSend
<1> QED BY <1>5, <1>6, <1>7

\* The task reports and is pushed again.
LEMMA ReportKeeps ==
  ASSUME ScheduleInv, Report
  PROVE  ScheduleInv'
<1>1. /\ ~Ended
      /\ utc_ms_next_send' = worker.now + Interval
      /\ scheduled' = Append(scheduled, now + Interval) /\ worker' = Idle
      /\ UNCHANGED <<now, has_sent_bye, Ended>>
      /\ has_sent_rtcp' = TRUE /\ sent_at' = now
  BY Sending DEF Report, Ended, HasReceivedBye
<1>2. Running
  BY DEF Report, Pending, Over
<1>3. scheduled' = <<now + Interval>>
  BY <1>1, <1>2, AppendOnly DEF Running
<1>4. ScheduleTypeOK'
  BY <1>1 DEF ScheduleTypeOK, Idle
<1>5. Pending'
  <2> DEFINE e == now + Interval
  <2>1. e \in Nat /\ now' <= e + MaxLateness /\ e <= sent_at' + Interval + MaxLateness
    BY <1>1 DEF ScheduleTypeOK
  <2>2. scheduled' = <<e>> /\ worker'.at # "schedule"
    BY <1>1, <1>3 DEF Idle
  <2> HIDE DEF e
  <2> QED BY <2>1, <2>2 DEF Pending
<1>6. NextSend'
  BY <1>1, <1>2 DEF NextSend, Running, ScheduleTypeOK
<1> QED BY <1>4, <1>5, <1>6

\* A NACK restarts the interval and leaves the task where it is.
LEMMA NackKeeps ==
  ASSUME ScheduleInv, SendNack
  PROVE  ScheduleInv'
<1>1. /\ ~Ended /\ worker.at = "nack"
      /\ utc_ms_next_send' = now + Interval /\ worker' = Idle
      /\ UNCHANGED <<now, scheduled, has_sent_bye, Ended>>
      /\ has_sent_rtcp' = TRUE /\ sent_at' = now
  BY Sending DEF SendNack, Ended, HasReceivedBye
<1>2. Pending
  BY <1>1 DEF Running, Over
<1>4. ScheduleTypeOK'
  BY <1>1 DEF ScheduleTypeOK, Idle
<1>5. Pending'
  <2>1. PICK e \in Nat : /\ scheduled = <<e>>
                         /\ now <= e + MaxLateness
                         /\ e <= sent_at + Interval + MaxLateness
    BY <1>1, <1>2 DEF Pending
  <2>2. e <= now + Interval + MaxLateness
    BY <2>1 DEF ScheduleTypeOK
  <2> QED BY <1>1, <2>1, <2>2 DEF Pending, Idle
<1>6. NextSend'
  BY <1>1 DEF NextSend, ScheduleTypeOK
<1> QED BY <1>4, <1>5, <1>6

\* A BYE from another thread ends the reports, not the task.
LEMMA ByeKeeps ==
  ASSUME ScheduleInv, SendBye
  PROVE  ScheduleInv'
<1>1. /\ Ended' /\ has_sent_bye' = TRUE /\ has_sent_rtcp' = TRUE /\ sent_at' = now
      /\ UNCHANGED <<now, worker, scheduled, utc_ms_next_send>>
  BY Sending DEF SendBye, Ended
<1>2. ScheduleTypeOK'
  BY <1>1 DEF ScheduleTypeOK
<1>3. (Pending \/ Running \/ Over)'
  BY <1>1 DEF Pending, Running, Over
<1>4. NextSend'
  BY <1>1 DEF NextSend
<1> QED BY <1>2, <1>3, <1>4

\* The clock waits for tasks that are late.
LEMMA TickKeeps ==
  ASSUME ScheduleInv, Tick
  PROVE  ScheduleInv'
<1>1. /\ now' = now + 1
      /\ UNCHANGED <<worker, scheduled, utc_ms_next_send, sent_at, has_sent_bye,
                     has_sent_rtcp, Ended>>
  BY DEF Tick, Ended, HasReceivedBye
<1>2. ScheduleTypeOK'
  BY <1>1 DEF ScheduleTypeOK
<1>3. (Pending \/ Running \/ Over)'
  <2>1. CASE Pending
    <3>1. PICK e \in Nat : /\ scheduled = <<e>> /\ worker.at # "schedule"
                           /\ ~Ended => e <= sent_at + Interval + MaxLateness
      BY <2>1 DEF Pending
    <3>2. now < e + MaxLateness
      BY <3>1 DEF Tick
    <3>3. now' <= e + MaxLateness
      BY <1>1, <3>2 DEF ScheduleTypeOK
    <3>4. Pending'
      BY <1>1, <3>1, <3>3 DEF Pending
    <3> QED BY <3>4
  <2>2. CASE Running
    BY <1>1, <2>2 DEF Running, Tick, ScheduleTypeOK
  <2>3. CASE Over
    BY <1>1, <2>3 DEF Over
  <2> QED BY <2>1, <2>2, <2>3
<1>4. NextSend'
  BY <1>1 DEF NextSend
<1> QED BY <1>2, <1>3, <1>4

\* The other steps leave the schedule alone; a BYE received, or the end of
\* Initialize, may end it.
LEMMA RestKeeps ==
  ASSUME ScheduleInv,
         \/ \E number : ReceiveRtp(number)
         \/ SkipNack \/ ReceiveBye \/ FinishInitialize \/ UNCHANGED vars
  PROVE  ScheduleInv'
<1>1. /\ UNCHANGED <<now, scheduled, utc_ms_next_send, sent_at, has_sent_bye,
                     has_sent_rtcp>>
      /\ Ended => Ended'
      /\ \/ UNCHANGED worker
         \/ /\ worker.at # "schedule" /\ worker'.at # "schedule"
            /\ worker'.now = 0 /\ worker'.due = 0
  <2>1. CASE \E number : ReceiveRtp(number)
    BY <2>1 DEF ReceiveRtp, Idle, Ended, HasReceivedBye
  <2>2. CASE SkipNack
    BY <2>2 DEF SkipNack, Idle, Ended, HasReceivedBye
  <2>3. CASE ReceiveBye \/ FinishInitialize
    BY <2>3 DEF ReceiveBye, FinishInitialize, Ended, HasReceivedBye
  <2>4. CASE UNCHANGED vars
    BY <2>4 DEF vars, Ended, HasReceivedBye
  <2> QED BY <2>1, <2>2, <2>3, <2>4
<1>2. ScheduleTypeOK'
  BY <1>1 DEF ScheduleTypeOK
<1>3. (Pending \/ Running \/ Over)'
  <2>1. CASE Pending
    <3>1. PICK e \in Nat : /\ scheduled = <<e>> /\ worker.at # "schedule"
                           /\ now <= e + MaxLateness
                           /\ ~Ended => e <= sent_at + Interval + MaxLateness
      BY <2>1 DEF Pending
    <3>2. Pending'
      BY <1>1, <3>1 DEF Pending
    <3> QED BY <3>2
  <2>2. CASE Running
    BY <1>1, <2>2 DEF Running
  <2>3. CASE Over
    BY <1>1, <2>3 DEF Over
  <2> QED BY <2>1, <2>2, <2>3
<1>4. NextSend'
  BY <1>1 DEF NextSend
<1> QED BY <1>2, <1>3, <1>4

\* Every step keeps the invariant.
LEMMA ScheduleNext == ScheduleInv /\ [Next]_vars => ScheduleInv'
<1> SUFFICES ASSUME ScheduleInv, [Next]_vars PROVE ScheduleInv'
  OBVIOUS
<1>1. CASE BeginSchedule BY <1>1, BeginKeeps
<1>2. CASE EndSchedule BY <1>2, EndKeeps
<1>3. CASE Postpone BY <1>3, PostponeKeeps
<1>4. CASE Report BY <1>4, ReportKeeps
<1>5. CASE SendNack BY <1>5, NackKeeps
<1>6. CASE SendBye BY <1>6, ByeKeeps
<1>7. CASE Tick BY <1>7, TickKeeps
<1>8. CASE \/ \E number : ReceiveRtp(number)
           \/ SkipNack \/ ReceiveBye \/ FinishInitialize \/ UNCHANGED vars
  BY <1>8, RestKeeps
<1> HIDE DEF ScheduleInv
<1> QED BY <1>1, <1>2, <1>3, <1>4, <1>5, <1>6, <1>7, <1>8 DEF Next

\* The invariant holds in every reachable state.
LEMMA ScheduleInvHolds == Spec => []ScheduleInv
<1> HIDE DEF ScheduleInv
<1> QED BY ScheduleInit, ScheduleNext, PTL DEF Spec

\* The schedule is one task, which ends only by a BYE (OneSchedule).
THEOREM ScheduleIsOneTask == Spec => []OneSchedule
<1>1. ScheduleInv => OneSchedule
  <2> SUFFICES ASSUME ScheduleInv PROVE OneSchedule
    OBVIOUS
  <2>1. CASE Pending
    <3>1. PICK e \in Nat : scheduled = <<e>> /\ worker.at # "schedule"
      BY <2>1 DEF Pending
    <3>2. Len(scheduled) = 1
      BY <3>1
    <3> QED BY <3>1, <3>2 DEF OneSchedule, Schedules
  <2>2. CASE Running \/ Over
    <3>1. Len(scheduled) = 0
      BY <2>2 DEF Running, Over
    <3> QED BY <2>2, <3>1 DEF Running, Over, OneSchedule, Schedules
  <2> QED BY <2>1, <2>2
<1> QED BY <1>1, ScheduleInvHolds, PTL

\* Until a BYE no more than an Interval and twice the lateness passes without a
\* compound packet, whatever NACKs come in between (SilenceBounded).
THEOREM SilenceIsBounded == Spec => []SilenceBounded
<1>1. ScheduleInv => SilenceBounded
  <2> SUFFICES ASSUME ScheduleInv, ~Ended PROVE now <= sent_at + Interval + 2 * MaxLateness
    BY DEF SilenceBounded
  <2>1. PICK d \in Nat : now <= d + MaxLateness /\ d <= sent_at + Interval + MaxLateness
    <3>1. CASE Pending
      BY <3>1 DEF Pending
    <3>2. CASE Running
      BY <3>2 DEF Running, ScheduleTypeOK
    <3> QED BY <3>1, <3>2 DEF Over
  <2> QED BY <2>1 DEF ScheduleTypeOK
<1> QED BY <1>1, ScheduleInvHolds, PTL

\* Scheduled reports keep an Interval from the packet before (ReportsPaced).
THEOREM ReportsArePaced == Spec => ReportsPaced
<1>1. ASSUME ScheduleInv, [Next]_vars, sent' # sent, packet'.kind = "report", has_sent_rtcp
      PROVE  now + MaxLateness >= sent_at + Interval
  <2>1. Report
    <3>1. ~(BeginSchedule \/ EndSchedule \/ Postpone \/ SkipNack \/ ReceiveBye
            \/ FinishInitialize \/ Tick \/ UNCHANGED vars)
      BY <1>1 DEF BeginSchedule, EndSchedule, Postpone, SkipNack, ReceiveBye,
         FinishInitialize, Tick, vars
    <3>2. ASSUME NEW number PROVE ~ReceiveRtp(number)
      BY <1>1 DEF ReceiveRtp
    <3>3. ~SendNack /\ ~SendBye
      BY <1>1 DEF SendNack, SendBye, SendRtcp
    <3> QED BY <1>1, <3>1, <3>2, <3>3 DEF Next
  <2>2. ~Ended /\ worker.at = "schedule" /\ worker.now >= utc_ms_next_send
    BY <2>1 DEF Report, Ended
  <2>3. worker.now <= now
    BY <1>1, <2>2 DEF Pending, Running, Over
  <2> QED BY <1>1, <2>2, <2>3 DEF ScheduleTypeOK, NextSend
<1>2. ScheduleInv /\ [Next]_vars
        => [sent' # sent /\ packet'.kind = "report" /\ has_sent_rtcp
              => now + MaxLateness >= sent_at + Interval]_vars
  BY <1>1
<1> QED BY <1>2, ScheduleInvHolds, PTL DEF Spec, ReportsPaced

-----------------------------------------------------------------------------
(* What is sent *)

\* A step that sends is one of three, of which only SendBye is not stopped by a BYE.
LEMMA SendingSteps ==
  ASSUME [Next]_vars, sent' # sent
  PROVE  \/ SendBye /\ SendRtcp("bye")
         \/ ~Ended /\ Report /\ SendRtcp("report")
         \/ ~Ended /\ SendNack /\ SendRtcp("nack")
<1>1. ~(BeginSchedule \/ EndSchedule \/ Postpone \/ SkipNack \/ ReceiveBye
        \/ FinishInitialize \/ Tick \/ UNCHANGED vars)
  BY DEF BeginSchedule, EndSchedule, Postpone, SkipNack, ReceiveBye, FinishInitialize, Tick, vars
<1>2. ASSUME NEW number PROVE ~ReceiveRtp(number)
  BY DEF ReceiveRtp
<1>3. Report \/ SendNack \/ SendBye
  BY <1>1, <1>2 DEF Next
<1>4. Report => ~Ended /\ SendRtcp("report")
  BY DEF Report, Ended
<1>5. SendNack => ~Ended /\ SendRtcp("nack")
  BY DEF SendNack, Ended
<1>6. SendBye => SendRtcp("bye")
  BY DEF SendBye
<1> QED BY <1>3, <1>4, <1>5, <1>6

\* After a BYE of either side only BYEs are sent (SilentAfterBye).
THEOREM SilenceAfterBye == Spec => SilentAfterBye
<1>1. ASSUME [Next]_vars, sent' # sent, Ended
      PROVE  packet'.kind = "bye"
  <2>1. SendRtcp("bye")
    BY <1>1, SendingSteps
  <2> QED BY <2>1 DEF SendRtcp
<1>2. [Next]_vars => [sent' # sent /\ Ended => packet'.kind = "bye"]_vars
  BY <1>1
<1> QED BY <1>2, PTL DEF Spec, SilentAfterBye

\* What was missing at the last sending, counted from the first number of now.
MissingAtSending == (sent_info.extended_seq_num - first) - sent_info.cumulative_loss

\* The statistics at the last sending are those the next report block counts
\* from, and lie behind the ones of now: with the loss counted then, at least a
\* packet was received since if the highest number has grown. Before the first
\* block the next one counts from nothing.
ReportInv ==
  /\ received \in Nat /\ first \in Nat /\ highest \in Nat /\ first <= highest
  /\ has_received_rtp \in BOOLEAN
  /\ sent_info.extended_seq_num \in Nat /\ sent_info.cumulative_loss \in Nat
  /\ sent_info.first_extended_seq_num \in Nat
  /\ ~has_received_rtp => last_report = NoInfo
  /\ has_received_rtp =>
       /\ received > 0 /\ has_sent_rtcp /\ last_report = sent_info
       /\ first <= sent_info.first_extended_seq_num
       /\ sent_info.extended_seq_num <= highest
       /\ first = sent_info.first_extended_seq_num =>
            /\ MissingAtSending <= received
            /\ sent_info.extended_seq_num < highest => MissingAtSending < received

\* A sending starts the count anew.
LEMMA SendingKeepsReport ==
  ASSUME ReportInv, NEW kind, SendRtcp(kind), UNCHANGED environment
  PROVE  ReportInv'
<1> DEFINE info == RemoteSenderInfo
<1>1. /\ received' = received /\ first' = first /\ highest' = highest /\ sent_info' = info
      /\ has_sent_rtcp' = TRUE
      /\ has_received_rtp' = (has_received_rtp \/ HasReceivedRtp)
      /\ last_report' = IF has_received_rtp' THEN info ELSE last_report
  BY DEF SendRtcp
<1>2. /\ info.extended_seq_num = highest /\ info.cumulative_loss \in Nat
      /\ info.first_extended_seq_num = first
      /\ info.cumulative_loss >= (highest - first) - received
  BY DEF ReportInv, RemoteSenderInfo
<1> HIDE DEF info
<1>3. /\ has_received_rtp' \in BOOLEAN /\ has_received_rtp' => received > 0
      /\ ~has_received_rtp' => last_report' = NoInfo
  BY <1>1 DEF ReportInv, HasReceivedRtp
<1>4. /\ sent_info'.extended_seq_num = highest /\ sent_info'.cumulative_loss \in Nat
      /\ sent_info'.first_extended_seq_num = first
      /\ (highest - first) - sent_info'.cumulative_loss <= received
  BY <1>1, <1>2 DEF ReportInv
<1>5. MissingAtSending' <= received
  BY <1>1, <1>4 DEF MissingAtSending
<1> QED BY <1>1, <1>3, <1>4, <1>5 DEF ReportInv

\* What arrives has a number.
LEMMA ArrivalsAreNumbers ==
  ASSUME ReportInv
  PROVE  Arrivals \subseteq Nat
<1> SUFFICES ASSUME NEW n \in Arrivals PROVE n \in Nat
  OBVIOUS
<1>1. first \in Nat /\ highest \in Nat
  BY DEF ReportInv
<1>2. SeqNums \subseteq Nat
  BY SeqSpaceAssumption DEF SeqNums
<1>3. CASE received = 0
  BY <1>2, <1>3 DEF Arrivals
<1>4. CASE n \in {highest} \cup {highest + 1 + lost : lost \in Losses}
  BY <1>1, <1>4
<1>5. CASE n \in {k \in {first - 1 - lost : lost \in Losses} : k >= 0}
  <2>1. PICK lost \in Losses : n = first - 1 - lost
    BY <1>5
  <2>2. n >= 0
    BY <1>5
  <2> QED BY <1>1, <2>1, <2>2
<1> QED BY <1>3, <1>4, <1>5 DEF Arrivals

\* A packet that is counted adds one to received, and may raise the highest number
\* or lower the first.
LEMMA ReceivingKeepsReport ==
  ASSUME ReportInv, NEW number \in Nat, ReceiveRtp(number)
  PROVE  ReportInv'
<1>1. /\ received' = received + 1
      /\ highest' = IF received = 0 \/ number > highest THEN number ELSE highest
      /\ first' = IF received = 0 \/ (highest' < SeqSpace /\ number < first)
                  THEN number ELSE first
      /\ UNCHANGED <<has_received_rtp, has_sent_rtcp, last_report, sent_info>>
  BY DEF ReceiveRtp
<1>2. /\ received' \in Nat /\ first' \in Nat /\ highest' \in Nat /\ first' <= highest'
      /\ received > 0 => first' <= first /\ highest <= highest'
  BY <1>1 DEF ReportInv
<1>3. CASE ~has_received_rtp
  BY <1>1, <1>2, <1>3 DEF ReportInv
<1>4. CASE has_received_rtp
  <2>1. /\ received > 0 /\ first <= sent_info.first_extended_seq_num
        /\ sent_info.extended_seq_num <= highest
        /\ first = sent_info.first_extended_seq_num => MissingAtSending <= received
    BY <1>4 DEF ReportInv
  <2>2. /\ sent_info.extended_seq_num \in Nat /\ sent_info.cumulative_loss \in Nat
        /\ sent_info.first_extended_seq_num \in Nat /\ first \in Nat /\ highest \in Nat
        /\ received \in Nat
    BY DEF ReportInv
  <2>3. /\ first' <= sent_info.first_extended_seq_num
        /\ sent_info.extended_seq_num <= highest'
    BY <1>2, <2>1, <2>2
  <2>4. ASSUME first' = sent_info.first_extended_seq_num
        PROVE  MissingAtSending' < received'
    <3>1. first' = first
      BY <1>2, <2>1, <2>2, <2>4
    <3>2. MissingAtSending' = MissingAtSending /\ MissingAtSending \in Int
      BY <1>1, <2>2, <3>1 DEF MissingAtSending
    <3> QED BY <1>1, <2>1, <2>2, <2>4, <3>1, <3>2
  <2>5. MissingAtSending' \in Int
    BY <1>1, <1>2, <2>2 DEF MissingAtSending
  <2> QED BY <1>1, <1>2, <1>4, <2>2, <2>3, <2>4, <2>5 DEF ReportInv
<1> QED BY <1>3, <1>4 DEF ReportInv

\* Every step keeps it.
LEMMA ReportNext == ReportInv /\ [Next]_vars => ReportInv'
<1> SUFFICES ASSUME ReportInv, [Next]_vars PROVE ReportInv'
  OBVIOUS
<1>1. CASE sent' # sent
  BY <1>1, SendingSteps, SendingKeepsReport DEF SendBye, Report, SendNack
<1>2. CASE \E number \in Arrivals : ReceiveRtp(number)
  BY <1>2, ArrivalsAreNumbers, ReceivingKeepsReport
<1>3. CASE BeginSchedule \/ EndSchedule \/ Postpone \/ SkipNack \/ ReceiveBye
           \/ FinishInitialize \/ Tick \/ UNCHANGED vars
  <2>1. UNCHANGED <<received, first, highest, has_received_rtp, has_sent_rtcp, last_report,
                    sent_info>>
    BY <1>3 DEF BeginSchedule, EndSchedule, Postpone, SkipNack, ReceiveBye, FinishInitialize,
       Tick, vars
  <2> QED BY <2>1 DEF ReportInv, MissingAtSending
<1>4. CASE SendBye \/ Report \/ SendNack
  BY <1>4, SendingKeepsReport DEF SendBye, Report, SendNack
<1> QED BY <1>2, <1>3, <1>4 DEF Next

\* A fraction of less than the whole is below 256 256ths.
LEMMA FractionBelowWhole ==
  ASSUME NEW loss \in Int, NEW expected \in Nat, expected # 0 => loss < expected \/ loss <= 0
  PROVE  /\ Fraction(loss, expected) \in 0..255
         /\ Fraction(loss, expected) % 256 = Fraction(loss, expected)
<1>1. CASE expected = 0 \/ loss <= 0
  BY <1>1 DEF Fraction
<1>2. CASE expected # 0 /\ loss > 0
  <2> DEFINE q == (loss * 256) \div expected
  <2>1. q \in Nat /\ expected * q <= loss * 256
    BY <1>2
  <2>2. loss * 256 < expected * 256
    BY <1>2
  <2>3. Fraction(loss, expected) = q
    BY <1>2 DEF Fraction
  <2> HIDE DEF q
  <2>4. q < 256
    BY <1>2, <2>1, <2>2
  <2> QED BY <2>1, <2>3, <2>4
<1> QED BY <1>1, <1>2

\* The same loss is a smaller fraction of more packets.
LEMMA FractionOfMore ==
  ASSUME NEW loss \in Nat, NEW expected \in Nat, NEW more \in Nat, expected <= more,
         loss > 0 => expected > 0
  PROVE  Fraction(loss, more) <= Fraction(loss, expected)
<1>1. CASE loss = 0
  BY <1>1 DEF Fraction
<1>2. CASE loss # 0
  <2> DEFINE p == (loss * 256) \div expected
             q == (loss * 256) \div more
  <2>1. expected > 0 /\ more > 0
    BY <1>2
  <2>2. /\ p \in Nat /\ loss * 256 < expected * (p + 1)
        /\ q \in Nat /\ more * q <= loss * 256
    BY <2>1
  <2>3. Fraction(loss, expected) = p /\ Fraction(loss, more) = q
    BY <1>2, <2>1 DEF Fraction
  <2> HIDE DEF p, q
  <2>4. expected * q <= more * q
    BY <2>1, <2>2
  <2>5. expected * q < expected * (p + 1)
    BY <2>1, <2>2, <2>4
  <2>6. q < p + 1
    BY <2>1, <2>2, <2>5
  <2> QED BY <2>2, <2>3, <2>6
<1> QED BY <1>1, <1>2

\* Each fraction is about the packets since the packet before, if that had a block
\* and the first number has stayed, and the first one at most about the whole
\* stream; then it fits 8 bits (FractionSinceLastReport, rtcp_sender.cc:154-175).
THEOREM FractionsAreSinceLastReport == Spec => FractionSinceLastReport
<1> DEFINE info == RemoteSenderInfo
           ofStream == Fraction(info.cumulative_loss, highest - first)
           loss == LossBetween(sent_info, info)
           expected == ExpectedBetween(sent_info, info)
<1>1. ASSUME Init PROVE ReportInv
  <2>1. /\ received = 0 /\ first = 0 /\ highest = 0
        /\ has_received_rtp \in BOOLEAN /\ ~has_received_rtp
        /\ last_report = NoInfo /\ sent_info = NoInfo
    BY <1>1 DEF Init
  <2> QED BY <2>1 DEF ReportInv, NoInfo
<1>2. ASSUME ReportInv, [Next]_vars, sent' # sent, packet'.block
      PROVE  IF has_received_rtp
             THEN first = sent_info.first_extended_seq_num =>
                    packet'.fraction = Fraction(loss, expected)
             ELSE /\ packet'.fraction <= ofStream
                  /\ ~has_sent_rtcp => packet'.fraction = ofStream
  <2>1. PICK kind : SendRtcp(kind)
    BY <1>2, SendingSteps
  <2>2. /\ packet'.fraction = SinceLastReport(info)
        /\ has_received_rtp \/ (HasReceivedRtp /\ received > 0)
    BY <1>2, <2>1 DEF SendRtcp, HasReceivedRtp
  <2>3. /\ info.first_extended_seq_num = first /\ info.extended_seq_num = highest
        /\ info.cumulative_loss = IF (highest - first) - received > 0
                                  THEN (highest - first) - received ELSE 0
    BY DEF RemoteSenderInfo
  <2>4. received \in Nat /\ first \in Nat /\ highest \in Nat /\ first <= highest
    BY <1>2 DEF ReportInv
  <2>5. info.cumulative_loss \in Nat
    BY <2>3, <2>4
  <2>6. CASE has_received_rtp
    <3>1. last_report = sent_info /\ has_sent_rtcp
      BY <1>2, <2>6 DEF ReportInv
    <3>2. packet'.fraction = Fraction(loss, expected) % 256
      BY <2>2, <2>3, <3>1 DEF SinceLastReport, ExpectedFrom, ExpectedBetween
    <3>3. ASSUME first = sent_info.first_extended_seq_num
          PROVE  Fraction(loss, expected) % 256 = Fraction(loss, expected)
      <4>1. loss \in Int /\ expected \in Nat /\ (expected # 0 => loss < expected \/ loss <= 0)
        BY <1>2, <2>3, <2>4, <2>6, <3>3
           DEF ReportInv, MissingAtSending, LossBetween, ExpectedBetween
      <4> HIDE DEF loss, expected
      <4> QED BY <4>1, FractionBelowWhole
    <3> QED BY <2>6, <3>2, <3>3
  <2>7. CASE ~has_received_rtp
    <3>1. last_report = NoInfo /\ received > 0
      BY <1>2, <2>2, <2>7 DEF ReportInv
    <3>2. LossBetween(last_report, info) = info.cumulative_loss
      BY <2>5, <3>1 DEF NoInfo, LossBetween
    <3>3. ExpectedFrom(info) = IF has_sent_rtcp THEN 0 ELSE first
      BY <2>3, <3>1 DEF ExpectedFrom, NoInfo
    <3>4. info.cumulative_loss < highest - first \/ info.cumulative_loss = 0
      BY <2>3, <2>4, <3>1
    <3> DEFINE c == info.cumulative_loss
    <3>5. c \in Nat /\ (c < highest - first \/ c = 0)
      BY <2>5, <3>4
    <3>6. packet'.fraction = Fraction(c, highest - (IF has_sent_rtcp THEN 0 ELSE first)) % 256
      BY <2>2, <2>3, <3>2, <3>3 DEF SinceLastReport
    <3> HIDE DEF c, info
    <3>7. ofStream = Fraction(c, highest - first)
      BY DEF c
    <3>8. /\ Fraction(c, highest - first) \in 0..255
          /\ Fraction(c, highest - first) % 256 = Fraction(c, highest - first)
      <4> DEFINE e == highest - first
      <4>1. e \in Nat /\ c \in Int /\ (e # 0 => c < e \/ c <= 0)
        BY <2>4, <3>5
      <4> HIDE DEF e
      <4>2. Fraction(c, e) \in 0..255 /\ Fraction(c, e) % 256 = Fraction(c, e)
        BY <4>1, FractionBelowWhole
      <4> QED BY <4>2 DEF e
    <3>9. CASE ~has_sent_rtcp
      BY <2>7, <3>6, <3>7, <3>8, <3>9
    <3>10. CASE has_sent_rtcp
      <4>1. Fraction(c, highest) % 256 = Fraction(c, highest)
        <5>1. c \in Int /\ (highest # 0 => c < highest \/ c <= 0)
          BY <2>4, <3>5
        <5> QED BY <2>4, <5>1, FractionBelowWhole
      <4>2. Fraction(c, highest) <= Fraction(c, highest - first)
        <5>1. /\ highest - first \in Nat /\ highest - first <= highest
              /\ c > 0 => highest - first > 0
          BY <2>4, <3>5
        <5> QED BY <2>4, <3>5, <5>1, FractionOfMore
      <4>3. highest - 0 = highest
        BY <2>4
      <4> QED BY <2>7, <3>6, <3>7, <3>10, <4>1, <4>2, <4>3
    <3> QED BY <3>9, <3>10
  <2> QED BY <2>6, <2>7
<1>3. ReportInv /\ [Next]_vars
        => [sent' # sent /\ packet'.block =>
              IF has_received_rtp
              THEN first = sent_info.first_extended_seq_num =>
                     packet'.fraction = Fraction(loss, expected)
              ELSE /\ packet'.fraction <= ofStream
                   /\ ~has_sent_rtcp => packet'.fraction = ofStream]_vars
  BY <1>2
<1> QED BY <1>1, <1>3, ReportNext, PTL DEF Spec, FractionSinceLastReport

-----------------------------------------------------------------------------
(* NackPacking *)

\* A number that fits in a mask comes after its item's own, and the bit says
\* how far.
LEMMA FitMeansFollow ==
  ASSUME NEW seq \in SeqNums, NEW pid \in SeqNums
  PROVE  Fits(seq, pid) <=> pid < seq /\ seq <= pid + MaskBits
<1> USE NackAssumption, SeqSpaceAssumption
<1>1. CASE seq < pid
  BY <1>1 DEF Fits, SeqNums
<1>2. CASE seq = pid
  <2>1. SeqAt(-1) = SeqSpace - 1
    <3>1. SeqSpace - 1 \in SeqNums /\ (-1) + SeqSpace = SeqSpace - 1
      BY DEF SeqNums
    <3>2. SeqAt((-1) + SeqSpace) = SeqAt(-1)
      BY SeqAtPeriodic
    <3>3. QED BY <3>1, <3>2, SeqAtOfSeq
  <2>2. seq - pid - 1 = -1
    BY <1>2 DEF SeqNums
  <2>3. ~Fits(seq, pid)
    BY <2>1, <2>2 DEF Fits, Shift, SeqNums
  <2>4. QED BY <1>2, <2>3 DEF SeqNums
<1>3. CASE seq > pid
  <2>1. seq - pid - 1 \in SeqNums
    BY <1>3 DEF SeqNums
  <2>2. Shift(seq, pid) = seq - pid - 1
    BY <2>1, SeqAtOfSeq DEF Shift
  <2>3. QED BY <1>3, <2>2 DEF Fits, SeqNums
<1>4. QED BY <1>1, <1>2, <1>3 DEF SeqNums

\* Setting the mask of an item.
LEMMA ItemWithMask ==
  ASSUME NEW item \in Items, NEW mask
  PROVE  [item EXCEPT !.bitmask = mask] = [first_pid |-> item.first_pid, bitmask |-> mask]
  BY DEF Items

\* The bit of a number that fits is a bit of the mask, and stands for the number.
LEMMA BitStandsForNumber ==
  ASSUME NEW seq \in SeqNums, NEW pid \in SeqNums, Fits(seq, pid)
  PROVE  /\ Shift(seq, pid) \in 0..(MaskBits - 1)
         /\ SeqAt(pid + 1 + Shift(seq, pid)) = seq
<1> USE NackAssumption, SeqSpaceAssumption
<1>1. pid < seq /\ seq <= pid + MaskBits
  BY FitMeansFollow
<1>2. seq - pid - 1 \in SeqNums
  BY <1>1 DEF SeqNums
<1>3. Shift(seq, pid) = seq - pid - 1
  BY <1>2, SeqAtOfSeq DEF Shift
<1>4. pid + 1 + Shift(seq, pid) = seq
  BY <1>3 DEF SeqNums
<1>5. QED BY <1>1, <1>3, <1>4, SeqAtOfSeq DEF SeqNums

-----------------------------------------------------------------------------

\* The items that are finished, and the one that is not, as the loops leave them.
ItemInv ==
  /\ open => packed # <<>> /\ it > 1
  /\ open /\ Increasing => Last(packed).first_pid <= packet_ids[it-1]
  /\ ~open /\ packed # <<>> /\ it <= Len(packet_ids) /\ Increasing
       => packet_ids[it] > Last(packed).first_pid + MaskBits

PackInv == PackTypeOK /\ ItemInv /\ NothingLostInPacking /\ NoItemWasted

\* The loops begin with nothing packed.
LEMMA PackInvInit == PackInit => PackInv
<1> SUFFICES ASSUME PackInit PROVE PackInv
  OBVIOUS
<1>1. PICK list \in Lists : SetPacketIds(list)
  BY DEF PackInit
<1>2. /\ packet_ids \in Seq(SeqNums) /\ it = 1 /\ packed = <<>> /\ open = FALSE
  BY <1>1, NackAssumption DEF SetPacketIds
<1>3. Len(packet_ids) \in Nat
  BY <1>2
<1>4. PackTypeOK
  <2>1. packed \in Seq(Items)
    BY <1>2
  <2>2. open \in BOOLEAN
    BY <1>2
  <2>3. it \in 1..Len(packet_ids)+1
    BY <1>2, <1>3
  <2>4. QED BY <1>2, <2>1, <2>2, <2>3 DEF PackTypeOK
<1>5. ItemInv
  BY <1>2 DEF ItemInv
<1>6. Unpack = {} /\ Asked = {}
  BY <1>2 DEF Unpack, Asked
<1>7. NothingLostInPacking
  BY <1>6 DEF NothingLostInPacking
<1>8. NoItemWasted
  BY <1>2 DEF NoItemWasted
<1>9. QED BY <1>4, <1>5, <1>7, <1>8 DEF PackInv

\* A new item takes the next number, which the mask before it had no room for.
LEMMA StartItemKeeps == PackInv /\ StartItem => PackInv'
<1> SUFFICES ASSUME PackInv, StartItem PROVE PackInv'
  OBVIOUS
<1> DEFINE seq == packet_ids[it]
           item == [first_pid |-> seq, bitmask |-> {}]
<1>1. /\ packet_ids \in Seq(SeqNums) /\ it \in 1..Len(packet_ids)
      /\ packed \in Seq(Items) /\ open = FALSE
  BY DEF PackInv, PackTypeOK, StartItem
<1>2. /\ packed' = Append(packed, item) /\ it' = it + 1 /\ open' = TRUE
      /\ packet_ids' = packet_ids
  BY DEF StartItem
<1>3. seq \in SeqNums /\ item \in Items
  BY <1>1 DEF Items
<1>4. Len(packed) \in Nat /\ Len(packet_ids) \in Nat
  BY <1>1
<1> HIDE DEF item
<1>5. /\ packed' \in Seq(Items) /\ Len(packed') = Len(packed) + 1
      /\ packed'[Len(packed) + 1] = item
      /\ \A i \in 1..Len(packed) : packed'[i] = packed[i]
      /\ packed' # <<>> /\ Last(packed') = item
  BY <1>1, <1>2, <1>3, <1>4 DEF Last
<1>6. item.first_pid = seq /\ item.bitmask = {}
  BY DEF item
<1>7. PackTypeOK'
  BY <1>1, <1>2, <1>4, <1>5 DEF PackTypeOK
<1>8. ItemInv'
  <2>1. it' > 1 /\ it' - 1 = it
    BY <1>1, <1>2, <1>4
  <2>2. seq <= packet_ids[it]
    BY <1>3, SeqSpaceAssumption DEF SeqNums
  <2>3. QED BY <1>2, <1>5, <1>6, <2>1, <2>2 DEF ItemInv
<1>9. NothingLostInPacking'
  <2>1. UnpackItem(item) = {seq}
    BY <1>6 DEF UnpackItem
  <2>2. DOMAIN packed' = 1..Len(packed) \cup {Len(packed) + 1} /\ DOMAIN packed = 1..Len(packed)
    BY <1>1, <1>4, <1>5
  <2>3. Unpack' = Unpack \cup UnpackItem(item)
    BY <1>5, <2>2 DEF Unpack, UnpackItem
  <2>4. 1..it'-1 = 1..it-1 \cup {it}
    BY <1>1, <1>2, <1>4
  <2>5. Asked' = Asked \cup {seq}
    BY <1>2, <2>4 DEF Asked
  <2>6. QED BY <2>1, <2>3, <2>5 DEF PackInv, NothingLostInPacking
<1>10. NoItemWasted'
  <2> SUFFICES ASSUME Increasing, NEW i \in 1..Len(packed')-1
               PROVE  packed'[i+1].first_pid > packed'[i].first_pid + MaskBits
    BY <1>2 DEF NoItemWasted, Increasing
  <2>1. CASE i = Len(packed)
    <3>1. packed # <<>> /\ it <= Len(packet_ids) /\ ~open
      BY <1>1, <1>4, <1>5, <2>1
    <3>2. seq > Last(packed).first_pid + MaskBits
      BY <3>1 DEF PackInv, ItemInv
    <3>3. packed'[i] = Last(packed) /\ packed'[i+1] = item
      BY <1>4, <1>5, <2>1 DEF Last
    <3>4. QED BY <3>2, <3>3, <1>6
  <2>2. CASE i # Len(packed)
    <3>1. i \in 1..Len(packed)-1 /\ i \in 1..Len(packed) /\ i + 1 \in 1..Len(packed)
      BY <1>4, <1>5, <2>2
    <3>2. packed[i+1].first_pid > packed[i].first_pid + MaskBits
      BY <3>1 DEF PackInv, NoItemWasted
    <3>3. QED BY <3>1, <3>2, <1>5
  <2>3. QED BY <2>1, <2>2
<1>11. QED BY <1>7, <1>8, <1>9, <1>10 DEF PackInv

\* A number that fits is a bit of the open item.
LEMMA CoverNextKeeps == PackInv /\ CoverNext => PackInv'
<1> SUFFICES ASSUME PackInv, CoverNext PROVE PackInv'
  OBVIOUS
<1> DEFINE seq == packet_ids[it]
           item == Last(packed)
           shift == Shift(seq, item.first_pid)
           covered == [first_pid |-> item.first_pid,
                       bitmask |-> item.bitmask \cup {shift}]
<1>1. /\ packet_ids \in Seq(SeqNums) /\ it \in 1..Len(packet_ids)
      /\ packed \in Seq(Items) /\ open = TRUE /\ packed # <<>>
  BY DEF PackInv, PackTypeOK, ItemInv, CoverNext
<1>2. Len(packed) \in Nat /\ Len(packed) >= 1 /\ Len(packet_ids) \in Nat
  BY <1>1
<1>3. /\ seq \in SeqNums /\ item = packed[Len(packed)] /\ item \in Items
  BY <1>1, <1>2 DEF Last
<1>4. /\ item.first_pid \in SeqNums /\ item.bitmask \in SUBSET (0..MaskBits-1)
      /\ item = [first_pid |-> item.first_pid, bitmask |-> item.bitmask]
  BY <1>3 DEF Items
<1>5. Fits(seq, item.first_pid)
  BY DEF CoverNext
<1>6. shift \in 0..(MaskBits - 1) /\ SeqAt(item.first_pid + 1 + shift) = seq
  BY <1>3, <1>4, <1>5, BitStandsForNumber
<1>7. item.first_pid < seq
  BY <1>3, <1>4, <1>5, FitMeansFollow
<1>8. /\ packed' = [packed EXCEPT ![Len(packed)] = covered]
      /\ it' = it + 1 /\ open' = open /\ packet_ids' = packet_ids
  <2>1. SetBit(item.bitmask, shift) = item.bitmask \cup {shift}
    BY <1>4, <1>6 DEF SetBit
  <2>2. packed' = [packed EXCEPT ![Len(packed)].bitmask =
                     SetBit(@, Shift(packet_ids[it], item.first_pid))]
    BY DEF CoverNext
  <2>3. [packed[Len(packed)] EXCEPT !.bitmask = item.bitmask \cup {shift}] = covered
    BY <1>3, ItemWithMask
  <2>4. packed' = [packed EXCEPT ![Len(packed)] =
                     [packed[Len(packed)] EXCEPT !.bitmask = item.bitmask \cup {shift}]]
    BY <1>3, <2>1, <2>2
  <2>5. QED BY <2>3, <2>4 DEF CoverNext
<1>9. covered \in Items
  BY <1>4, <1>6 DEF Items
<1>10. covered.first_pid = item.first_pid /\ covered.bitmask = item.bitmask \cup {shift}
  OBVIOUS
<1> HIDE DEF covered, shift, item
<1>11. /\ packed' \in Seq(Items) /\ Len(packed') = Len(packed)
       /\ packed'[Len(packed)] = covered
       /\ \A i \in 1..Len(packed)-1 : packed'[i] = packed[i]
       /\ packed' # <<>> /\ Last(packed') = covered
  BY <1>1, <1>2, <1>8, <1>9 DEF Last
<1>12. PackTypeOK'
  <2>1. it' \in 1..Len(packet_ids')+1
    BY <1>1, <1>2, <1>8
  <2>2. packet_ids' \in Seq(SeqNums) /\ open' \in BOOLEAN
    BY <1>1, <1>8
  <2>3. QED BY <1>11, <2>1, <2>2 DEF PackTypeOK
<1>13. ItemInv'
  <2>1. it' > 1 /\ it' - 1 = it
    BY <1>1, <1>2, <1>8
  <2>2. item.first_pid <= packet_ids[it]
    BY <1>3, <1>4, <1>7, SeqSpaceAssumption DEF SeqNums
  <2>3. QED BY <1>1, <1>8, <1>10, <1>11, <2>1, <2>2 DEF ItemInv
<1>14. NothingLostInPacking'
  <2>1. UnpackItem(covered) = UnpackItem(item) \cup {seq}
    BY <1>6, <1>10 DEF UnpackItem
  <2>2. /\ DOMAIN packed' = 1..Len(packed)-1 \cup {Len(packed)}
        /\ DOMAIN packed = 1..Len(packed)-1 \cup {Len(packed)}
    <3>1. DOMAIN packed' = 1..Len(packed) /\ DOMAIN packed = 1..Len(packed)
      BY <1>1, <1>11
    <3>2. 1..Len(packed) = 1..Len(packed)-1 \cup {Len(packed)}
      BY <1>2
    <3>3. QED BY <3>1, <3>2
  <2>3. Unpack' = Unpack \cup {seq}
    <3> DEFINE rest == UNION {UnpackItem(packed[i]) : i \in 1..Len(packed)-1}
    <3>1. Unpack = rest \cup UnpackItem(item)
      BY <1>3, <2>2 DEF Unpack
    <3>2. Unpack' = rest \cup UnpackItem(covered)
      BY <1>11, <2>2 DEF Unpack, UnpackItem
    <3> HIDE DEF rest
    <3>3. QED BY <2>1, <3>1, <3>2
  <2>4. 1..it'-1 = 1..it-1 \cup {it}
    BY <1>1, <1>2, <1>8
  <2>5. Asked' = Asked \cup {seq}
    BY <1>8, <2>4 DEF Asked
  <2>6. QED BY <2>3, <2>5 DEF PackInv, NothingLostInPacking
<1>15. NoItemWasted'
  <2> SUFFICES ASSUME Increasing, NEW i \in 1..Len(packed')-1
               PROVE  packed'[i+1].first_pid > packed'[i].first_pid + MaskBits
    BY <1>8 DEF NoItemWasted, Increasing
  <2>1. /\ i \in 1..Len(packed)-1 /\ packed'[i] = packed[i]
        /\ i + 1 = Len(packed) \/ i + 1 \in 1..Len(packed)-1
    BY <1>2, <1>11
  <2>2. packed'[i+1].first_pid = packed[i+1].first_pid
    BY <1>3, <1>10, <1>11, <2>1
  <2>3. packed[i+1].first_pid > packed[i].first_pid + MaskBits
    BY <2>1 DEF PackInv, NoItemWasted
  <2>4. QED BY <2>1, <2>2, <2>3
<1>16. QED BY <1>12, <1>13, <1>14, <1>15 DEF PackInv

\* An item is closed when the next number does not fit: of an increasing list,
\* because it is too far.
LEMMA CloseItemKeeps == PackInv /\ CloseItem => PackInv'
<1> SUFFICES ASSUME PackInv, CloseItem PROVE PackInv'
  OBVIOUS
<1>1. /\ packet_ids \in Seq(SeqNums) /\ it \in 1..Len(packet_ids)+1
      /\ packed \in Seq(Items) /\ packed # <<>> /\ it > 1
  BY DEF PackInv, PackTypeOK, ItemInv, CloseItem
<1>2. UNCHANGED <<packet_ids, it, packed>> /\ open' = FALSE
  BY DEF CloseItem
<1>3. PackTypeOK' /\ NothingLostInPacking' /\ NoItemWasted'
  <2>1. PackTypeOK'
    BY <1>2 DEF PackInv, PackTypeOK
  <2>2. NothingLostInPacking'
    <3>1. Unpack' = Unpack /\ Asked' = Asked
      BY <1>2 DEF Unpack, UnpackItem, Asked
    <3>2. QED BY <3>1 DEF PackInv, NothingLostInPacking
  <2>3. NoItemWasted'
    BY <1>2 DEF PackInv, NoItemWasted, Increasing
  <2>4. QED BY <2>1, <2>2, <2>3
<1>4. ASSUME it <= Len(packet_ids), Increasing
      PROVE  packet_ids[it] > Last(packed).first_pid + MaskBits
  <2>1. Len(packet_ids) \in Nat /\ Len(packed) \in Nat /\ Len(packed) >= 1
    BY <1>1
  <2>2. /\ it \in 1..Len(packet_ids) /\ it - 1 \in 1..Len(packet_ids)-1
        /\ (it - 1) + 1 = it
    BY <1>1, <1>4, <2>1
  <2>3. packet_ids[it] \in SeqNums /\ packet_ids[it-1] \in SeqNums
    BY <1>1, <2>1, <2>2
  <2>4. Last(packed).first_pid \in SeqNums
    <3>1. Last(packed) \in Items
      BY <1>1, <2>1 DEF Last
    <3>2. QED BY <3>1 DEF Items
  <2>5. packet_ids[it-1] < packet_ids[it]
    BY <1>4, <2>2 DEF Increasing
  <2>6. Last(packed).first_pid <= packet_ids[it-1]
    BY <1>4 DEF PackInv, ItemInv, CloseItem
  <2>7. ~Fits(packet_ids[it], Last(packed).first_pid)
    BY <1>4 DEF CloseItem
  <2>8. ~(/\ Last(packed).first_pid < packet_ids[it]
          /\ packet_ids[it] <= Last(packed).first_pid + MaskBits)
    BY <2>3, <2>4, <2>7, FitMeansFollow
  <2>9. QED
    BY <2>3, <2>4, <2>5, <2>6, <2>8, NackAssumption, SeqSpaceAssumption DEF SeqNums
<1>5. ItemInv'
  BY <1>2, <1>4 DEF ItemInv, Increasing
<1>6. QED BY <1>3, <1>5 DEF PackInv

-----------------------------------------------------------------------------

\* Every step of the loops keeps the invariant.
THEOREM Packing == PackSpec => []PackInv
<1>1. PackInit => PackInv
  BY PackInvInit
<1>2. PackInv /\ [PackNext]_packVars => PackInv'
  <2> SUFFICES ASSUME PackInv, [PackNext]_packVars PROVE PackInv'
    OBVIOUS
  <2>1. CASE StartItem
    BY <2>1, StartItemKeeps
  <2>2. CASE CoverNext
    BY <2>2, CoverNextKeeps
  <2>3. CASE CloseItem
    BY <2>3, CloseItemKeeps
  <2>4. CASE UNCHANGED packVars
    <3>1. /\ packet_ids' = packet_ids /\ it' = it
          /\ packed' = packed /\ open' = open
      BY <2>4 DEF packVars
    <3>2. PackTypeOK'
      BY <3>1 DEF PackInv, PackTypeOK
    <3>3. ItemInv'
      BY <3>1 DEF PackInv, ItemInv, Increasing, Last
    <3>4. NothingLostInPacking'
      <4>1. Unpack' = Unpack /\ Asked' = Asked
        BY <3>1 DEF Unpack, UnpackItem, Asked
      <4>2. QED BY <4>1 DEF PackInv, NothingLostInPacking
    <3>5. NoItemWasted'
      BY <3>1 DEF PackInv, NoItemWasted, Increasing
    <3>6. QED BY <3>2, <3>3, <3>4, <3>5 DEF PackInv
  <2>5. QED BY <2>1, <2>2, <2>3, <2>4 DEF PackNext
<1>3. QED BY <1>1, <1>2, PTL DEF PackSpec

\* Whatever the list, what Unpack reads is what Pack was given.
THEOREM PackingIsFaithful == PackSpec => []NothingLostInPacking
<1>1. PackInv => NothingLostInPacking
  BY DEF PackInv
<1>2. QED BY <1>1, Packing, PTL

\* For an increasing list no item starts where the mask before it has room.
THEOREM PackingIsDense == PackSpec => []NoItemWasted
<1>1. PackInv => NoItemWasted
  BY DEF PackInv
<1>2. QED BY <1>1, Packing, PTL
=============================================================================
