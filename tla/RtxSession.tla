------------------------------ MODULE RtxSession ------------------------------
(***************************************************************************)
(* One direction of a media session with retransmission: the RtpSender of  *)
(* one end, the RtpReceiver of the other, and between them the UDP network *)
(* that carries media and rtx packets one way and NACKs the other way. The *)
(* network delays and reorders everything; a bounded number of times it    *)
(* loses or repeats a packet or a NACK.                                    *)
(*                                                                         *)
(* The receiver's NACK goes through MediaSession::NotifyLossPacketSeqsFor- *)
(* Nack and RtcpSender::SendNack to the network, and from the network      *)
(* through RtcpReceiver::ParseNacks and MediaSession::NotifyNackReceived   *)
(* to RtpSender::SendRtx. These hand the list on unchanged while neither   *)
(* end has sent BYE.                                                       *)
(***************************************************************************)
EXTENDS SeqNum, Sequences, SequencesExt

CONSTANTS
  FirstSeqs,              \* the sequence numbers the stream may start with
  MaxSent,                \* bound on the length of the stream
  MaxFaults,              \* bound on losses and repetitions
  LossyKinds,             \* the kinds of packets the network may lose
  RtxStarts,              \* the numbers the rtx packets may count on from
  MaxCacheSeqDifference, MaxCacheDuration, NackInterval, MaxTime, MaxReceived

RtxEnabled == TRUE
PayloadKinds == {"mapped"}
WithoutPayload == {}
Kinds == {"media", "rtx"}
Positions == {s + k : s \in FirstSeqs, k \in 0..(MaxSent - 1)}
Requests == Seq(SeqNums)  \* the network brings them

ASSUME SessionAssumption ==
  /\ FirstSeqs \subseteq SeqNums
  /\ MaxSent \in Nat \ {0} /\ MaxSent <= HalfRange
  /\ MaxFaults \in Nat
  /\ MaxCacheSeqDifference \in SeqNums \ {0}
  /\ MaxCacheDuration \in Nat /\ MaxTime \in Nat /\ MaxReceived \in Nat
  /\ LossyKinds \subseteq {"media", "rtx", "nack"}
  /\ RtxStarts \subseteq SeqNums
  /\ NackInterval \in Nat \ {0}

VARIABLES
  has_sent, last_seq, cached_rtp_packets, rtx_has_sent, rtx_last_seq, out,
  first_n, last_n, asked,
  now, cached_packets, loss_seqs, latest_callback_seq, has_callback_packet,
  has_cached_packet, extended_highest_seq, extended_first_seq,
  nb_received_real, loss_packet_seqs, arrived, delivered,
  net,          \* the packets in flight: [kind, n] with kind media or rtx,
                \* [kind |-> "nack", seqs] the other way
  faults,       \* losses and repetitions so far
  asked_times,  \* history: when the receiver asked for each position sent
  rtx_count,    \* history: how often each position was retransmitted
  nack_repeats  \* history: how often the network repeated a NACK

Sender == INSTANCE RtpSender
Receiver == INSTANCE RtpReceiver

senderVars == <<has_sent, last_seq, cached_rtp_packets, rtx_has_sent,
                rtx_last_seq, out, first_n, last_n, asked>>
receiverVars == <<now, cached_packets, loss_seqs, latest_callback_seq,
                  has_callback_packet, has_cached_packet, extended_highest_seq,
                  extended_first_seq, nb_received_real, loss_packet_seqs,
                  arrived, delivered>>
historyVars == <<asked_times, rtx_count, nack_repeats>>
vars == <<senderVars, receiverVars, net, faults, historyVars>>

Flight(packets) == {[kind |-> p.ssrc, n |-> p.n] : p \in ToSet(packets)}

\* The user sends the next packet; the tranceiver puts it on the network.
Send(s) ==
  /\ has_sent \/ s \in FirstSeqs
  /\ Sender!SendRtp(s, "mapped")
  /\ net' = net \cup Flight(out')
  /\ UNCHANGED <<receiverVars, faults, historyVars>>

\* OnRtpPacket: NotifyLossPacketSeqsForNack hands a list that is not empty to
\* SendNack.
Nacks(seqs) == IF seqs = <<>> THEN {} ELSE {[kind |-> "nack", seqs |-> seqs]}

\* The receiver gets p, and left is what stays under way.
Receive(p, left) ==
  /\ p.kind # "nack"
  /\ Receiver!OnRtpPacket(p.n, p.kind)
  /\ net' = left \cup Nacks(loss_packet_seqs')
  /\ asked_times' = [n \in Positions |->
       IF n \in first_n..last_n /\ SeqAt(n) \in ToSet(loss_packet_seqs')
       THEN Append(asked_times[n], now) ELSE asked_times[n]]
  /\ UNCHANGED <<senderVars, rtx_count>>

\* ParseNacks hands the list to NotifyNackReceived and that to SendRtx.
AnswerNack(p, left) ==
  /\ p.kind = "nack"
  /\ Sender!SendRtx(p.seqs)
  /\ net' = left \cup Flight(out')
  /\ rtx_count' = [n \in Positions |->
                     rtx_count[n] + Cardinality({i \in DOMAIN out' : out'[i].n = n})]
  /\ UNCHANGED <<receiverVars, asked_times>>

Deliver(p) ==
  /\ Receive(p, net \ {p}) \/ AnswerNack(p, net \ {p})
  /\ UNCHANGED <<faults, nack_repeats>>

Lose(p) ==
  /\ p.kind \in LossyKinds
  /\ faults < MaxFaults
  /\ net' = net \ {p}
  /\ faults' = faults + 1
  /\ UNCHANGED <<senderVars, receiverVars, historyVars>>

\* A packet or a NACK arrives and a copy of it is still to come.
Repeat(p) ==
  /\ faults < MaxFaults
  /\ faults' = faults + 1
  /\ \/ Receive(p, net) /\ UNCHANGED nack_repeats
     \/ AnswerNack(p, net) /\ nack_repeats' = nack_repeats + 1

Tick == Receiver!Tick /\ UNCHANGED <<senderVars, net, faults, historyVars>>

Init == /\ Sender!Init
        /\ Receiver!Init
        /\ net = {}
        /\ faults = 0
        /\ asked_times = [n \in Positions |-> <<>>]
        /\ rtx_count = [n \in Positions |-> 0]
        /\ nack_repeats = 0

Next == \/ \E s \in SeqNums : Send(s)
        \/ \E p \in net : Deliver(p) \/ Lose(p) \/ Repeat(p)
        \/ Tick

\* A packet or a NACK that was under way has been handed to its receiver.
Delivers == faults' = faults /\ \E p \in net : p \notin net'

\* Every packet that is not lost gets there: the network, the network threads
\* and the worker threads make progress. This is WF_vars(Delivers), with the
\* condition for it to be enabled written out; the last packets the bound
\* MaxReceived leaves on the network are not waited for. Nothing makes the user
\* send, nor the network lose.
Fairness ==
  \/ []<>(net = {} \/ nb_received_real = MaxReceived)
  \/ []<><<Delivers>>_vars

Spec == Init /\ [][Next]_vars
FairSpec == Spec /\ Fairness

-----------------------------------------------------------------------------
(* Properties *)

Held == {p.n : p \in ToSet(cached_packets)}

\* The last NACK asks only for packets that were sent and that the receiver
\* neither keeps nor has given to the user: however the network reorders and
\* repeats, what arrived in time is not asked for again, nor is a packet of the
\* future or of another cycle. (A packet that came too late to be kept may still
\* be asked for: PutPacket returns before it clears the list of losses,
\* rtp_receiver.cc:60-63.)
NackAsksOnlyForMissing ==
  ToSet(loss_packet_seqs) \subseteq
    {SeqAt(n) : n \in (first_n..last_n) \ (Held \cup ToSet(delivered))}

\* The receiver asks for a packet again only kNackIntervalMs after it last did,
\* however many packets arrive in between, and the sender retransmits it no more
\* often than it was asked for, once more for each NACK the network repeated.
RetransmissionsPaced ==
  \A n \in Positions :
    /\ \A i \in 2..Len(asked_times[n]) :
          asked_times[n][i - 1] + NackInterval <= asked_times[n][i]
    /\ rtx_count[n] <= Len(asked_times[n]) + nack_repeats

\* A media packet the receiver's cache waits for comes by retransmission: its
\* NACK finds the packet in the sender's cache and the rtx packet turns into the
\* lost one (README.md:8).
LostPacketsRecovered ==
  \A n \in Positions : n \in Receiver!Gaps ~> n \in arrived
===============================================================================
