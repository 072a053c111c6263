---------------------------- MODULE RtpReceiver -----------------------------
(***************************************************************************)
(* RtpReceiver and its RtpReceiverPacketCache (src/src/rtp_rtcp/           *)
(* rtp_receiver.h, .cc): the jitter buffer that puts arriving packets in   *)
(* order, notes the gaps, asks for the missing packets with NACK and hands *)
(* the user every packet that is next in line or has waited long enough.   *)
(*                                                                         *)
(* The remote stream is a sequence of positions; the packet at position n  *)
(* carries the sequence number SeqAt(n). The code sees only sequence       *)
(* numbers: positions are compared only in the properties and in           *)
(* WithinReach, the assumption on the network.                             *)
(***************************************************************************)
EXTENDS SeqNum, ListOps, Sequences, SequencesExt

CONSTANTS
  Positions,         \* the positions of the remote stream that may arrive
  Kinds,             \* what arrives, see PacketKinds
  RtxEnabled,        \* config_->rtx_enabled
  MaxCacheDuration,  \* config_->max_cache_duration_ms
  NackInterval,      \* kNackIntervalMs
  MaxTime,           \* bound on the clock
  MaxReceived        \* bound on the packets the receiver counts

\* media: remote_ssrc and a known payload type; rtx: rtx_ssrc, mapped payload
\* type and more than two bytes of payload; bad_rtx: rtx_ssrc without one of
\* them; foreign: any other ssrc or payload type.
PacketKinds == {"media", "rtx", "bad_rtx", "foreign"}

ASSUME ReceiverAssumption ==
  /\ Positions \subseteq Nat
  /\ Kinds \subseteq PacketKinds
  /\ RtxEnabled \in BOOLEAN
  /\ MaxCacheDuration \in Nat /\ NackInterval \in Nat
  /\ MaxTime \in Nat /\ MaxReceived \in Nat

VARIABLES
  now,                 \* UTCTimeMillis()
  cached_packets,      \* list of [n, timeout], "bigger" sequence numbers first
  loss_seqs,           \* list of [seq, notified, last_notify]
  latest_callback_seq,
  has_callback_packet,
  has_cached_packet,
  extended_highest_seq, \* cycles * SeqSpace + sequence number
  extended_first_seq,
  nb_received_real,
  loss_packet_seqs,    \* the argument of the last NotifyLossPacketSeqsForNack
  arrived,             \* history: positions accepted by OnRtpPacket
  delivered            \* history: positions given to the user, in order

cacheVars == <<cached_packets, loss_seqs, latest_callback_seq,
               has_callback_packet, has_cached_packet, extended_highest_seq,
               extended_first_seq>>
vars == <<now, cacheVars, nb_received_real, loss_packet_seqs, arrived, delivered>>

-----------------------------------------------------------------------------
(* PutPacket: the ordered list of cached packets *)

SeqOfPacket(p) == SeqAt(p.n)

\* Mutant of IsLate: only a repeat of the last packet counts as late.
OnlyRepeatIsLate(s) == has_callback_packet /\ s = latest_callback_seq

\* Before or at the last packet called back: PutPacket returns at once.
IsLate(s) == has_callback_packet /\ ~IsSeqAfter(latest_callback_seq, s)

\* Mutant of StopsScan: the numbers are compared without regard to the wrap.
StopsScanByNumber(p, q) == SeqOfPacket(q) <= SeqOfPacket(p)

\* Where the scan from the front stops: at a duplicate or before the first
\* smaller packet.
StopsScan(p, q) == \/ SeqOfPacket(q) = SeqOfPacket(p)
                   \/ IsSeqAfter(SeqOfPacket(q), SeqOfPacket(p))

InsertPacket(list, p) ==
  IF list = <<>> \/ IsSeqAfter(SeqOfPacket(p), SeqOfPacket(Last(list)))
  THEN Append(list, p)
  ELSE IF \E i \in DOMAIN list : StopsScan(p, list[i])
       THEN LET i == CHOOSE i \in DOMAIN list :
                       /\ StopsScan(p, list[i])
                       /\ \A j \in 1..(i - 1) : ~StopsScan(p, list[j])
            IN IF SeqOfPacket(list[i]) = SeqOfPacket(p)
               THEN list
               ELSE SubSeq(list, 1, i - 1) \o <<p>> \o SubSeq(list, i, Len(list))
       ELSE list

\* Mutant of HighestAfter: a wrap starts no new cycle.
HighestWithoutCycle(s) ==
  LET latest == extended_highest_seq % SeqSpace
  IN  IF has_cached_packet /\ ~IsSeqAfter(latest, s) THEN extended_highest_seq
      ELSE (extended_highest_seq \div SeqSpace) * SeqSpace + s

\* The extended counters after a packet with sequence number s is put.
HighestAfter(s) ==
  LET latest == extended_highest_seq % SeqSpace
      cycles == extended_highest_seq \div SeqSpace
  IN  IF ~has_cached_packet THEN s
      ELSE IF ~IsSeqAfter(latest, s) THEN extended_highest_seq
      ELSE (IF s < latest THEN cycles + 1 ELSE cycles) * SeqSpace + s

\* Mutant of FirstAfter: the first number is lowered in every cycle.
FirstInAnyCycle(s) ==
  IF has_cached_packet /\ extended_first_seq <= s THEN extended_first_seq ELSE s

FirstAfter(s) ==
  IF ~has_cached_packet THEN s
  ELSE IF HighestAfter(s) \div SeqSpace = 0 /\ s < extended_first_seq
       THEN s ELSE extended_first_seq

-----------------------------------------------------------------------------
(* SupplementLossSeqs: the ordered list of gaps *)

Down(from, to) == [i \in 1..(IF from < to THEN 0 ELSE from - to + 1) |-> from + 1 - i]

\* The sequence numbers the loops visit between a cached packet and the next
\* smaller one. The branch for a wrapped counter runs down to 1 and starts
\* again at the top; its first loop starts from the unsigned last_seq - 1.
GapSeqs(last_seq, this_seq) ==
  IF this_seq < last_seq
  THEN Down(last_seq - 1, this_seq + 1)
  ELSE Down((last_seq - 1) % SeqSpace, 1) \o Down(SeqSpace - 1, this_seq + 1)

\* One visited number: iter_insert_pos moves past the bigger entries, and the
\* number is inserted there unless it is already listed.
PlaceLossSeq(acc, s) ==
  LET stops == {j \in acc.pos..Len(acc.list) :
                  \/ acc.list[j].seq = s
                  \/ ~IsSeqBefore(s, acc.list[j].seq)}
      pos == IF stops = {} THEN Len(acc.list) + 1
             ELSE CHOOSE j \in stops : \A k \in stops : j <= k
      entry == [seq |-> s, notified |-> FALSE, last_notify |-> 0]
  IN  IF pos <= Len(acc.list) /\ acc.list[pos].seq = s
      THEN [list |-> acc.list, pos |-> pos]
      ELSE [list |-> InsertAt(acc.list, pos, entry), pos |-> pos + 1]

\* The numbers visited between one packet and the next, placed one by one.
PlaceGap(acc, gap) ==
  LET placed[k \in 0..Len(gap)] ==
        IF k = 0 THEN acc ELSE PlaceLossSeq(placed[k - 1], gap[k])
  IN  placed[Len(gap)]

\* The gaps between the numbers of seqs, placed from the front on.
PlaceGaps(losses, seqs) ==
  LET gap(i) == IF IsNextSeq(seqs[i + 1], seqs[i]) THEN <<>>
                ELSE GapSeqs(seqs[i], seqs[i + 1])
      walked[i \in 0..(Len(seqs) - 1)] ==
        IF i = 0 THEN [list |-> losses, pos |-> 1] ELSE PlaceGap(walked[i - 1], gap(i))
  IN  walked[Len(seqs) - 1].list

\* Walks the cache from the front and then the last packet called back.
SupplementLossSeqs(losses, list) ==
  LET seqs == [i \in DOMAIN list |-> SeqOfPacket(list[i])] \o
              (IF has_callback_packet THEN <<latest_callback_seq>> ELSE <<>>)
      placed == PlaceGaps(losses, seqs)
  IN  IF has_callback_packet
      THEN Picked(placed, {i \in DOMAIN placed :
                             IsSeqBefore(latest_callback_seq, placed[i].seq)})
      ELSE placed

\* Mutant of LossAfterPut: the packet that came stays listed as lost.
LossKeepsArrived(s, list) == SupplementLossSeqs(loss_seqs, list)

LossAfterPut(s, list) ==
  LET others == Picked(loss_seqs, {i \in DOMAIN loss_seqs :
                         loss_seqs[i].seq = s => \E j \in 1..(i - 1) : loss_seqs[j].seq = s})
  IN  SupplementLossSeqs(others, list)

-----------------------------------------------------------------------------
(* GetLossPacketSeqsForNack *)

IsNackDue(e) == ~e.notified \/ e.last_notify + NackInterval <= now

NackSeqs(losses) ==
  LET due == Reverse(Picked(losses, {i \in DOMAIN losses : IsNackDue(losses[i])}))
  IN  [i \in DOMAIN due |-> due[i].seq]

\* Mutant of MarkNotified: the time of the notification is not recorded.
MarkWithoutTime(losses) == [i \in DOMAIN losses |-> [losses[i] EXCEPT !.notified = TRUE]]

MarkNotified(losses) ==
  [i \in DOMAIN losses |->
     IF IsNackDue(losses[i])
     THEN [losses[i] EXCEPT !.notified = TRUE, !.last_notify = now]
     ELSE losses[i]]

-----------------------------------------------------------------------------
(* GetPackets *)

\* Mutant of IsReadyRun: the run need not join up with the last packet delivered.
IsRunOfItsOwn(list, i) ==
  \A j \in i..(Len(list) - 1) :
     IsNextSeq(SeqOfPacket(list[j + 1]), SeqOfPacket(list[j]))

\* From index i to the back, the list continues latest_callback_seq without
\* a gap.
IsReadyRun(list, i) ==
  \A j \in i..Len(list) :
     IsNextSeq(IF j = Len(list) THEN latest_callback_seq
                                ELSE SeqOfPacket(list[j + 1]),
               SeqOfPacket(list[j]))

\* Where delivery starts: at the front of the ready run, or at a packet that
\* has waited out its time. Everything behind it goes too.
StartsDelivery(list, i) ==
  \/ list[i].timeout <= now
  \/ has_callback_packet /\ IsReadyRun(list, i)

\* The index of the first packet to deliver, Len(list) + 1 if there is none.
CutOf(list) ==
  IF \E i \in DOMAIN list : StartsDelivery(list, i)
  THEN CHOOSE i \in DOMAIN list :
         /\ StartsDelivery(list, i)
         /\ \A j \in 1..(i - 1) : ~StartsDelivery(list, j)
  ELSE Len(list) + 1

\* Mutant of Outgoing: the packets are handed over in the order of the list.
OutgoingBiggestFirst(list, cut) ==
  [k \in 1..(Len(list) - cut + 1) |-> list[cut + k - 1].n]

\* The positions of the packets from the cut to the back, smallest first.
Outgoing(list, cut) ==
  [k \in 1..(Len(list) - cut + 1) |-> list[Len(list) - k + 1].n]

GetPackets(list) ==
  LET cut == CutOf(list)
  IN  /\ cached_packets' = SubSeq(list, 1, cut - 1)
      /\ delivered' = delivered \o Outgoing(list, cut)
      /\ IF cut <= Len(list)
         THEN /\ latest_callback_seq' = SeqOfPacket(list[cut])
              /\ has_callback_packet' = TRUE
         ELSE UNCHANGED <<latest_callback_seq, has_callback_packet>>

-----------------------------------------------------------------------------
(* OnRtpPacket *)

\* The packet survives ReconstructRtpFromRtx and the checks of its ssrc and
\* payload type. An rtx packet becomes the media packet it carries.
IsAccepted(kind) == kind = "media" \/ (kind = "rtx" /\ RtxEnabled)

\* The network's part of the bargain: a packet is no further than half the
\* sequence space from the packets in the cache and the last one delivered.
\* 16-bit numbers can order nothing that is further apart.
WithinReach(n) ==
  LET near(m) == n - m <= HalfRange /\ m - n <= HalfRange
  IN  /\ \A i \in DOMAIN cached_packets : near(cached_packets[i].n)
      /\ delivered # <<>> => near(Last(delivered))

\* What PutPacket leaves in the cache.
CacheAfterPut(n) ==
  IF IsLate(SeqAt(n)) THEN cached_packets
  ELSE InsertPacket(cached_packets, [n |-> n, timeout |-> now + MaxCacheDuration])

OnRtpPacket(n, kind) ==
  LET s == SeqAt(n)
      list == CacheAfterPut(n)
      losses == IF IsLate(s) THEN loss_seqs ELSE LossAfterPut(s, list)
  IN  /\ IsAccepted(kind)
      /\ WithinReach(n)
      /\ nb_received_real < MaxReceived
      /\ IF IsLate(s)
         THEN UNCHANGED <<has_cached_packet, extended_highest_seq, extended_first_seq>>
         ELSE /\ has_cached_packet' = TRUE
              /\ extended_highest_seq' = HighestAfter(s)
              /\ extended_first_seq' = FirstAfter(s)
      /\ nb_received_real' = nb_received_real + 1
      /\ loss_seqs' = MarkNotified(losses)
      /\ loss_packet_seqs' = NackSeqs(losses)
      /\ GetPackets(list)
      /\ arrived' = arrived \cup {n}
      /\ UNCHANGED now

\* OnRtpPacket returns early and nothing changes.
RejectRtpPacket(kind) == ~IsAccepted(kind) /\ UNCHANGED vars

Tick == /\ now < MaxTime
        /\ now' = now + 1
        /\ UNCHANGED <<cacheVars, nb_received_real, loss_packet_seqs, arrived, delivered>>

\* GetRtpReceiverStatistics: cumulative_loss as the last report computed it.
cumulative_loss ==
  LET loss == extended_highest_seq - extended_first_seq - nb_received_real
  IN  IF loss > 0 THEN loss ELSE 0

Init == /\ now = 0
        /\ cached_packets = <<>>
        /\ loss_seqs = <<>>
        /\ latest_callback_seq = 0
        /\ has_callback_packet = FALSE
        /\ has_cached_packet = FALSE
        /\ extended_highest_seq = 0
        /\ extended_first_seq = 0
        /\ nb_received_real = 0
        /\ loss_packet_seqs = <<>>
        /\ arrived = {}
        /\ delivered = <<>>

Next == \/ \E n \in Positions, kind \in Kinds : OnRtpPacket(n, kind)
        \/ \E kind \in Kinds : RejectRtpPacket(kind)
        \/ Tick

Spec == Init /\ [][Next]_vars

-----------------------------------------------------------------------------
(* Properties *)

Packets == [n : Positions, timeout : Nat]

\* The types of the variables of the cache.
CacheTypeOK ==
  /\ now \in 0..MaxTime
  /\ cached_packets \in Seq(Packets)
  /\ latest_callback_seq \in SeqNums
  /\ has_callback_packet \in BOOLEAN /\ has_cached_packet \in BOOLEAN
  /\ extended_highest_seq \in Nat /\ extended_first_seq \in Nat
  /\ nb_received_real \in 0..MaxReceived
  /\ arrived \subseteq Positions
  /\ delivered \in Seq(Positions)

IsUndelivered(n) == delivered = <<>> \/ Last(delivered) < n

\* The user gets packets in the order of the stream and none of them twice,
\* although the counter wraps, packets come late and come twice.
DeliveredInOrder ==
  \A i, j \in DOMAIN delivered : i < j => delivered[i] < delivered[j]

\* The cache lists, biggest first and once each, exactly the accepted packets
\* above the last one delivered: PutPacket loses no packet that can still be
\* delivered, and keeps none that cannot (rtp_receiver.h:59).
CacheHoldsUndelivered ==
  /\ \A i, j \in DOMAIN cached_packets :
        i < j => cached_packets[i].n > cached_packets[j].n
  /\ {cached_packets[i].n : i \in DOMAIN cached_packets}
       = {n \in arrived : IsUndelivered(n)}

\* What is cached lies above the last packet delivered, and close enough to it
\* and to each other for 16-bit numbers to order it; latest_callback_seq_ is
\* the number of that last packet.
CacheInReach ==
  /\ \A i, j \in DOMAIN cached_packets :
        cached_packets[i].n - cached_packets[j].n <= HalfRange
  /\ has_callback_packet <=> delivered # <<>>
  /\ delivered # <<>> =>
       /\ latest_callback_seq = SeqAt(Last(delivered))
       /\ \A i \in DOMAIN cached_packets :
             /\ Last(delivered) < cached_packets[i].n
             /\ cached_packets[i].n - Last(delivered) <= HalfRange

\* The inductive invariant of the delivery proof.
DeliveryInv ==
  CacheTypeOK /\ DeliveredInOrder /\ CacheHoldsUndelivered /\ CacheInReach

\* A packet is passed over only for a later packet that spent the whole of
\* max_cache_duration_ms in the cache: retransmission has that long to fill
\* the gap.
GapsWaitOutTheCache ==
  [][\A m \in Positions \ arrived' :
       (IsUndelivered(m) /\ delivered' # <<>> /\ m < Last(delivered'))
         => \E p \in ToSet(cached_packets) :
              m < p.n /\ p.n <= Last(delivered') /\ p.timeout <= now]_vars

MaxOf(S) == CHOOSE n \in S : \A m \in S : m <= n
MinOf(S) == CHOOSE n \in S : \A m \in S : n <= m

\* The extended highest sequence number of the receiver reports advances by
\* exactly what the stream advanced, over a wrap of the 16-bit counter too.
ExtendedHighestFollowsStream ==
  [][arrived # {} => extended_highest_seq' - extended_highest_seq
                       = MaxOf(arrived') - MaxOf(arrived)]_vars

\* A receiver report never claims more packets lost than are missing between
\* the first and the last that arrived.
LossNeverOverstated ==
  arrived # {} =>
    cumulative_loss <= MaxOf(arrived) - MinOf(arrived) + 1 - Cardinality(arrived)

\* The gaps of the cache: between its packets and above the last one delivered.
Gaps ==
  LET held == {p.n : p \in ToSet(cached_packets)}
      low == IF delivered # <<>> THEN Last(delivered) ELSE MinOf(held)
  IN  IF held = {} THEN {} ELSE (low + 1)..(MaxOf(held) - 1) \ held

ListedAsLost == {e.seq : e \in {e \in ToSet(loss_seqs) : ~IsLate(e.seq)}}

\* Every packet the cache waits for is listed as lost, so that NACK reports it
\* and retransmission can bring it (README.md:8).
EveryGapIsListed == {SeqAt(n) : n \in Gaps} \subseteq ListedAsLost

InFirstCycle == \A n \in arrived : n < SeqSpace

\* Until the counter wraps, the numbers above the last packet delivered that are
\* listed as lost are exactly the gaps.
LossListIsGaps == InFirstCycle => ListedAsLost = {SeqAt(n) : n \in Gaps}

Abstract == INSTANCE InOrderDelivery

\* The receiver implements the in-order delivery its user relies on.
ImplementsInOrderDelivery == Abstract!Spec
=============================================================================
