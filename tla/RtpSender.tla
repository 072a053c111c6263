------------------------------ MODULE RtpSender ------------------------------
(***************************************************************************)
(* RtpSender and its RtpSenderPacketCache (src/src/rtp_rtcp/rtp_sender.h,  *)
(* .cc): media packets go out in the order of their sequence numbers, a    *)
(* copy of each stays in the cache for as long as it is within             *)
(* max_cache_seq_difference of the newest, and a NACK is answered with rtx *)
(* packets made from the cached copies.                                    *)
(*                                                                         *)
(* SendRtp runs on the signaling thread and SendRtx on the worker thread;  *)
(* each holds mutex_ from its first access to the state to its last, so    *)
(* each is one action. The user's stream is a sequence of positions, as in *)
(* RtpReceiver: the cache lists positions, the code sees their numbers.    *)
(***************************************************************************)
EXTENDS SeqNum, ListOps, SequencesExt

CONSTANTS
  RtxEnabled,             \* config_->rtx_enabled
  MaxCacheSeqDifference,  \* config_->max_cache_seq_difference
  PayloadKinds,           \* the payload types the user sends, see PacketPayloads
  WithoutPayload,         \* the positions the user sends with no payload
  Requests,               \* the lists of sequence numbers NACKs may ask for
  RtxStarts,              \* the numbers ConstructRtx may draw to count on from
  MaxSent                 \* bound on the length of the stream

\* mapped: a configured payload type with an entry in map_rtx_payload_type;
\* unmapped: one without; foreign: an unknown payload type or a wrong ssrc.
PacketPayloads == {"mapped", "unmapped", "foreign"}

\* Initialize refuses rtx with an empty cache.
ASSUME SenderAssumption ==
  /\ RtxEnabled \in BOOLEAN
  /\ MaxCacheSeqDifference \in SeqNums
  /\ RtxEnabled => MaxCacheSeqDifference # 0
  /\ PayloadKinds \subseteq PacketPayloads
  /\ WithoutPayload \subseteq Nat
  /\ Requests \subseteq Seq(SeqNums)
  /\ RtxStarts \subseteq SeqNums
  /\ MaxSent \in Nat

VARIABLES
  has_sent,
  last_seq,
  cached_rtp_packets, \* list of positions, oldest first
  rtx_has_sent,       \* rtx_context.has_sent
  rtx_last_seq,       \* rtx_context.last_seq
  out,                \* what the last call handed to the tranceiver
  first_n, last_n,    \* history: the first and the last position sent
  asked               \* history: the request the last call answered

vars == <<has_sent, last_seq, cached_rtp_packets, rtx_has_sent, rtx_last_seq,
          out, first_n, last_n, asked>>

-----------------------------------------------------------------------------
(* RtpSenderPacketCache *)

\* Mutant of StaysCached: the limit itself is out of range.
StaysCachedStrictly(m, n) ==
  IsSeqBeforeInRange(SeqAt(m), SeqAt(n), MaxCacheSeqDifference - 1)

StaysCached(m, n) ==
  IsSeqBeforeInRange(SeqAt(m), SeqAt(n), MaxCacheSeqDifference)

\* Mutant of PutPacket: nothing is erased.
PutPacketKeepsAll(list, n) == Append(list, n)

\* The packets before the first one that stays are erased.
PutPacket(list, n) ==
  IF \E i \in DOMAIN list : StaysCached(list[i], n)
  THEN LET i == CHOOSE i \in DOMAIN list :
                  /\ StaysCached(list[i], n)
                  /\ \A j \in 1..(i - 1) : ~StaysCached(list[j], n)
       IN  Append(SubSeq(list, i, Len(list)), n)
  ELSE <<n>>

IsCached(s) == \E i \in DOMAIN cached_rtp_packets : SeqAt(cached_rtp_packets[i]) = s

\* The first cached packet with sequence number s.
FirstCached(s) ==
  LET i == CHOOSE i \in DOMAIN cached_rtp_packets :
             /\ SeqAt(cached_rtp_packets[i]) = s
             /\ \A j \in 1..(i - 1) : SeqAt(cached_rtp_packets[j]) # s
  IN  cached_rtp_packets[i]

GetPackets(packet_seqs) ==
  LET found == Picked(packet_seqs,
                      {k \in DOMAIN packet_seqs : IsCached(packet_seqs[k])})
  IN  [k \in DOMAIN found |-> FirstCached(found[k])]

-----------------------------------------------------------------------------
(* RtpSender *)

NextSeq(s) == IF s = SeqSpace - 1 THEN 0 ELSE s + 1

\* The packet passes the checks of its ssrc, payload type and sequence number.
IsAccepted(s, payload) ==
  /\ payload # "foreign"
  /\ has_sent => s = NextSeq(last_seq)

SendRtp(s, payload) ==
  LET n == IF has_sent THEN last_n + 1 ELSE s
  IN  /\ IsAccepted(s, payload)
      /\ has_sent => n - first_n < MaxSent
      /\ cached_rtp_packets' = IF RtxEnabled /\ payload = "mapped"
                               THEN PutPacket(cached_rtp_packets, n)
                               ELSE cached_rtp_packets
      /\ out' = <<[ssrc |-> "media", seq |-> s, n |-> n]>>
      /\ last_seq' = s
      /\ has_sent' = TRUE
      /\ last_n' = n
      /\ first_n' = IF has_sent THEN first_n ELSE n
      /\ asked' = <<>>
      /\ UNCHANGED <<rtx_has_sent, rtx_last_seq>>

\* SendRtp logs and returns, nothing changes.
RejectRtp(s, payload) == ~IsAccepted(s, payload) /\ UNCHANGED vars

\* ConstructRtx numbers the packets on from the last rtx packet, or from a
\* number drawn at random before the first one. It reads the payload of each: at
\* a packet that has none the process ends, and there is no step.
SendRtx(packet_seqs) ==
  LET packets == GetPackets(packet_seqs)
  IN  /\ RtxEnabled /\ packet_seqs # <<>>
      /\ ToSet(packets) \cap WithoutPayload = {}
      /\ \E seq \in (IF rtx_has_sent THEN {rtx_last_seq} ELSE RtxStarts) :
           /\ out' = [k \in DOMAIN packets |->
                        [ssrc |-> "rtx", seq |-> SeqAt(seq + k), n |-> packets[k]]]
           /\ IF packets = <<>>
              THEN UNCHANGED <<rtx_has_sent, rtx_last_seq>>
              ELSE /\ rtx_has_sent' = TRUE
                   /\ rtx_last_seq' = SeqAt(seq + Len(packets))
      /\ asked' = packet_seqs
      /\ UNCHANGED <<has_sent, last_seq, cached_rtp_packets, first_n, last_n>>

\* SendRtx returns early: rtx is off, or the list is empty.
IgnoreRtx(packet_seqs) ==
  (~RtxEnabled \/ packet_seqs = <<>>) /\ UNCHANGED vars

Init == /\ has_sent = FALSE
        /\ last_seq = 0
        /\ cached_rtp_packets = <<>>
        /\ rtx_has_sent = FALSE
        /\ rtx_last_seq = 0
        /\ out = <<>>
        /\ first_n = 0 /\ last_n = 0
        /\ asked = <<>>

Next == \/ \E s \in SeqNums, payload \in PayloadKinds : SendRtp(s, payload)
        \/ \E s \in SeqNums, payload \in PayloadKinds : RejectRtp(s, payload)
        \/ \E packet_seqs \in Requests : SendRtx(packet_seqs)
        \/ \E packet_seqs \in Requests : IgnoreRtx(packet_seqs)

Spec == Init /\ [][Next]_vars

-----------------------------------------------------------------------------
(* Properties *)

\* The positions a retransmission must be able to bring back.
Window == {n \in first_n..last_n : has_sent /\ last_n - n <= MaxCacheSeqDifference}

\* When every payload type has an rtx type, the cache is exactly the newest
\* packets up to max_cache_seq_difference behind the last one sent, in order,
\* through every wrap of the counter: PutPacket erases none too early and keeps
\* none too long, so no number stands for two packets.
CacheIsWindow ==
  RtxEnabled /\ PayloadKinds \cap {"unmapped"} = {} =>
    /\ \A i, j \in DOMAIN cached_rtp_packets :
          j - i = cached_rtp_packets[j] - cached_rtp_packets[i]
    /\ {cached_rtp_packets[i] : i \in DOMAIN cached_rtp_packets} = Window

\* A NACK is answered with every packet it asks for that is in the window, and
\* with nothing else: never with a packet of an earlier cycle.
RtxAnswersRequest ==
  asked # <<>> =>
    {p.n : p \in ToSet(out)} = {n \in Window : SeqAt(n) \in ToSet(asked)}
=============================================================================
