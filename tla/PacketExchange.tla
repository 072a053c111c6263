---------------------------- MODULE PacketExchange -----------------------------
(***************************************************************************)
(* A packet from one side to the other. RtcpSender::SendRtcp puts a        *)
(* compound packet together (its NACK by the steps of NackPacking),        *)
(* RtpRtcpTranceiverImpl writes it, or an RTP packet or the cached copy of *)
(* one; the demuxer of the other side tells RTP from RTCP by the payload   *)
(* type, and RtcpReceiver::Parse or RtpPacketImpl::StorePacket reads it.   *)
(***************************************************************************)
EXTENDS NackPacking, Integers, FiniteSets

CONSTANTS
  Reports,     \* report blocks, an element for each choice of SendRtcp
  CnameSizes,  \* lengths of the cname
  Reasons,     \* lengths of the reason of a BYE
  RtpPackets   \* packets the user sends

Rtcp == INSTANCE RtcpPacketFormat
Rtp == INSTANCE RtpPacketFormat

VARIABLES
  out,    \* what is sent: [kind, packets] or [kind, packet, copied]
  wire,   \* its octets
  stage,  \* build, sent, parse, done, dropped, refused, crashed
  next,   \* next_packet of Parse
  got     \* what was read

exchangeVars == <<out, wire, stage, next, got>>

-----------------------------------------------------------------------------
(* The sender *)

\* A number that does not fit leaves the 0 of the constructor.
SetCumulativeLost(n) == IF n >= 2^23 \/ n < -(2^23) THEN 0 ELSE n

ReportBlocks(blocks) ==
  [k \in DOMAIN blocks |-> [blocks[k] EXCEPT !.cumulative_lost = SetCumulativeLost(@)]]

Report(b_sr, blocks) ==
  IF b_sr
  THEN [type |-> Rtcp!kSenderReport, ssrc |-> 1, ntp |-> [seconds |-> 1000, fractions |-> 77],
        rtp_timestamp |-> 90000, packet_count |-> 300, octet_count |-> 70000,
        blocks |-> ReportBlocks(blocks)]
  ELSE [type |-> Rtcp!kReceiverReport, ssrc |-> 1, blocks |-> ReportBlocks(blocks)]

\* AddCName refuses a name of more than 255 characters, and no chunk is added.
Sdes(cname) ==
  [type |-> Rtcp!kSdes,
   chunks |-> IF cname > 255 THEN <<>> ELSE <<[ssrc |-> 1, cname |-> cname]>>]

\* SendRtcp gives a BYE no reason; SetReason takes one of up to 255 characters.
Bye(reason) == [type |-> Rtcp!kBye, ssrc |-> 1, csrcs |-> <<>>, reason |-> reason]

Nack == [type |-> Rtcp!kRtpfb, ssrc |-> 1, media_ssrc |-> 2, packed |-> packed]

Compounds ==
  {<<Report(b_sr, blocks), Sdes(cname)>> \o bye :
     b_sr \in BOOLEAN, blocks \in Reports, cname \in CnameSizes,
     bye \in {<<>>} \cup {<<Bye(reason)>> : reason \in Reasons}}

\* A compound packet for a NACK, which no BYE follows.
PlainCompound == <<Report(FALSE, <<>>), Sdes(3)>>

IsPacked == it > Len(packet_ids) /\ ~open

Load(packets) == FlattenSeq([k \in DOMAIN packets |-> Rtcp!LoadPacket(packets[k])])

CompoundSize(packets) == Rtcp!SumOf([k \in DOMAIN packets |-> Rtcp!BlockLength(packets[k])])

\* RtpRtcpTranceiverImpl::SendRtcp drops a compound packet one of whose packets
\* cannot be loaded or whose size is not as computed.
SendRtcp ==
  LET packets == out.packets \o (IF packet_ids = <<>> THEN <<>> ELSE <<Nack>>)
      fits == /\ \A k \in DOMAIN packets : Rtcp!CanLoad(packets[k])
              /\ Len(Load(packets)) = CompoundSize(packets)
  IN  /\ stage = "build" /\ out.kind = "rtcp" /\ IsPacked
      /\ out' = [out EXCEPT !.packets = packets]
      /\ wire' = IF fits THEN Load(packets) ELSE <<>>
      /\ stage' = IF fits THEN "sent" ELSE "dropped"
      /\ UNCHANGED <<packVars, next, got>>

\* SendRtp, or SendRtx of what the cache has kept.
SendRtp ==
  /\ stage = "build" /\ out.kind = "rtp"
  /\ wire' = Rtp!LoadRtp(IF out.copied THEN Rtp!CopyRtp(out.packet) ELSE out.packet)
  /\ stage' = "sent"
  /\ UNCHANGED <<packVars, out, next, got>>

-----------------------------------------------------------------------------
(* The receiver *)

PayloadTypeIsReservedForRtcp(pt) == 64 <= pt /\ pt < 96

\* RtpRtcpPacketDemuxer::OnData, of a packet that is large enough and of version 2.
OnData ==
  /\ stage = "sent"
  /\ IF PayloadTypeIsReservedForRtcp(wire[2] % 128)
     THEN stage' = "parse" /\ next' = 1 /\ UNCHANGED got
     ELSE /\ got' = Rtp!StoreRtp(wire)
          /\ stage' = IF got' = <<>> THEN "refused" ELSE "done"
          /\ UNCHANGED next
  /\ UNCHANGED <<packVars, out, wire>>

\* One round of Parse: a packet that its StorePacket refuses is passed over.
ParseNext ==
  /\ stage = "parse" /\ next \in 1..Len(wire) /\ Rtcp!HeaderFits(wire, next)
  /\ LET h == Rtcp!Header(wire, next)
     IN  /\ next' = Rtcp!NextPacket(h)
         /\ \E unset \in {0, 255} : got' = got \o Rtcp!StorePacket(wire, h, unset)
         /\ stage' = IF Rtcp!ReadsNullBlock(h) THEN "crashed" ELSE stage
  /\ UNCHANGED <<packVars, out, wire>>

\* Nothing remains, or a header is refused, or next_packet is null: then the
\* length that remains is computed from it and the header read through it.
EndParse ==
  /\ stage = "parse"
  /\ ~(next \in 1..Len(wire) /\ Rtcp!HeaderFits(wire, next))
  /\ stage' = IF next = Len(wire) + 1 THEN "done"
              ELSE IF next = Rtcp!kNull THEN "crashed" ELSE "refused"
  /\ UNCHANGED <<packVars, out, wire, next, got>>

ExchangeInit ==
  /\ PackInit
  /\ out \in IF packet_ids # <<>> THEN {[kind |-> "rtcp", packets |-> PlainCompound]}
             ELSE {[kind |-> "rtcp", packets |-> c] : c \in Compounds}
                    \cup [kind : {"rtp"}, packet : RtpPackets, copied : BOOLEAN]
  /\ wire = <<>> /\ stage = "build" /\ next = 0 /\ got = <<>>

ExchangeNext ==
  \/ PackNext /\ UNCHANGED exchangeVars
  \/ SendRtcp \/ SendRtp \/ OnData \/ ParseNext \/ EndParse

ExchangeSpec == ExchangeInit /\ [][ExchangeNext]_<<packVars, exchangeVars>>

-----------------------------------------------------------------------------
(* Properties *)

\* A compound packet is never dropped on the way out: each packet writes as many
\* octets as it has promised, whatever the lengths of the texts in it.
CompoundsSent == stage # "dropped"

Ended == stage \in {"done", "refused", "crashed"}

\* The numbers of a report block but for the cumulative loss, of which 24 bits
\* are sent and read.
SameBlocks(b, c) ==
  Len(b) = Len(c) /\ \A k \in DOMAIN b :
    /\ b[k].cumulative_lost % 2^24 = c[k].cumulative_lost % 2^24
    /\ [b[k] EXCEPT !.cumulative_lost = 0] = [c[k] EXCEPT !.cumulative_lost = 0]

Same(p, q) ==
  IF p.type = Rtcp!kReceiverReport
  THEN q.type = p.type /\ q.ssrc = p.ssrc /\ SameBlocks(p.blocks, q.blocks)
  ELSE p = q

\* No sender report with a block, no empty packet.
PlainRtcp(packets) ==
  \A k \in DOMAIN packets :
    /\ packets[k].type = Rtcp!kSenderReport => packets[k].blocks = <<>>
    /\ packets[k].type = Rtcp!kSdes => packets[k].chunks # <<>>

\* The receiver finds every packet of a compound packet, in order and with its
\* numbers, whatever packets and texts come before it - but for a sender report
\* with a block (the pointers of its vector are null when it is read) and an
\* SDES without a name (it is only a header, which Parse takes for the end).
CompoundRead ==
  Ended /\ out.kind = "rtcp" /\ PlainRtcp(out.packets) =>
    /\ stage = "done" /\ Len(got) = Len(out.packets)
    /\ \A k \in DOMAIN got : Same(out.packets[k], got[k])

PlainRtp(p) ==
  /\ p.extension = <<>> /\ p.pad_size = 0 /\ p.csrcs = <<>>
  /\ ~PayloadTypeIsReservedForRtcp(p.payload_type)

\* An RTP packet, and the copy of it that is sent again, is read as the packet
\* it is, when it has no extension, padding or csrcs and its payload type is not
\* one of RTCP.
RtpRead == Ended /\ out.kind = "rtp" /\ PlainRtp(out.packet) => got = <<out.packet>>
===============================================================================
