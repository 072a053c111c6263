---------------------------- MODULE RtpPacketFormat ----------------------------
(***************************************************************************)
(* The RTP packet as octets (src/src/rtp_rtcp/rtp_packet_impl.cc,          *)
(* rtp_packet.cc): LoadPacket, StorePacket and the copy that the           *)
(* retransmission cache keeps.                                             *)
(*                                                                         *)
(* A packet is a record; extension and payload are sequences of one        *)
(* element, or empty where the code has a null pointer.                    *)
(***************************************************************************)
EXTENDS Integers, Sequences, SequencesExt

LOCAL INSTANCE RtcpPacketFormat WITH MaskBits <- 16

kFixedBufferLength == 12

Bit(octet, value) == (octet \div value) % 2 = 1

\* The extension is announced in the bit of the padding and the padding in the
\* bit of the extension.
FlagBits(p) ==
  (IF p.extension # <<>> THEN 32 ELSE 0) + (IF p.pad_size > 0 THEN 16 ELSE 0)

LoadExtension(e) ==
  e.name \o WriteBigEndian(e.length, 2) \o e.content

\* The octets of LoadPacket; a packet has at most 15 csrcs.
LoadRtp(p) ==
  <<128 + FlagBits(p) + Len(p.csrcs), 128 * p.m + p.payload_type>>
    \o WriteBigEndian(p.sequence_number, 2) \o WriteBigEndian(p.timestamp, 4)
    \o WriteBigEndian(p.ssrc, 4)
    \o FlattenSeq([k \in DOMAIN p.csrcs |-> WriteBigEndian(p.csrcs[k], 4)])
    \o FlattenSeq([k \in DOMAIN p.extension |-> LoadExtension(p.extension[k])])
    \o FlattenSeq(p.payload)
    \o (IF p.pad_size > 0 THEN Zeros(p.pad_size - 1) \o <<p.pad_size>> ELSE <<>>)

\* The csrcs are read as the processor has them, the last octet first.
ReadCsrc(b, at) == ReadBigEndian(Reverse(SubSeq(b, at, at + 3)), 1, 4)

\* How many octets the csrcs end after, and with an extension that.
CsrcsEnd(b) == kFixedBufferLength + 4 * (b[1] % 16)
PayloadStart(b) ==
  IF Bit(b[1], 16) THEN CsrcsEnd(b) + 4 + 4 * ReadBigEndian(b, CsrcsEnd(b) + 3, 2)
  ELSE CsrcsEnd(b)

PadSize(b) == IF Bit(b[1], 32) THEN Last(b) ELSE 0

\* StorePacket accepts the octets.
RtpFits(b) ==
  /\ Len(b) >= kFixedBufferLength /\ b[1] \div 64 = 2
  /\ CsrcsEnd(b) <= Len(b)
  /\ Bit(b[1], 16) => CsrcsEnd(b) + 4 <= Len(b) /\ PayloadStart(b) <= Len(b)
  /\ Bit(b[1], 32) => Last(b) > 0 /\ PayloadStart(b) + Last(b) <= Len(b)

StoreExtension(b) ==
  IF ~Bit(b[1], 16) THEN <<>>
  ELSE <<[name |-> SubSeq(b, CsrcsEnd(b) + 1, CsrcsEnd(b) + 2),
          length |-> ReadBigEndian(b, CsrcsEnd(b) + 3, 2),
          content |-> SubSeq(b, CsrcsEnd(b) + 5, PayloadStart(b))]>>

\* A sequence of the packet read, empty if it is refused. The size of the padding
\* is kept only with a payload.
StoreRtp(b) ==
  LET size == Len(b) - PayloadStart(b) - PadSize(b)
      payload == SubSeq(b, PayloadStart(b) + 1, PayloadStart(b) + size)
  IN  IF ~RtpFits(b) THEN <<>>
      ELSE <<[m |-> b[2] \div 128, payload_type |-> b[2] % 128,
              sequence_number |-> ReadBigEndian(b, 3, 2), timestamp |-> ReadBigEndian(b, 5, 4),
              ssrc |-> ReadBigEndian(b, 9, 4),
              csrcs |-> [k \in 1..b[1] % 16 |-> ReadCsrc(b, kFixedBufferLength + 4 * k - 3)],
              extension |-> StoreExtension(b),
              payload |-> IF size > 0 THEN <<payload>> ELSE <<>>,
              pad_size |-> IF size > 0 THEN PadSize(b) ELSE 0]>>

\* Mutant of CopyRtp: the marker is not copied.
CopyRtpNoMarker(p) ==
  [p EXCEPT !.csrcs = [k \in DOMAIN p.csrcs |-> p.csrcs[k] % 256], !.m = 0]

\* RtpPacket::Create of another packet: csrc() gives 8 of the 32 bits.
CopyRtp(p) == [p EXCEPT !.csrcs = [k \in DOMAIN p.csrcs |-> p.csrcs[k] % 256]]
===============================================================================
