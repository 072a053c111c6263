--------------------------- MODULE RtcpPacketFormat ---------------------------
(***************************************************************************)
(* The RTCP packets as octets (src/src/rtp_rtcp/rtcp_packet.h,             *)
(* common_header, sender_report, receiver_report, report_block, sdes, bye, *)
(* rtpfb, nack and src/src/utils/byte_io.h): the length each promises,     *)
(* what LoadPacket writes and what StorePacket reads back at the positions *)
(* it computes.                                                            *)
(*                                                                         *)
(* A packet is a record with its type, a buffer a sequence of octets, a    *)
(* pointer into it an index and the null pointer 0. The characters of a    *)
(* text are all the same: only their number matters. The padding bit is    *)
(* never set by this library (rtcp_packet.h:9) and not modelled.           *)
(***************************************************************************)
EXTENDS Integers, Sequences, SequencesExt, FiniteSetsExt

CONSTANT MaskBits   \* 16: the bits of a NACK item

kVersion == 2
kHeaderLength == 4
kSenderReport == 200
kReceiverReport == 201
kSdes == 202
kBye == 203
kRtpfb == 205
kBlockLength == 24
kSenderBaseLength == 24
kRrBaseLength == 4
kCommonFeedbackLength == 8
kNackItemLength == 4
kCnameTag == 1
kNull == 0

-----------------------------------------------------------------------------
(* Numbers *)

WriteBigEndian(v, n) == [k \in 1..n |-> (v \div 256^(n - k)) % 256]

ReadBigEndian(b, at, n) ==
  FoldLeft(LAMBDA v, octet : v * 256 + octet, 0, SubSeq(b, at, at + n - 1))

\* A signed number of three octets: the fourth is filled from itself, which
\* nothing has set, and not from the sign.
SignedOf3(v, unset) == IF unset >= 128 THEN v - 2^24 ELSE v

-----------------------------------------------------------------------------
(* LoadPacket *)

Text(n) == [k \in 1..n |-> 120]
Zeros(n) == [k \in 1..n |-> 0]

\* CreateHeader, length being in words of 32 bits.
CreateHeader(count_or_format, type, length) ==
  <<kVersion * 64 + count_or_format, type>> \o WriteBigEndian(length, 2)

\* The padding of a chunk, one octet at least.
ChunkPadding(cname) == 4 - ((6 + cname) % 4)

ChunkSize(chunk) == 6 + chunk.cname + ChunkPadding(chunk.cname)

SumOf(lengths) == FoldLeft(LAMBDA a, n : a + n, 0, lengths)

\* Mutant of BlockLength: a reason that fills its words gets none for its length.
BlockLengthRounded(p) ==
  kHeaderLength +
  CASE p.type = kSenderReport -> kSenderBaseLength + kBlockLength * Len(p.blocks)
    [] p.type = kReceiverReport -> kRrBaseLength + kBlockLength * Len(p.blocks)
    [] p.type = kSdes -> SumOf([k \in DOMAIN p.chunks |-> ChunkSize(p.chunks[k])])
    [] p.type = kBye ->
         4 * (1 + Len(p.csrcs) + IF p.reason = 0 THEN 0 ELSE (p.reason + 3) \div 4)
    [] p.type = kRtpfb -> kCommonFeedbackLength + kNackItemLength * Len(p.packed)

\* The lengths of the texts are p.reason and the chunks' cname.
BlockLength(p) ==
  kHeaderLength +
  CASE p.type = kSenderReport -> kSenderBaseLength + kBlockLength * Len(p.blocks)
    [] p.type = kReceiverReport -> kRrBaseLength + kBlockLength * Len(p.blocks)
    [] p.type = kSdes -> SumOf([k \in DOMAIN p.chunks |-> ChunkSize(p.chunks[k])])
    [] p.type = kBye ->
         4 * (1 + Len(p.csrcs) + IF p.reason = 0 THEN 0 ELSE p.reason \div 4 + 1)
    [] p.type = kRtpfb -> kCommonFeedbackLength + kNackItemLength * Len(p.packed)

LoadBlock(block) ==
  WriteBigEndian(block.ssrc, 4) \o <<block.fraction_lost>>
    \o WriteBigEndian(block.cumulative_lost % 2^24, 3)
    \o WriteBigEndian(block.extended_seq, 4) \o WriteBigEndian(block.jitter, 4)
    \o WriteBigEndian(block.lsr, 4) \o WriteBigEndian(block.dlsr, 4)

LoadBlocks(blocks) == FlattenSeq([k \in DOMAIN blocks |-> LoadBlock(blocks[k])])

LoadChunk(chunk) ==
  WriteBigEndian(chunk.ssrc, 4) \o <<kCnameTag, chunk.cname % 256>> \o Text(chunk.cname)
    \o Zeros(ChunkPadding(chunk.cname))

LoadItem(item) ==
  WriteBigEndian(item.first_pid, 2)
    \o WriteBigEndian(MapThenSumSet(LAMBDA k : 2^k, item.bitmask), 2)

LoadBody(p) ==
  CASE p.type = kSenderReport ->
         WriteBigEndian(p.ssrc, 4) \o WriteBigEndian(p.ntp.seconds, 4)
           \o WriteBigEndian(p.ntp.fractions, 4) \o WriteBigEndian(p.rtp_timestamp, 4)
           \o WriteBigEndian(p.packet_count, 4) \o WriteBigEndian(p.octet_count, 4)
           \o LoadBlocks(p.blocks)
    [] p.type = kReceiverReport -> WriteBigEndian(p.ssrc, 4) \o LoadBlocks(p.blocks)
    [] p.type = kSdes -> FlattenSeq([k \in DOMAIN p.chunks |-> LoadChunk(p.chunks[k])])
    [] p.type = kBye ->
         LET written == WriteBigEndian(p.ssrc, 4)
                          \o FlattenSeq([k \in DOMAIN p.csrcs |-> WriteBigEndian(p.csrcs[k], 4)])
                          \o (IF p.reason = 0 THEN <<>> ELSE <<p.reason>> \o Text(p.reason))
             left == BlockLength(p) - kHeaderLength - Len(written)
         IN  written \o Zeros(IF left > 0 THEN left ELSE 0)
    [] p.type = kRtpfb ->
         WriteBigEndian(p.ssrc, 4) \o WriteBigEndian(p.media_ssrc, 4)
           \o FlattenSeq([k \in DOMAIN p.packed |-> LoadItem(p.packed[k])])

\* What the header takes for count or format.
CountOrFormat(p) ==
  CASE p.type \in {kSenderReport, kReceiverReport} -> Len(p.blocks)
    [] p.type = kSdes -> Len(p.chunks)
    [] p.type = kBye -> 1 + Len(p.csrcs)
    [] p.type = kRtpfb -> 1

LoadPacket(p) ==
  CreateHeader(CountOrFormat(p), p.type, (BlockLength(p) - kHeaderLength) \div 4) \o LoadBody(p)

\* A NACK without items is refused.
CanLoad(p) == p.type = kRtpfb => p.packed # <<>>

-----------------------------------------------------------------------------
(* The common header *)

HeaderSize(b, at) == 4 * ReadBigEndian(b, at + 2, 2)

\* CommonHeader::StorePacket accepts what is left from at on.
HeaderFits(b, at) ==
  /\ Len(b) - at + 1 >= kHeaderLength
  /\ b[at] \div 64 = kVersion
  /\ Len(b) - at + 1 >= kHeaderLength + HeaderSize(b, at)

\* The payload of a packet that is but a header is the null pointer.
Header(b, at) ==
  [count |-> b[at] % 32, type |-> b[at + 1], size |-> HeaderSize(b, at),
   payload |-> IF HeaderSize(b, at) > 0 THEN at + kHeaderLength ELSE kNull]

NextPacket(h) == h.payload + h.size

-----------------------------------------------------------------------------
(* StorePacket: a sequence of the packet read, empty if it is refused *)

StoreBlock(b, at, unset) ==
  [ssrc |-> ReadBigEndian(b, at, 4), fraction_lost |-> b[at + 4],
   cumulative_lost |-> SignedOf3(ReadBigEndian(b, at + 5, 3), unset),
   extended_seq |-> ReadBigEndian(b, at + 8, 4), jitter |-> ReadBigEndian(b, at + 12, 4),
   lsr |-> ReadBigEndian(b, at + 16, 4), dlsr |-> ReadBigEndian(b, at + 20, 4)]

BlocksFit(h, base) == h.payload # kNull /\ h.size >= base + kBlockLength * h.count

\* A report block of a sender report is read through a pointer that is null.
ReadsNullBlock(h) == h.type = kSenderReport /\ BlocksFit(h, kSenderBaseLength) /\ h.count > 0

StoreSenderReport(b, h) ==
  LET at == h.payload
  IN  IF ~BlocksFit(h, kSenderBaseLength) THEN <<>>
      ELSE <<[type |-> kSenderReport, ssrc |-> ReadBigEndian(b, at, 4),
              ntp |-> [seconds |-> ReadBigEndian(b, at + 4, 4),
                       fractions |-> ReadBigEndian(b, at + 8, 4)],
              rtp_timestamp |-> ReadBigEndian(b, at + 12, 4),
              packet_count |-> ReadBigEndian(b, at + 16, 4),
              octet_count |-> ReadBigEndian(b, at + 20, 4), blocks |-> <<>>]>>

StoreReceiverReport(b, h, unset) ==
  IF ~BlocksFit(h, kRrBaseLength) THEN <<>>
  ELSE <<[type |-> kReceiverReport, ssrc |-> ReadBigEndian(b, h.payload, 4),
          blocks |-> [k \in 1..h.count |->
            StoreBlock(b, h.payload + kRrBaseLength + kBlockLength * (k - 1), unset)]]>>

StoreBye(b, h) ==
  LET sources == 4 * h.count
      reason == IF h.size > sources THEN b[h.payload + sources] ELSE 0
  IN  IF h.size < sources \/ (h.size > sources /\ h.size - sources < 1 + reason) THEN <<>>
      ELSE <<[type |-> kBye,
              ssrc |-> IF h.count = 0 THEN 0 ELSE ReadBigEndian(b, h.payload, 4),
              csrcs |-> [k \in 1..h.count - 1 |-> ReadBigEndian(b, h.payload + 4 * k, 4)],
              reason |-> reason]>>

StoreItem(b, at) ==
  LET mask == ReadBigEndian(b, at + 2, 2)
  IN  [first_pid |-> ReadBigEndian(b, at, 2),
       bitmask |-> {k \in 0..MaskBits - 1 : (mask \div 2^k) % 2 = 1}]

StoreNack(b, h) ==
  LET items == (h.size - kCommonFeedbackLength) \div kNackItemLength
  IN  IF h.count # 1 \/ h.size < kCommonFeedbackLength + kNackItemLength THEN <<>>
      ELSE <<[type |-> kRtpfb, ssrc |-> ReadBigEndian(b, h.payload, 4),
              media_ssrc |-> ReadBigEndian(b, h.payload + 4, 4),
              packed |-> [k \in 1..items |->
                StoreItem(b, h.payload + kCommonFeedbackLength + kNackItemLength * (k - 1))]]>>

\* The next chunk starts a whole number of words before the end of the packet.
Aligned(at, end) == at + ((end - at) % 4)

\* Mutant of ItemFits: the octet that ends the list is counted twice.
ItemFitsLater(b, at, end) == at + 1 < end /\ at + 2 + b[at + 1] + 1 < end

\* The item at at and the octet that ends the list are within the packet.
ItemFits(b, at, end) == at + 1 < end /\ at + 2 + b[at + 1] + 1 <= end

\* The items of a chunk from at on: whether they fit, where they end, and the
\* lengths of the names among them.
RECURSIVE ReadItems(_, _, _, _)
ReadItems(b, at, end, cnames) ==
  IF at > Len(b) THEN [ok |-> FALSE]
  ELSE IF b[at] = 0 THEN [ok |-> TRUE, at |-> at + 1, cnames |-> cnames]
  ELSE IF ~ItemFits(b, at, end) \/ (b[at] = kCnameTag /\ cnames # <<>>)
       THEN [ok |-> FALSE]
  ELSE ReadItems(b, at + 2 + b[at + 1], end,
                 IF b[at] = kCnameTag THEN <<b[at + 1]>> ELSE cnames)

\* The chunks left to read; one without a name is not kept.
RECURSIVE ReadChunks(_, _, _, _, _)
ReadChunks(b, at, end, left, chunks) ==
  IF left = 0 THEN <<[type |-> kSdes, chunks |-> chunks]>>
  ELSE IF end - at < 8 THEN <<>>
  ELSE LET items == ReadItems(b, at + 4, end, <<>>)
       IN  IF ~items.ok THEN <<>>
           ELSE ReadChunks(b, Aligned(items.at, end), end, left - 1,
                  chunks \o [k \in DOMAIN items.cnames |->
                    [ssrc |-> ReadBigEndian(b, at, 4), cname |-> items.cnames[k]]])

StoreSdes(b, h) == ReadChunks(b, h.payload, h.payload + h.size, h.count, <<>>)

\* The packets RtcpReceiver::Parse looks at.
StorePacket(b, h, unset) ==
  CASE h.type = kSenderReport -> StoreSenderReport(b, h)
    [] h.type = kReceiverReport -> StoreReceiverReport(b, h, unset)
    [] h.type = kSdes -> StoreSdes(b, h)
    [] h.type = kBye -> StoreBye(b, h)
    [] h.type = kRtpfb -> StoreNack(b, h)
    [] OTHER -> <<>>
===============================================================================
