---------------------------- MODULE UlpFecEncoder ----------------------------
(***************************************************************************)
(* How UlpFecEncoder (src/src/rtp_rtcp/ulp_fec.cc) chooses the media       *)
(* packets that each FEC packet of a block protects.                       *)
(*                                                                         *)
(* The byte array fec_packet_mask_ is the set of the numbers of its bits   *)
(* that are 1: bit 8 * size * row + column, in rows of "size" bytes, says  *)
(* that the row-th FEC packet protects the column-th media packet.  The    *)
(* width of a row is a parameter of every function of the code, so the     *)
(* same bits are other rows and columns when two of them disagree on it.   *)
(***************************************************************************)
EXTENDS FecMaskTables, FiniteSetsExt

kUlpfecMaxMediaPackets == 48
kUlpfecPacketMaskSizeLBitClear == 2
kUlpfecPacketMaskSizeLBitSet == 6
kFECPacketMaskMaxSize == 288   \* bytes of fec_packet_mask_

\* The ImportantPacketsProtectionMethod and the FecMaskType of a call.
Methods == {"kNone", "kModeNoOverlap", "kModeOverlap", "kModeBiasFirstPacket"}
MaskTypes == {"kFecMaskRandom", "kFecMaskBursty"}

PacketMaskSize(num_sequence_numbers) ==
    IF num_sequence_numbers > kUlpfecPacketMaskSizeLBitClear * 8
    THEN kUlpfecPacketMaskSizeLBitSet ELSE kUlpfecPacketMaskSizeLBitClear

NumFecPackets(num_media_packets, protection_factor) ==
    LET rounded == (num_media_packets * protection_factor + 128) \div 256
    IN  IF protection_factor > 0 /\ rounded = 0 THEN 1 ELSE rounded

\* The columns of a row of a mask whose rows have "size" bytes.
Row(mask, size, row) == {c \in 0..(8 * size - 1) : 8 * size * row + c \in mask}

\* The first "rows" rows of sub_mask, put into rows of "size" bytes, lower by
\* first_row rows and "shift" columns further right.
Placed(sub_mask, sub_size, rows, size, first_row, shift) ==
    {8 * size * (first_row + (b \div (8 * sub_size))) + shift + (b % (8 * sub_size)) :
        b \in {b \in sub_mask : b < 8 * sub_size * rows}}
-----------------------------------------------------------------------------
(***************************************************************************)
(* The masks for equal protection.                                         *)
(***************************************************************************)
\* The bits of one two-byte table entry.
TableRow(entry) == {c \in 0..15 : (entry \div 2^(15 - c)) % 2 = 1}

TableRows(table) ==
    [m \in 1..12 |-> [n \in 1..m |-> [r \in 1..n |-> TableRow(table[m][n][r])]]]

RandomRows == TableRows(kPacketMaskRandomTbl)
BurstyRows == TableRows(kPacketMaskBurstyTbl)

\* The bursty table has no masks for more than 12 media packets.
PickTable(fec_mask_type, num_media_packets) ==
    IF fec_mask_type # "kFecMaskRandom" /\ num_media_packets <= 12
    THEN BurstyRows ELSE RandomRows

LookUpInFecTable(table, media_packet_index, fec_index) ==
    UNION {{16 * (r - 1) + c : c \in table[media_packet_index + 1][fec_index + 1][r]} :
           r \in 1..(fec_index + 1)}

\* Media packet X is protected by FEC packet X % N.
Interleaved(num_media_packets, num_fec_packets, size) ==
    {8 * size * (x % num_fec_packets) + x :
        x \in {x \in 0..(num_media_packets - 1) : num_fec_packets > 0}}

\* The mask that Mask returns, and what it leaves in fec_packet_mask_: above
\* 12 media packets it builds the rows there, from the first byte on.
Mask(packet_mask, num_media_packets, num_fec_packets, packet_mask_size, table) ==
    IF num_media_packets <= 12
    THEN [sub |-> LookUpInFecTable(table, num_media_packets - 1, num_fec_packets - 1),
          packet_mask |-> packet_mask]
    ELSE LET rows == Interleaved(num_media_packets, num_fec_packets, packet_mask_size)
         IN  [sub |-> rows,
              packet_mask |-> rows \cup
                  {b \in packet_mask : b >= 8 * packet_mask_size * num_fec_packets}]
-----------------------------------------------------------------------------
(***************************************************************************)
(* Unequal protection: the first rows protect the important packets.       *)
(***************************************************************************)
SetProtectionAllocation(num_media_packets, num_fec_packets, num_imp_packets) ==
    LET half == num_fec_packets \div 2
        least == IF num_imp_packets < half THEN num_imp_packets ELSE half
    IN  IF num_fec_packets = 1 /\ num_media_packets > 2 * num_imp_packets
        THEN 0 ELSE least

FitSubMask(packet_mask, num_mask_bytes, num_sub_mask_bytes, num_rows, sub_mask, first_row) ==
    LET rewritten(b) ==
            /\ b \div (8 * num_mask_bytes) \in first_row..(first_row + num_rows - 1)
            /\ b % (8 * num_mask_bytes) < 8 * num_sub_mask_bytes
    IN  {b \in packet_mask : ~rewritten(b)} \cup
        Placed(sub_mask, num_sub_mask_bytes, num_rows, num_mask_bytes, first_row, 0)

\* A row goes out with num_column_shift \div 8 bytes before it, and with one
\* byte more than it has when the rows of the mask are the longer ones.
ShiftFitSubMask(packet_mask, num_mask_bytes, res_mask_bytes, num_column_shift, end_row, sub_mask) ==
    LET written == res_mask_bytes + (IF num_mask_bytes > res_mask_bytes THEN 1 ELSE 0)
        rewritten(byte) ==
            /\ byte \div num_mask_bytes \in num_column_shift..(end_row - 1)
            /\ byte % num_mask_bytes < written
    IN  {b \in packet_mask : ~rewritten((b \div 8) - (num_column_shift \div 8))} \cup
        Placed(sub_mask, res_mask_bytes, end_row - num_column_shift, num_mask_bytes,
               num_column_shift, num_column_shift)

ImportantPacketProtection(packet_mask, num_fec_for_imp, num_imp_packets, num_mask_bytes, table) ==
    LET mask == Mask(packet_mask, num_imp_packets, num_fec_for_imp, num_mask_bytes, table)
    IN  FitSubMask(mask.packet_mask, num_mask_bytes, PacketMaskSize(num_imp_packets),
                   num_fec_for_imp, mask.sub, 0)

RemainingPacketProtection(packet_mask, num_media_packets, num_fec_remaining, num_fec_for_imp, num_mask_bytes, mode, table) ==
    IF mode = "kModeNoOverlap"
    THEN LET rest == num_media_packets - num_fec_for_imp
             res_mask_bytes == PacketMaskSize(rest)
             mask == Mask(packet_mask, rest, num_fec_remaining, res_mask_bytes, table)
         IN  ShiftFitSubMask(mask.packet_mask, num_mask_bytes, res_mask_bytes, num_fec_for_imp,
                             num_fec_for_imp + num_fec_remaining, mask.sub)
    ELSE LET mask == Mask(packet_mask, num_media_packets, num_fec_remaining,
                          num_mask_bytes, table)
         IN  FitSubMask(mask.packet_mask, num_mask_bytes, num_mask_bytes, num_fec_remaining,
                        mask.sub, num_fec_for_imp)
             \cup (IF mode = "kModeBiasFirstPacket"
                   THEN {8 * num_mask_bytes * i : i \in 0..(num_fec_remaining - 1)} ELSE {})

\* The number of rows that go to the important packets alone.
RowsForImportant(num_media_packets, num_fec_packets, num_imp_packets, mode) ==
    IF mode = "kModeBiasFirstPacket" THEN 0
    ELSE SetProtectionAllocation(num_media_packets, num_fec_packets, num_imp_packets)

UnequalProtectionMask(num_media_packets, num_fec_packets, num_imp_packets, mode, table, packet_mask_size) ==
    LET num_fec_for_imp == RowsForImportant(num_media_packets, num_fec_packets,
                                            num_imp_packets, mode)
        num_fec_remaining == num_fec_packets - num_fec_for_imp
        sub_mask1 == IF num_fec_for_imp > 0
                     THEN ImportantPacketProtection({}, num_fec_for_imp, num_imp_packets,
                                                    packet_mask_size, table)
                     ELSE {}
    IN  IF num_fec_remaining > 0
        THEN RemainingPacketProtection(sub_mask1, num_media_packets, num_fec_remaining,
                                       num_fec_for_imp, packet_mask_size, mode, table)
        ELSE sub_mask1

GeneratePacketMasks(num_media_packets, num_fec_packets, num_imp_packets, method, fec_mask_type) ==
    LET table == PickTable(fec_mask_type, num_media_packets)
        size == PacketMaskSize(num_media_packets)
    IN  IF num_imp_packets = 0
        THEN Mask({}, num_media_packets, num_fec_packets, size, table).sub
        ELSE UnequalProtectionMask(num_media_packets, num_fec_packets, num_imp_packets,
                 IF method = "kNone" THEN "kModeOverlap" ELSE method, table, size)
-----------------------------------------------------------------------------
(***************************************************************************)
(* The FEC packets of a block.                                             *)
(***************************************************************************)
\* The media packets each FEC packet of a block protects, by their indexes.
GenerateFecPackets(packet_mask, num_media_packets, num_fec_packets) ==
    [i \in 1..num_fec_packets |-> Row(packet_mask, PacketMaskSize(num_media_packets), i - 1)]

\* What Encode answers: an error, or the groups of its FEC packets.
Encode(num_media_packets, num_imp_packets, method, protection_factor, fec_mask_type) ==
    IF num_media_packets \notin 1..kUlpfecMaxMediaPackets \/ num_imp_packets > num_media_packets
    THEN [ok |-> FALSE, groups |-> <<>>]
    ELSE LET num_fec_packets == NumFecPackets(num_media_packets, protection_factor)
         IN  [ok |-> TRUE, groups |-> GenerateFecPackets(
                  GeneratePacketMasks(num_media_packets, num_fec_packets, num_imp_packets,
                                      method, fec_mask_type),
                  num_media_packets, num_fec_packets)]

\* Mutant of NeedsLongMask: a span of 17 packets passes for 16.
NeedsLongMaskLater(span) == span > kUlpfecPacketMaskSizeLBitClear * 8 + 1

NeedsLongMask(span) == span > kUlpfecPacketMaskSizeLBitClear * 8

\* The FEC header of a group: where it starts, whether the mask is the long
\* one, and the bits of the mask, which count from the start of the group.
BuildFecPacket(group) ==
    LET first == Min(group)
        l == NeedsLongMask(Max(group) - first + 1)
    IN  [seq_base |-> first, l |-> l,
         mask |-> {i - first : i \in group} \cap 0..(IF l THEN 47 ELSE 15)]
=============================================================================
