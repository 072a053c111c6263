------------------------------ MODULE FecSession ------------------------------
(***************************************************************************)
(* Forward error correction from end to end: the application encodes       *)
(* blocks of media packets with UlpFecEncoder, numbers the FEC packets     *)
(* after the block and sends all of them, the network loses some, and the  *)
(* application at the other end gives what its RtpReceiver delivers, in    *)
(* order and in batches, to UlpFecDecoder.  This is how src/test/          *)
(* test_sender_with_fec and test_receiver_with_fec use the two.            *)
(***************************************************************************)
EXTENDS UlpFecEncoder, UlpFecDecoder

CONSTANTS
    Calls,        \* Calls[k]: the k-th calls of Encode that are explored, records
                  \* [media, important, method, factor, type]
    FirstSeqs,    \* the numbers a stream may start with
    MaxSent,      \* bound: packets in the stream; a longer block is not sent
    MaxLost       \* bound: packets the network loses

ASSUME SessionAssumption ==
    /\ Calls \in Seq(SUBSET [media : Nat, important : Nat, method : Methods,
                             factor : 0..255, type : MaskTypes])
    /\ FirstSeqs \subseteq SeqNums /\ MaxSent \in Nat /\ MaxLost \in Nat
    /\ MaxSent + MaxCacheSeqDifference <= HalfRange  \* numbers keep their order

VARIABLES
    first_seq,   \* the number of the first packet
    stream,      \* the packets sent
    block,       \* the call of Encode whose packets are not sent yet, and its groups
    nb_blocks,
    passed,      \* how many packets of the stream were delivered or lost
    arrived,     \* the numbers that were delivered
    nb_lost

sessionVars == <<first_seq, stream, block, nb_blocks, passed, arrived, nb_lost>>
vars == <<sessionVars, decoderVars>>

NoBlock == [media |-> 0, groups |-> <<>>]

SeqOfPacket(i) == (first_seq + i - 1) % SeqSpace

Init ==
    /\ DecoderInit
    /\ first_seq \in FirstSeqs
    /\ stream = <<>> /\ block = NoBlock /\ nb_blocks = 0
    /\ passed = 0 /\ arrived = {} /\ nb_lost = 0

EncodeBlock(call) ==
    LET answer == Encode(call.media, call.important, call.method, call.factor, call.type)
    IN  /\ block = NoBlock /\ nb_blocks < Len(Calls) /\ call \in Calls[nb_blocks + 1]
        /\ answer.ok
        /\ block' = [call |-> call, media |-> call.media, groups |-> answer.groups]
        /\ nb_blocks' = nb_blocks + 1
        /\ UNCHANGED <<first_seq, stream, passed, arrived, nb_lost, decoderVars>>

\* The packets of a block as they arrive at the decoder, numbered from "first".
MediaPacket(first, i) ==
    [seq |-> (first + i) % SeqSpace, fec |-> FALSE, payload |-> {(first + i) % SeqSpace},
     protected |-> {}, received |-> {}, invalid |-> FALSE]

FecPacket(first, media, groups, k) ==
    LET header == BuildFecPacket(groups[k])
    IN  [seq |-> (first + media + k - 1) % SeqSpace, fec |-> TRUE,
         payload |-> {(first + i) % SeqSpace : i \in groups[k]},
         protected |-> DecodeFecInfo((first + header.seq_base) % SeqSpace, header.l, header.mask),
         received |-> {}, invalid |-> FALSE]

SendBlock ==
    LET first == SeqOfPacket(Len(stream) + 1)
    IN  /\ block # NoBlock
        /\ Len(stream) + block.media + Len(block.groups) <= MaxSent
        /\ stream' = stream
             \o [i \in 1..block.media |-> MediaPacket(first, i - 1)]
             \o [k \in 1..Len(block.groups) |-> FecPacket(first, block.media, block.groups, k)]
        /\ block' = NoBlock
        /\ UNCHANGED <<first_seq, nb_blocks, passed, arrived, nb_lost, decoderVars>>

\* The receiver passes the next packets of the stream on; "lost" did not come.
Deliver(upto, lost) ==
    LET batch == Picked(stream, {i \in (passed + 1)..upto : stream[i].seq \notin lost})
    IN  /\ batch # <<>>
        /\ nb_lost + Cardinality(lost) <= MaxLost
        /\ Decode(batch)
        /\ passed' = upto
        /\ arrived' = arrived \cup SeqsOf(batch)
        /\ nb_lost' = nb_lost + Cardinality(lost)
        /\ UNCHANGED <<first_seq, stream, block, nb_blocks>>

\* The application ends: what the cache holds is handed out.
EndStream ==
    /\ passed = Len(stream) /\ nb_blocks = Len(Calls) /\ block = NoBlock
    /\ cached_packets # <<>>
    /\ Flush
    /\ UNCHANGED sessionVars

SeqsBetween(a, b) == {stream[i].seq : i \in (a + 1)..b}

Next ==
    \/ \E call \in UNION Range(Calls) : EncodeBlock(call)
    \/ SendBlock
    \/ \E upto \in (passed + 1)..Len(stream) :
         \E lost \in SUBSET SeqsBetween(passed, upto) : Deliver(upto, lost)
    \/ EndStream

Spec == Init /\ [][Next]_vars
-----------------------------------------------------------------------------
(***************************************************************************)
(* The masks.                                                              *)
(***************************************************************************)
\* The code works with rows of one width: only kModeNoOverlap may ask Mask for
\* shorter rows than those of the mask it builds (ulp_fec.cc:464-472).
UniformRows(call) ==
    LET n == NumFecPackets(call.media, call.factor)
        rows == RowsForImportant(call.media, n, call.important, call.method)
    IN  call.method = "kModeNoOverlap" /\ call.important > 0
        => PacketMaskSize(call.media) = PacketMaskSize(call.media - rows)

\* Each row of a mask names packets of the block and at least one, as the
\* comment in Mask says: "each bit / coloumn represent one media packet"
\* (ulp_fec.cc:243-244).  GenerateFecPackets indexes the block with the row and
\* BuildFecPacket takes the front of the group.
MaskNamesBlock ==
    \A k \in DOMAIN block.groups :
        block.groups[k] # {} /\ block.groups[k] \subseteq 0..(block.media - 1)

\* Whatever the call, the FEC packets of a block together protect every media
\* packet of it, each names in its header the packets it was built from and no
\* other, and up to 12 media packets the first rows are for important packets.
ProtectsWholeBlock ==
    block # NoBlock /\ UniformRows(block.call) /\ block.groups # <<>> =>
        LET call == block.call
            own == RowsForImportant(call.media, Len(block.groups), call.important, call.method)
        IN  /\ MaskNamesBlock
            /\ UNION Range(block.groups) = 0..(block.media - 1)
            /\ \A k \in DOMAIN block.groups :
                   LET header == BuildFecPacket(block.groups[k])
                       first == first_seq + header.seq_base
                   IN  DecodeFecInfo(first, header.l, header.mask)
                       = {(first_seq + i) % SeqSpace : i \in block.groups[k]}
            /\ call.important > 0 /\ call.media <= 12 =>
                   \A k \in 1..own : block.groups[k] \subseteq 0..(call.important - 1)
-----------------------------------------------------------------------------
(***************************************************************************)
(* The decoder.                                                            *)
(***************************************************************************)
\* What leaves the decoder as a media packet is the packet that was sent under
\* its number, whether it arrived or was put together from a FEC packet.
RecoveredAreOriginals ==
    \A i \in DOMAIN output : ~output[i].fec => output[i].payload = {output[i].seq}

\* A packet that arrived is given back or still held, and what is held is
\* no further back than the configured difference.
NothingDropped ==
    /\ arrived \subseteq SeqsOf(output) \cup SeqsOf(cached_packets)
    /\ \A i \in DOMAIN cached_packets :
         DiffSeq(cached_packets[i].seq, Last(cached_packets).seq) <= MaxCacheSeqDifference

\* Over all calls of Decode the packets come out in the order of the stream and
\* none comes out twice, recovered ones and copies included.
OutputInOrder ==
    [][passed' # passed =>
        \A i \in 1..(Len(output') - 1) :
            DiffSeq(first_seq, output'[i].seq) < DiffSeq(first_seq, output'[i + 1].seq)]_vars

\* A FEC packet that keeps pointers to packets that have left the cache will not
\* be used: a number it protects is already output.
DanglingNeverUsed ==
    \A i \in DOMAIN cached_packets :
        LET fec == cached_packets[i]
        IN  fec.fec /\ ~fec.invalid /\ ~(fec.received \subseteq SeqsOf(cached_packets)) =>
                \E s \in fec.protected : AlreadyOutput(s)

\* A FEC packet that arrives before any packet it protects was given back makes
\* up for the only one of them that is missing.  Before the first output the
\* decoder also demands that this one is not before number 0 (ulp_fec.cc:632).
FecRecoversOneLoss ==
    [][\A i \in (passed + 1)..passed' :
        LET fec == stream[i]
            known == arrived' \cup SeqsOf(cached_packets)
            missing == fec.protected \ known
        IN  /\ fec.fec /\ fec.seq \in arrived'
            /\ \A s \in fec.protected : ~has_output \/ IsSeqAfter(seq_last_output, s)
            /\ Cardinality(missing) = 1
            /\ \A s \in missing : has_output \/ ~IsSeqBefore(s, 0)
            => missing \subseteq SeqsOf(cached_packets') \cup SeqsOf(output')]_vars
=============================================================================
