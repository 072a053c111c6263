---------------------------- MODULE UlpFecDecoder ----------------------------
(***************************************************************************)
(* UlpFecDecoder of src/src/rtp_rtcp/ulp_fec.cc: the cache of received     *)
(* packets, the recovery of lost ones and the packets it gives back.       *)
(*                                                                         *)
(* The payload of a media packet is a singleton that stands for its bytes, *)
(* and exclusive or is the symmetric difference of such sets.  Every media *)
(* packet has a payload.  A cached FEC packet keeps the numbers it         *)
(* protects and, in "received", those found in the cache so far: the code  *)
(* keeps a pointer to the cached packet for each of them (media_packets).  *)
(***************************************************************************)
EXTENDS SeqNum, SequencesExt, ListOps

CONSTANT MaxCacheSeqDifference  \* FecDecoderConfig::max_cache_seq_difference

ASSUME DifferenceAssumption == MaxCacheSeqDifference \in 1..HalfRange

VARIABLES
    cached_packets,   \* in the order of their sequence numbers
    has_output,
    seq_last_output,
    output            \* everything given back so far

decoderVars == <<cached_packets, has_output, seq_last_output, output>>

DecoderInit ==
    /\ cached_packets = <<>>
    /\ has_output = FALSE
    /\ seq_last_output = 0
    /\ output = <<>>

SeqsOf(packets) == {packets[i].seq : i \in DOMAIN packets}

\* Mutant of Xor: the bytes are combined with "or".
Or(payload, cached, sources) == payload \cup UNION {cached[i].payload : i \in sources}

\* The exclusive or of a payload with those of the packets in "sources".
Xor(payload, cached, sources) ==
    LET times(x) == Cardinality({i \in sources : x \in cached[i].payload})
                    + (IF x \in payload THEN 1 ELSE 0)
    IN  {x \in payload \cup UNION {cached[i].payload : i \in sources} : times(x) % 2 = 1}

\* Mutant of AlreadyOutput: the last packet that was output does not count.
OutputBefore(seq) == has_output /\ IsSeqBefore(seq, seq_last_output)

\* Mutant of AlreadyOutput: before the first output it compares with number 0.
NotAfterOutput(seq) == ~IsSeqAfter(seq_last_output, seq)

AlreadyOutput(seq) == has_output /\ ~IsSeqAfter(seq_last_output, seq)

\* The numbers the header of a FEC packet names.
DecodeFecInfo(seq_base, l, mask) ==
    {(seq_base + i) % SeqSpace : i \in mask \cap 0..(IF l THEN 47 ELSE 15)}

\* Insertion by sequence number: before the first packet that is later.
Inserted(cached, packet) ==
    LET later == {i \in DOMAIN cached : IsSeqBefore(packet.seq, cached[i].seq)}
        pos == IF later = {} THEN Len(cached) + 1 ELSE Min(later)
    IN  IF \E i \in 1..Len(cached) : i < pos /\ cached[i].seq = packet.seq
        THEN cached ELSE InsertAt(cached, pos, packet)

CachePackets(received_packets) ==
    LET cached[k \in 0..Len(received_packets)] ==
            IF k = 0 THEN cached_packets
            ELSE IF has_output /\ IsSeqBefore(received_packets[k].seq, seq_last_output)
            THEN cached[k - 1] ELSE Inserted(cached[k - 1], received_packets[k])
    IN  cached[Len(received_packets)]

\* Mutant of MayRecover: the number has to be after the last output.
MayRecoverLater(seq, last_seq) ==
    IsSeqAfter(seq_last_output, seq) /\ ~IsSeqAfter(last_seq, seq)

\* This test does not ask has_output: without output it compares with number 0.
MayRecover(seq, last_seq) ==
    ~IsSeqBefore(seq, seq_last_output) /\ ~IsSeqAfter(last_seq, seq)

\* One FEC packet of RcoverPackets.  Its map is in the order of the numbers
\* themselves, and the scan ends at the first one that is already output, which
\* makes the packet invalid, or later than all the cache.
RecoverOne(cached, fec) ==
    LET last_seq == Last(cached).seq
        ends == {s \in fec.protected : AlreadyOutput(s) \/ IsSeqAfter(last_seq, s)}
        scanned == {s \in fec.protected : \A e \in ends : s < e}
        found == fec.received \cup (scanned \cap SeqsOf(cached))
        no_received == scanned \ found
        lost == CHOOSE s \in no_received : TRUE
        sources == {i \in DOMAIN cached : cached[i].seq \in found}
        recovers == ends = {} /\ Cardinality(no_received) = 1 /\ MayRecover(lost, last_seq)
        used == [fec EXCEPT !.received = found,
                            !.invalid = recovers \/ (ends # {} /\ AlreadyOutput(Min(ends)))]
        marked == [i \in DOMAIN cached |-> IF cached[i] = fec THEN used ELSE cached[i]]
    IN  IF recovers
        THEN Inserted(marked, [seq |-> lost, fec |-> FALSE,
                               payload |-> Xor(fec.payload, cached, sources),
                               protected |-> {}, received |-> {}, invalid |-> FALSE])
        ELSE marked

\* The FEC packets in the cache, each looked at once, in their order.
RcoverPackets(cached) ==
    LET looked[k \in 0..Len(cached)] ==
            IF k = 0 THEN cached
            ELSE IF cached[k].fec /\ ~cached[k].invalid
            THEN RecoverOne(looked[k - 1], cached[k]) ELSE looked[k - 1]
    IN  looked[Len(cached)]

(***************************************************************************)
(* Decode: packets further back than the cache reaches leave it and are    *)
(* output unless they were before; then those that continue the output     *)
(* without a gap are output too, as copies that stay in the cache.  The    *)
(* code takes the back of the cache, so some packet must have entered it.  *)
(***************************************************************************)
Leaving(cached) ==
    LET near == {i \in DOMAIN cached :
                     IsSeqBeforeInRange(cached[i].seq, Last(cached).seq, MaxCacheSeqDifference)}
    IN  IF near = {} THEN Len(cached) ELSE Min(near) - 1

\* Mutant of Expired: copies that were output go out again.
ExpiredAgain(cached) == SubSeq(cached, 1, Leaving(cached))

Expired(cached) == Picked(cached, {i \in 1..Leaving(cached) : ~AlreadyOutput(cached[i].seq)})

\* How many packets from the front of the cache go out as copies.
RunLength(rest, given) ==
    LET continues(k) ==
            IF k = 1 /\ given = <<>>
            THEN ~AlreadyOutput(rest[1].seq)
            ELSE IsNextSeq(IF k = 1 THEN Last(given).seq ELSE rest[k - 1].seq, rest[k].seq)
    IN  Max({k \in 0..Len(rest) : \A j \in 1..k : continues(j)})

Decode(received_packets) ==
    LET cached == RcoverPackets(CachePackets(received_packets))
        expired == Expired(cached)
        rest == SubSeq(cached, Leaving(cached) + 1, Len(cached))
        recovered_packets == expired \o SubSeq(rest, 1, RunLength(rest, expired))
    IN  /\ cached_packets' = rest
        /\ output' = output \o recovered_packets
        /\ IF recovered_packets = <<>>
           THEN UNCHANGED <<has_output, seq_last_output>>
           ELSE has_output' = TRUE /\ seq_last_output' = Last(recovered_packets).seq

\* Flush gives back all the cache, what was output as a copy included.
Flush ==
    /\ cached_packets' = <<>>
    /\ output' = output \o cached_packets
    /\ IF cached_packets = <<>>
       THEN UNCHANGED <<has_output, seq_last_output>>
       ELSE has_output' = TRUE /\ seq_last_output' = Last(cached_packets).seq
=============================================================================
