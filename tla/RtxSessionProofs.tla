--------------------------- MODULE RtxSessionProofs ---------------------------
(* Proofs about RtxSession: the sender and the receiver of a session are the  *)
(* ones their own modules prove about, and retransmission across the network *)
(* stays within what was sent and within its pace.                           *)
EXTENDS RtxSession, FiniteSetTheorems, TLAPS

\* The receiver and the sender with what is proved of them.
RP == INSTANCE RtpReceiverProofs
SP == INSTANCE RtpSenderProofs

-----------------------------------------------------------------------------
(* The two ends as their own modules know them *)

\* The session's constants are ones the receiver's proofs assume.
LEMMA ReceiverFits == RP!SeqSpaceAssumption /\ RP!ReceiverAssumption
<1>1. RP!SeqSpaceAssumption
  BY SeqSpaceAssumption DEF RP!SeqSpaceAssumption
<1>2. Positions \subseteq Nat
  BY SessionAssumption DEF Positions, SeqNums
<1> QED BY <1>1, <1>2, SessionAssumption
        DEF RP!ReceiverAssumption, RP!PacketKinds, Kinds, RtxEnabled

\* And the sender's.
LEMMA SenderFits == SP!SeqSpaceAssumption /\ SP!SenderAssumption
<1>1. SP!SeqSpaceAssumption
  BY SeqSpaceAssumption DEF SP!SeqSpaceAssumption
<1>2. /\ Requests \subseteq Seq(SP!SeqNums) /\ MaxCacheSeqDifference \in SP!SeqNums \ {0}
      /\ MaxSent \in Nat /\ RtxStarts \subseteq SP!SeqNums
  BY SessionAssumption DEF SP!SeqNums, SeqNums, Requests
<1> QED BY <1>1, <1>2 DEF SP!SenderAssumption, SP!PacketPayloads, PayloadKinds,
        RtxEnabled, WithoutPayload

\* OnRtpPacket is the same operation in the session and in the proofs, and so is
\* every operator it is built from.
LEMMA SameReceiver ==
  \A n, kind : Receiver!OnRtpPacket(n, kind) <=> RP!OnRtpPacket(n, kind)
<1>1. \A s : Receiver!IsLate(s) <=> RP!IsLate(s)
  BY DEF Receiver!IsLate, RP!IsLate, Receiver!IsSeqAfter, RP!IsSeqAfter,
      Receiver!IsSeqAfterInRange, RP!IsSeqAfterInRange, Receiver!DiffSeq, RP!DiffSeq,
      Receiver!HalfRange, RP!HalfRange
<1>2. \A list, p : Receiver!InsertPacket(list, p) = RP!InsertPacket(list, p)
  BY DEF Receiver!InsertPacket, RP!InsertPacket, Receiver!StopsScan, RP!StopsScan,
      Receiver!SeqOfPacket, RP!SeqOfPacket, Receiver!SeqAt, RP!SeqAt,
      Receiver!IsSeqAfter, RP!IsSeqAfter, Receiver!IsSeqAfterInRange,
      RP!IsSeqAfterInRange, Receiver!DiffSeq, RP!DiffSeq, Receiver!HalfRange,
      RP!HalfRange, Receiver!Last, RP!Last
<1>3. \A n : Receiver!CacheAfterPut(n) = RP!CacheAfterPut(n)
  BY <1>1, <1>2 DEF Receiver!CacheAfterPut, RP!CacheAfterPut, Receiver!SeqAt, RP!SeqAt
<1>4. \A s : Receiver!HighestAfter(s) = RP!HighestAfter(s)
  BY DEF Receiver!HighestAfter, RP!HighestAfter, Receiver!IsSeqAfter, RP!IsSeqAfter,
      Receiver!IsSeqAfterInRange, RP!IsSeqAfterInRange, Receiver!DiffSeq, RP!DiffSeq,
      Receiver!HalfRange, RP!HalfRange
<1>5. \A s : Receiver!FirstAfter(s) = RP!FirstAfter(s)
  BY <1>4 DEF Receiver!FirstAfter, RP!FirstAfter
<1>6. \A s, I : Receiver!Picked(s, I) = RP!Picked(s, I)
  BY DEF Receiver!Picked, RP!Picked
<1>7. \A a, b : Receiver!IsNextSeq(a, b) <=> RP!IsNextSeq(a, b)
  BY DEF Receiver!IsNextSeq, RP!IsNextSeq, Receiver!IsSeqAfterInRange,
      RP!IsSeqAfterInRange, Receiver!DiffSeq, RP!DiffSeq
<1>8. \A a, b : Receiver!IsSeqBefore(a, b) <=> RP!IsSeqBefore(a, b)
  BY DEF Receiver!IsSeqBefore, RP!IsSeqBefore, Receiver!IsSeqAfter, RP!IsSeqAfter,
      Receiver!IsSeqAfterInRange, RP!IsSeqAfterInRange, Receiver!DiffSeq, RP!DiffSeq,
      Receiver!HalfRange, RP!HalfRange
<1>9. \A p : Receiver!SeqOfPacket(p) = RP!SeqOfPacket(p)
  BY DEF Receiver!SeqOfPacket, RP!SeqOfPacket, Receiver!SeqAt, RP!SeqAt
<1>10. \A acc, gap : Receiver!PlaceGap(acc, gap) = RP!PlaceGap(acc, gap)
  BY DEF Receiver!PlaceGap, RP!PlaceGap, Receiver!PlaceLossSeq, RP!PlaceLossSeq,
      Receiver!IsSeqBefore, RP!IsSeqBefore, Receiver!IsSeqAfter, RP!IsSeqAfter,
      Receiver!IsSeqAfterInRange, RP!IsSeqAfterInRange, Receiver!DiffSeq, RP!DiffSeq,
      Receiver!HalfRange, RP!HalfRange, Receiver!InsertAt, RP!InsertAt
<1>11. \A a, b : Receiver!GapSeqs(a, b) = RP!GapSeqs(a, b)
  BY DEF Receiver!GapSeqs, RP!GapSeqs, Receiver!Down, RP!Down
<1>12. \A losses, seqs : Receiver!PlaceGaps(losses, seqs) = RP!PlaceGaps(losses, seqs)
  BY <1>7, <1>10, <1>11, ZenonT(60) DEF Receiver!PlaceGaps, RP!PlaceGaps
<1>13. \A losses, list : Receiver!SupplementLossSeqs(losses, list) = RP!SupplementLossSeqs(losses, list)
  BY <1>6, <1>8, <1>9, <1>12, ZenonT(60) DEF Receiver!SupplementLossSeqs,
      RP!SupplementLossSeqs
<1>14. \A s, list : Receiver!LossAfterPut(s, list) = RP!LossAfterPut(s, list)
  BY <1>6, <1>13 DEF Receiver!LossAfterPut, RP!LossAfterPut
<1>15. \A losses : Receiver!NackSeqs(losses) = RP!NackSeqs(losses)
  BY DEF Receiver!NackSeqs, RP!NackSeqs, Receiver!IsNackDue, RP!IsNackDue,
      Receiver!Reverse, RP!Reverse, Receiver!Picked, RP!Picked
<1>16. \A losses : Receiver!MarkNotified(losses) = RP!MarkNotified(losses)
  BY DEF Receiver!MarkNotified, RP!MarkNotified, Receiver!IsNackDue, RP!IsNackDue
<1>17. \A list : Receiver!CutOf(list) = RP!CutOf(list)
  BY DEF Receiver!CutOf, RP!CutOf, Receiver!StartsDelivery, RP!StartsDelivery,
      Receiver!IsReadyRun, RP!IsReadyRun, Receiver!IsNextSeq, RP!IsNextSeq,
      Receiver!IsSeqAfterInRange, RP!IsSeqAfterInRange, Receiver!DiffSeq, RP!DiffSeq,
      Receiver!SeqOfPacket, RP!SeqOfPacket, Receiver!SeqAt, RP!SeqAt
<1>18. \A list, cut : Receiver!Outgoing(list, cut) = RP!Outgoing(list, cut)
  BY DEF Receiver!Outgoing, RP!Outgoing
<1>19. \A list : Receiver!GetPackets(list) <=> RP!GetPackets(list)
  BY <1>17, <1>18 DEF Receiver!GetPackets, RP!GetPackets, Receiver!SeqOfPacket,
      RP!SeqOfPacket, Receiver!SeqAt, RP!SeqAt
<1>20. \A kind : Receiver!IsAccepted(kind) <=> RP!IsAccepted(kind)
  BY DEF Receiver!IsAccepted, RP!IsAccepted
<1>21. \A n : Receiver!WithinReach(n) <=> RP!WithinReach(n)
  BY DEF Receiver!WithinReach, RP!WithinReach, Receiver!HalfRange, RP!HalfRange,
      Receiver!Last, RP!Last
<1>22. \A n, kind : Receiver!OnRtpPacket(n, kind) <=> RP!OnRtpPacket(n, kind)
  BY <1>1, <1>3, <1>14, <1>4, <1>5, <1>16, <1>15, <1>19, <1>20, <1>21 DEF
      Receiver!OnRtpPacket, RP!OnRtpPacket, Receiver!SeqAt, RP!SeqAt
<1> QED BY <1>22

\* So are the operations of the sender.
LEMMA SameSender ==
  /\ \A s, payload : Sender!SendRtp(s, payload) <=> SP!SendRtp(s, payload)
  /\ \A packet_seqs : Sender!SendRtx(packet_seqs) <=> SP!SendRtx(packet_seqs)
<1>1. \A list, n : Sender!PutPacket(list, n) = SP!PutPacket(list, n)
  BY DEF Sender!PutPacket, SP!PutPacket, Sender!StaysCached, SP!StaysCached,
      Sender!IsSeqBeforeInRange, SP!IsSeqBeforeInRange, Sender!IsSeqAfterInRange,
      SP!IsSeqAfterInRange, Sender!DiffSeq, SP!DiffSeq, Sender!SeqAt, SP!SeqAt
<1>2. \A s : Sender!IsCached(s) <=> SP!IsCached(s)
  BY DEF Sender!IsCached, SP!IsCached, Sender!SeqAt, SP!SeqAt
<1>3. \A s : Sender!FirstCached(s) = SP!FirstCached(s)
  BY DEF Sender!FirstCached, SP!FirstCached, Sender!SeqAt, SP!SeqAt
<1>4. \A s, I : Sender!Picked(s, I) = SP!Picked(s, I)
  BY DEF Sender!Picked, SP!Picked
<1>5. \A packet_seqs : Sender!GetPackets(packet_seqs) = SP!GetPackets(packet_seqs)
  BY <1>2, <1>3, <1>4, ZenonT(60) DEF Sender!GetPackets, SP!GetPackets
<1>6. \A s, payload : Sender!IsAccepted(s, payload) <=> SP!IsAccepted(s, payload)
  BY DEF Sender!IsAccepted, SP!IsAccepted, Sender!NextSeq, SP!NextSeq
<1>7. \A s, payload : Sender!SendRtp(s, payload) <=> SP!SendRtp(s, payload)
  BY <1>1, <1>6 DEF Sender!SendRtp, SP!SendRtp
<1>8. \A packet_seqs : Sender!SendRtx(packet_seqs) <=> SP!SendRtx(packet_seqs)
  BY <1>5 DEF Sender!SendRtx, SP!SendRtx, Sender!SeqAt, SP!SeqAt,
        Sender!ToSet, SP!ToSet
<1> QED BY <1>7, <1>8

-----------------------------------------------------------------------------
(* What is on the network *)

\* n is a position of the stream that was sent.
InSent(n) == has_sent /\ n \in first_n..last_n

\* The stream is within its bound, and what is on the network or has arrived was
\* sent.
NetInv ==
  /\ IF has_sent THEN first_n \in FirstSeqs /\ last_n - first_n < MaxSent
     ELSE last_n = 0
  /\ IsFiniteSet({p \in net : p.kind = "nack"})
  /\ \A p \in net : IF p.kind = "nack" THEN p.seqs \in Seq(SeqNums)
                    ELSE p.kind \in Kinds /\ InSent(p.n)
  /\ \A n \in arrived : InSent(n)

\* The invariants of both ends and of the network between them.
EndsInv == SP!WindowInv /\ RP!DeliveryInv /\ RP!LossTypeOK /\ NetInv

\* The user's packets all have an rtx type.
LEMMA AllAreCached == SP!AllCached
  BY DEF SP!AllCached, RtxEnabled, PayloadKinds

\* What was sent is within the bound of the stream.
LEMMA SentArePositions ==
  ASSUME SP!WindowInv, NetInv, NEW n, InSent(n)
  PROVE  n \in Positions
<1>1. /\ first_n \in Nat /\ last_n \in Nat /\ MaxSent \in Nat
      /\ first_n \in FirstSeqs /\ last_n - first_n < MaxSent /\ n \in first_n..last_n
  BY SessionAssumption DEF SP!WindowInv, NetInv, InSent
<1>2. n - first_n \in 0..(MaxSent - 1) /\ n = first_n + (n - first_n)
  BY <1>1
<1> QED BY <1>1, <1>2 DEF Positions

\* An answer to a NACK: rtx packets that were sent before and were asked for, and
\* none of them twice when no number was asked for twice.
IsAnswer(seqs, packets) ==
  /\ \A i \in DOMAIN packets : /\ packets[i].ssrc = "rtx" /\ InSent(packets[i].n)
                               /\ SeqAt(packets[i].n) \in ToSet(seqs)
  /\ (\A i, j \in 1..Len(seqs) : i # j => seqs[i] # seqs[j])
       => \A i, j \in DOMAIN packets : i # j => packets[i].n # packets[j].n

\* SendRtx answers so.
LEMMA AnswerFacts ==
  ASSUME SP!WindowInv, NEW seqs \in Seq(SeqNums), Sender!SendRtx(seqs)
  PROVE  /\ IsAnswer(seqs, out')
         /\ UNCHANGED <<has_sent, last_seq, cached_rtp_packets, first_n, last_n>>
<1> DEFINE packets == SP!GetPackets(seqs)
<1>1. SP!SendRtx(seqs)
  BY SameSender
<1>2. PICK seq : out' = [k \in DOMAIN packets |->
                           [ssrc |-> "rtx", seq |-> SP!SeqAt(seq + k), n |-> packets[k]]]
  BY <1>1 DEF SP!SendRtx
<1>3. UNCHANGED <<has_sent, last_seq, cached_rtp_packets, first_n, last_n>>
  BY <1>1 DEF SP!SendRtx
<1>4. seqs \in Seq(SP!SeqNums)
  BY DEF SP!SeqNums, SeqNums
<1> DEFINE asked_for == {s \in SP!ToSet(seqs) : SP!IsCached(s)}
<1>5. /\ Len(packets) \in Nat /\ DOMAIN packets = 1..Len(packets)
      /\ {packets[k] : k \in DOMAIN packets} = {SP!FirstCached(s) : s \in asked_for}
  BY <1>4, SenderFits, SP!GetPacketsFacts
<1>6. \A s : SP!IsCached(s) => /\ SP!FirstCached(s) \in SP!Window
                               /\ SP!SeqAt(SP!FirstCached(s)) = s
  BY SenderFits, AllAreCached, SP!FirstCachedFacts
<1>7. (\A i, j \in 1..Len(seqs) : i # j => seqs[i] # seqs[j])
        => \A i, j \in DOMAIN packets : i # j => packets[i] # packets[j]
  BY <1>4, SenderFits, AllAreCached, SP!GetPacketsOnce
<1>8. \A s \in asked_for : s \in ToSet(seqs) /\ SP!IsCached(s)
  BY DEF ToSet, SP!ToSet
<1> HIDE DEF packets, asked_for
<1>9. \A k \in DOMAIN packets : InSent(packets[k]) /\ SeqAt(packets[k]) \in ToSet(seqs)
  <2> TAKE k \in DOMAIN packets
  <2>1. PICK s \in asked_for : packets[k] = SP!FirstCached(s)
    BY <1>5
  <2>2. packets[k] \in SP!Window /\ SP!SeqAt(packets[k]) \in ToSet(seqs)
    BY <1>6, <1>8, <2>1
  <2> QED BY <2>2 DEF SP!Window, InSent, SP!SeqAt, SeqAt
<1>11. DOMAIN out' = DOMAIN packets
  BY <1>2
<1>12. \A k \in DOMAIN packets : out'[k].ssrc = "rtx" /\ out'[k].n = packets[k]
  BY <1>2
<1>13. IsAnswer(seqs, out')
  BY <1>7, <1>9, <1>11, <1>12 DEF IsAnswer
<1> QED BY <1>3, <1>13

\* What is put on the network for packets that were sent.
LEMMA FlightFacts ==
  ASSUME NEW packets,
         \A i \in DOMAIN packets : packets[i].ssrc \in Kinds /\ InSent(packets[i].n)
  PROVE  \A p \in Flight(packets) : p.kind \in Kinds /\ p.kind # "nack" /\ InSent(p.n)
<1>1. Flight(packets) = {[kind |-> packets[i].ssrc, n |-> packets[i].n] : i \in DOMAIN packets}
  BY DEF Flight, ToSet
<1> SUFFICES ASSUME NEW p \in Flight(packets)
             PROVE  p.kind \in Kinds /\ p.kind # "nack" /\ InSent(p.n)
  OBVIOUS
<1>2. PICK i \in DOMAIN packets : p = [kind |-> packets[i].ssrc, n |-> packets[i].n]
  BY <1>1
<1> QED BY <1>2 DEF Kinds

\* A packet the user sends is on the network, and nothing else changes there.
LEMMA SendStep ==
  ASSUME SP!WindowInv, NetInv, NEW s \in SeqNums, Send(s)
  PROVE  /\ SP!WindowInv' /\ NetInv' /\ [SP!Next]_(SP!vars)
         /\ UNCHANGED receiverVars
         /\ \A n : InSent(n) => InSent(n)'
         /\ {p \in net' : p.kind = "nack"} = {p \in net : p.kind = "nack"}
         /\ last_n <= last_n' /\ last_n \in Int /\ last_n' \in Int
<1>1. /\ SP!SendRtp(s, "mapped") /\ (has_sent \/ s \in FirstSeqs)
      /\ net' = net \cup Flight(out') /\ UNCHANGED receiverVars
  BY SameSender DEF Send
<1>2. SP!Next
  <2>1. s \in SP!SeqNums /\ "mapped" \in PayloadKinds
    BY DEF SP!SeqNums, SeqNums, PayloadKinds
  <2> QED BY <1>1, <2>1 DEF SP!Next
<1>3. SP!WindowInv'
  BY <1>2, SenderFits, AllAreCached, SP!WindowStep
<1>4. /\ has_sent \in BOOLEAN /\ first_n \in Nat /\ last_n \in Nat
      /\ has_sent => first_n <= last_n
  BY DEF SP!WindowInv
<1>5. /\ has_sent' = TRUE
      /\ last_n' = (IF has_sent THEN last_n + 1 ELSE s)
      /\ first_n' = (IF has_sent THEN first_n ELSE last_n')
      /\ has_sent => last_n' - first_n < MaxSent
      /\ out' = <<[ssrc |-> "media", seq |-> s, n |-> last_n']>>
  BY <1>1 DEF SP!SendRtp
<1>6. s \in Nat /\ MaxSent \in Nat \ {0}
  BY SessionAssumption, SeqSpaceAssumption DEF SeqNums
<1>7. /\ first_n' \in FirstSeqs /\ last_n' - first_n' < MaxSent
      /\ last_n <= last_n' /\ last_n \in Int /\ last_n' \in Int
  <2>1. CASE has_sent
    BY <2>1, <1>4, <1>5, <1>6 DEF NetInv
  <2>2. CASE ~has_sent
    BY <2>2, <1>1, <1>4, <1>5, <1>6 DEF NetInv
  <2> QED BY <2>1, <2>2
<1>8. \A n : InSent(n) => InSent(n)'
  BY <1>4, <1>5 DEF InSent
<1>9. \A n : n = last_n' => InSent(n)'
  BY <1>4, <1>5, <1>6 DEF InSent
<1>10. \A p \in Flight(out') : p.kind = "media" /\ p.n = last_n'
  <2>1. ToSet(out') = {[ssrc |-> "media", seq |-> s, n |-> last_n']}
    BY <1>5 DEF ToSet
  <2>2. Flight(out') = {[kind |-> "media", n |-> last_n']}
    BY <2>1 DEF Flight
  <2> QED BY <2>2
<1>11. {p \in net' : p.kind = "nack"} = {p \in net : p.kind = "nack"}
  BY <1>1, <1>10
<1>12. \A p \in net' : IF p.kind = "nack" THEN p.seqs \in Seq(SeqNums)
                        ELSE p.kind \in Kinds /\ InSent(p.n)'
  BY <1>1, <1>8, <1>9, <1>10 DEF NetInv, Kinds
<1>13. \A n \in arrived' : InSent(n)'
  BY <1>1, <1>8 DEF NetInv, receiverVars
<1>14. NetInv'
  BY <1>5, <1>7, <1>11, <1>12, <1>13 DEF NetInv
<1> QED BY <1>1, <1>2, <1>3, <1>7, <1>8, <1>11, <1>14

\* What the sender and the stream are stays when the sender does nothing.
LEMMA SenderStays ==
  ASSUME UNCHANGED <<has_sent, last_seq, cached_rtp_packets, first_n, last_n>>
  PROVE  /\ SP!WindowInv => SP!WindowInv'
         /\ \A n : InSent(n)' <=> InSent(n)
BY DEF SP!WindowInv, SP!IsWindowOf, SP!SeqAt, InSent

\* A packet arrives, and what the receiver asks for is on the network.
LEMMA ArriveStep ==
  ASSUME EndsInv, NEW p \in net, p.kind # "nack", Receiver!OnRtpPacket(p.n, p.kind),
         NEW left \in SUBSET net, net' = left \cup Nacks(loss_packet_seqs'),
         UNCHANGED senderVars
  PROVE  /\ RP!OnRtpPacket(p.n, p.kind) /\ p.n \in Positions /\ p.kind \in Kinds
         /\ InSent(p.n) /\ SP!WindowInv' /\ NetInv'
<1>1. RP!OnRtpPacket(p.n, p.kind)
  BY SameReceiver
<1>2. p.kind \in Kinds /\ InSent(p.n)
  BY DEF EndsInv, NetInv
<1>3. p.n \in Positions
  BY <1>2, SentArePositions DEF EndsInv
<1>4. SP!WindowInv' /\ \A n : InSent(n)' <=> InSent(n)
  BY SenderStays DEF EndsInv, senderVars
<1>5. arrived' = arrived \cup {p.n}
  BY <1>1 DEF RP!OnRtpPacket
<1>6. loss_packet_seqs' \in Seq(SeqNums)
  <2>1. loss_packet_seqs' \in Seq(RP!SeqNums)
    BY <1>1, <1>3, ReceiverFits, RP!ArrivalKeepsType DEF EndsInv, RP!LossTypeOK
  <2> QED BY <2>1 DEF RP!SeqNums, SeqNums
<1>7. \A q \in Nacks(loss_packet_seqs') : q.kind = "nack" /\ q.seqs \in Seq(SeqNums)
  BY <1>6 DEF Nacks
<1>8. \A q \in net' : IF q.kind = "nack" THEN q.seqs \in Seq(SeqNums)
                      ELSE q.kind \in Kinds /\ InSent(q.n)'
  BY <1>4, <1>7 DEF EndsInv, NetInv
<1>9. IsFiniteSet({q \in net' : q.kind = "nack"})
  <2> DEFINE old == {q \in net : q.kind = "nack"}
             asks == [kind |-> "nack", seqs |-> loss_packet_seqs']
  <2>1. {q \in net' : q.kind = "nack"} \in SUBSET (old \cup {asks})
    BY DEF Nacks
  <2>2. IsFiniteSet(old)
    BY DEF EndsInv, NetInv
  <2>3. IsFiniteSet(old \cup {asks})
    <3> HIDE DEF old, asks
    <3> QED BY <2>2, FS_AddElement
  <2> QED BY <2>1, <2>3, FS_Subset
<1>10. \A n \in arrived' : InSent(n)'
  BY <1>2, <1>4, <1>5 DEF EndsInv, NetInv
<1>11. NetInv'
  BY <1>4, <1>8, <1>9, <1>10 DEF EndsInv, NetInv, senderVars
<1> QED BY <1>1, <1>2, <1>3, <1>4, <1>11

\* An answer to a NACK is on the network with what stays there.
LEMMA AnswerStep ==
  ASSUME EndsInv, NEW p \in net, NEW left \in SUBSET net, AnswerNack(p, left)
  PROVE  /\ SP!WindowInv' /\ NetInv' /\ [SP!Next]_(SP!vars)
         /\ IsAnswer(p.seqs, out')
         /\ UNCHANGED <<has_sent, first_n, last_n>> /\ UNCHANGED receiverVars
         /\ {q \in net' : q.kind = "nack"} = {q \in left : q.kind = "nack"}
<1>1. /\ p.kind = "nack" /\ Sender!SendRtx(p.seqs)
      /\ net' = left \cup Flight(out') /\ UNCHANGED receiverVars
  BY DEF AnswerNack
<1>2. p.seqs \in Seq(SeqNums)
  BY <1>1 DEF EndsInv, NetInv
<1>3. /\ IsAnswer(p.seqs, out')
      /\ UNCHANGED <<has_sent, last_seq, cached_rtp_packets, first_n, last_n>>
  BY <1>1, <1>2, AnswerFacts DEF EndsInv
<1>4. SP!WindowInv' /\ \A n : InSent(n)' <=> InSent(n)
  BY <1>3, SenderStays DEF EndsInv
<1>5. SP!Next
  <2>1. SP!SendRtx(p.seqs)
    BY <1>1, SameSender
  <2>2. p.seqs \in Requests
    BY <1>2 DEF Requests
  <2> QED BY <2>1, <2>2 DEF SP!Next
<1>6. \A q \in Flight(out') : q.kind \in Kinds /\ q.kind # "nack" /\ InSent(q.n)
  BY <1>3, FlightFacts DEF IsAnswer, Kinds
<1>7. {q \in net' : q.kind = "nack"} = {q \in left : q.kind = "nack"}
  BY <1>1, <1>6
<1>8. IsFiniteSet({q \in net' : q.kind = "nack"})
  <2>1. {q \in net' : q.kind = "nack"} \in SUBSET {q \in net : q.kind = "nack"}
    BY <1>7
  <2> QED BY <2>1, FS_Subset DEF EndsInv, NetInv
<1>9. NetInv'
  BY <1>1, <1>3, <1>4, <1>6, <1>8 DEF EndsInv, NetInv, receiverVars
<1> QED BY <1>1, <1>3, <1>4, <1>5, <1>7, <1>9

\* In the first state nothing was sent and nothing is on the way.
LEMMA EndsInit == Init => EndsInv /\ RP!Init /\ SP!Init /\ Sender!Init /\ Receiver!Init
<1> SUFFICES ASSUME Init
             PROVE  EndsInv /\ RP!Init /\ SP!Init /\ Sender!Init /\ Receiver!Init
  OBVIOUS
<1>1. RP!Init /\ SP!Init /\ Sender!Init /\ Receiver!Init
  BY DEF Init, Sender!Init, Receiver!Init, RP!Init, SP!Init
<1>2. RP!DeliveryInv
  BY <1>1, ReceiverFits, RP!InitInv
<1>3. RP!LossTypeOK
  BY <1>1 DEF RP!LossTypeOK, RP!Init
<1>4. SP!WindowInv
  <2>1. 0 \in SP!SeqNums
    BY SeqSpaceAssumption DEF SP!SeqNums
  <2> QED BY <1>1, <2>1 DEF SP!WindowInv, SP!Init
<1>5. NetInv
  <2>1. net = {} /\ arrived = {} /\ has_sent = FALSE /\ last_n = 0
    BY DEF Init, Sender!Init, Receiver!Init
  <2>2. IsFiniteSet({})
    BY FS_EmptySet
  <2>3. {p \in net : p.kind = "nack"} = {}
    BY <2>1
  <2> QED BY <2>1, <2>2, <2>3 DEF NetInv
<1> QED BY <1>1, <1>2, <1>3, <1>4, <1>5 DEF EndsInv

\* Every step of the session is one of the sender's, one of the receiver's, or
\* one of the network's alone.
LEMMA EndsStep ==
  EndsInv /\ [Next]_vars => EndsInv' /\ [RP!Next]_(RP!vars) /\ [SP!Next]_(SP!vars)
<1> SUFFICES ASSUME EndsInv, [Next]_vars
             PROVE  EndsInv' /\ [RP!Next]_(RP!vars) /\ [SP!Next]_(SP!vars)
  OBVIOUS
<1>1. SP!WindowInv /\ NetInv /\ RP!DeliveryInv /\ RP!LossTypeOK
  BY DEF EndsInv
<1>2. ASSUME UNCHANGED receiverVars
      PROVE  UNCHANGED RP!vars
  BY <1>2 DEF receiverVars, RP!vars, RP!cacheVars
<1>3. ASSUME UNCHANGED senderVars
      PROVE  UNCHANGED SP!vars /\ SP!WindowInv' /\ \A n : InSent(n)' <=> InSent(n)
  <2>1. UNCHANGED SP!vars /\ UNCHANGED <<has_sent, last_seq, cached_rtp_packets, first_n, last_n>>
    BY <1>3 DEF senderVars, SP!vars
  <2> QED BY <1>1, <2>1, SenderStays
<1>4. ASSUME [RP!Next]_(RP!vars)
      PROVE  RP!DeliveryInv' /\ RP!LossTypeOK'
  BY <1>1, <1>4, ReceiverFits, RP!NextInv, RP!NextKeepsType
<1>5. ASSUME NEW s \in SeqNums, Send(s)
      PROVE  EndsInv' /\ [RP!Next]_(RP!vars) /\ [SP!Next]_(SP!vars)
  <2>1. /\ SP!WindowInv' /\ NetInv' /\ [SP!Next]_(SP!vars)
        /\ UNCHANGED receiverVars
    BY <1>1, <1>5, SendStep
  <2> QED BY <1>2, <1>4, <2>1 DEF EndsInv
<1>6. ASSUME NEW p \in net, NEW left \in SUBSET net, Receive(p, left)
      PROVE  EndsInv' /\ [RP!Next]_(RP!vars) /\ [SP!Next]_(SP!vars)
  <2>1. /\ p.kind # "nack" /\ Receiver!OnRtpPacket(p.n, p.kind)
        /\ net' = left \cup Nacks(loss_packet_seqs') /\ UNCHANGED senderVars
    BY <1>6 DEF Receive
  <2>2. /\ RP!OnRtpPacket(p.n, p.kind) /\ p.n \in Positions /\ p.kind \in Kinds
        /\ SP!WindowInv' /\ NetInv'
    BY <2>1, ArriveStep
  <2>3. RP!Next
    BY <2>2 DEF RP!Next
  <2> QED BY <1>3, <1>4, <2>1, <2>2, <2>3 DEF EndsInv
<1>7. ASSUME NEW p \in net, NEW left \in SUBSET net, AnswerNack(p, left)
      PROVE  EndsInv' /\ [RP!Next]_(RP!vars) /\ [SP!Next]_(SP!vars)
  <2>1. /\ SP!WindowInv' /\ NetInv' /\ [SP!Next]_(SP!vars)
        /\ UNCHANGED receiverVars
    BY <1>7, AnswerStep
  <2> QED BY <1>2, <1>4, <2>1 DEF EndsInv
<1>8. ASSUME NEW p \in net, Deliver(p) \/ Repeat(p)
      PROVE  EndsInv' /\ [RP!Next]_(RP!vars) /\ [SP!Next]_(SP!vars)
  <2>1. \E left \in SUBSET net : Receive(p, left) \/ AnswerNack(p, left)
    BY <1>8 DEF Deliver, Repeat
  <2> QED BY <1>6, <1>7, <2>1
<1>9. ASSUME UNCHANGED <<senderVars, arrived>>, net' \subseteq net
       PROVE  NetInv'
  <2>1. {p \in net' : p.kind = "nack"} \in SUBSET {p \in net : p.kind = "nack"}
    BY <1>9
  <2>2. IsFiniteSet({p \in net' : p.kind = "nack"})
    BY <1>1, <2>1, FS_Subset DEF NetInv
  <2> QED BY <1>1, <1>3, <1>9, <2>2 DEF NetInv, senderVars
<1>10. ASSUME NEW p \in net, Lose(p)
       PROVE  EndsInv' /\ [RP!Next]_(RP!vars) /\ [SP!Next]_(SP!vars)
  <2>1. /\ UNCHANGED senderVars /\ UNCHANGED receiverVars /\ net' \subseteq net
    BY <1>10 DEF Lose
  <2>2. NetInv'
    BY <1>9, <2>1 DEF receiverVars
  <2> QED BY <1>2, <1>3, <1>4, <2>1, <2>2 DEF EndsInv
<1>11. ASSUME Tick
       PROVE  EndsInv' /\ [RP!Next]_(RP!vars) /\ [SP!Next]_(SP!vars)
  <2>1. /\ UNCHANGED senderVars /\ UNCHANGED <<net, arrived>> /\ RP!Tick
    BY <1>11 DEF Tick, Receiver!Tick, RP!Tick, Receiver!cacheVars, RP!cacheVars
  <2>2. NetInv'
    BY <1>9, <2>1
  <2>3. RP!Next
    BY <2>1 DEF RP!Next
  <2> QED BY <1>3, <1>4, <2>1, <2>2, <2>3 DEF EndsInv
<1>12. ASSUME UNCHANGED vars
       PROVE  EndsInv' /\ [RP!Next]_(RP!vars) /\ [SP!Next]_(SP!vars)
  <2>1. /\ UNCHANGED senderVars /\ UNCHANGED receiverVars /\ UNCHANGED net
    BY <1>12 DEF vars
  <2>2. NetInv'
    BY <1>9, <2>1 DEF receiverVars
  <2> QED BY <1>2, <1>3, <1>4, <2>1, <2>2 DEF EndsInv
<1> QED BY <1>5, <1>8, <1>10, <1>11, <1>12 DEF Next

\* So a session runs a sender and a receiver that their modules prove about.
LEMMA EndsHold == Spec => [](EndsInv) /\ RP!Spec /\ SP!Spec
<1>1. Init => EndsInv /\ RP!Init /\ SP!Init
  BY EndsInit
<1>2. EndsInv /\ [Next]_vars => EndsInv' /\ [RP!Next]_(RP!vars) /\ [SP!Next]_(SP!vars)
  BY EndsStep
<1> QED BY <1>1, <1>2, PTL DEF Spec, RP!Spec, SP!Spec

\* And what is proved of the receiver holds in the session.
LEMMA ReceiverHolds == Spec => [](RP!StatsInv /\ RP!LossInv /\ RP!MissingInv)
<1>1. RP!Spec => []RP!StatsInv
  BY ReceiverFits, RP!StatsHold
<1>2. RP!Spec => []RP!LossInv
  BY ReceiverFits, RP!LossHold
<1>3. RP!Spec => []RP!MissingInv
  BY ReceiverFits, RP!MissingHold
<1> QED BY <1>1, <1>2, <1>3, EndsHold, PTL

-----------------------------------------------------------------------------
(* Retransmission keeps its pace *)

\* The requests for m on the network, and how often m was retransmitted or is
\* still to be.
RequestsFor(m) == {p \in net : p.kind = "nack" /\ m \in ToSet(p.seqs)}
Requested(m) == rtx_count[m] + Cardinality(RequestsFor(m))

\* m is on the receiver's list of losses.
IsListed(m) == \E k \in 1..Len(loss_seqs) : loss_seqs[k].seq = m

\* The receiver has seen the last of m: it arrived or was given up.
IsSettled(m) == m \in arrived \/ (has_callback_packet /\ m <= latest_callback_seq)

\* Each entry was asked for when it is marked, not later, and lies between two
\* arrivals.
EntryPaced(e) ==
  /\ e.notified /\ e.last_notify <= now
  /\ \E a, b \in arrived : a < e.seq /\ e.seq < b
  /\ \A i \in 1..Len(asked_times[e.seq]) : asked_times[e.seq][i] <= e.last_notify

\* The times of the requests for m are an interval apart.
IsSpaced(times) == \A i \in 2..Len(times) : times[i - 1] + NackInterval <= times[i]

\* The histories have their types.
HistoryType ==
  /\ rtx_count \in [Positions -> Nat]
  /\ asked_times \in [Positions -> Seq(Nat)]
  /\ nack_repeats \in Nat

\* What holds until the counter wraps.
PacedInv ==
  /\ HistoryType
  /\ \A p \in net : p.kind = "nack" =>
       /\ \A i, j \in 1..Len(p.seqs) : i # j => p.seqs[i] # p.seqs[j]
       /\ \A i \in 1..Len(p.seqs) : InSent(p.seqs[i])
  /\ \A k \in 1..Len(loss_seqs) : EntryPaced(loss_seqs[k])
  /\ \A m \in Positions : asked_times[m] # <<>> => IsListed(m) \/ IsSettled(m)
  /\ \A m \in Positions : IsSpaced(asked_times[m])
  /\ \A m \in Positions : Requested(m) <= Len(asked_times[m]) + nack_repeats

\* Counts are numbers.
LEMMA RequestedType ==
  ASSUME NetInv, HistoryType, NEW m \in Positions
  PROVE  /\ IsFiniteSet(RequestsFor(m)) /\ Cardinality(RequestsFor(m)) \in Nat
         /\ rtx_count[m] \in Nat /\ Requested(m) \in Nat
         /\ Len(asked_times[m]) \in Nat /\ nack_repeats \in Nat
<1>1. RequestsFor(m) \in SUBSET {p \in net : p.kind = "nack"}
  BY DEF RequestsFor
<1>2. IsFiniteSet(RequestsFor(m))
  BY <1>1, FS_Subset DEF NetInv
<1>3. Cardinality(RequestsFor(m)) \in Nat
  BY <1>2, FS_CardinalityType
<1>4. rtx_count[m] \in Nat /\ asked_times[m] \in Seq(Nat) /\ nack_repeats \in Nat
  BY DEF HistoryType
<1> QED BY <1>2, <1>3, <1>4 DEF Requested

\* What lies between two arrivals was sent.
LEMMA BetweenIsSent ==
  ASSUME SP!WindowInv, NetInv, NEW m \in Int, NEW a \in arrived, NEW b \in arrived,
         a < m, m < b
  PROVE  InSent(m)
<1>1. InSent(a) /\ InSent(b)
  BY DEF NetInv
<1>2. first_n \in Nat /\ last_n \in Nat
  BY DEF SP!WindowInv
<1> QED BY <1>1, <1>2 DEF InSent

\* Before the wrap a position is its sequence number.
LEMMA SentIsSeq ==
  ASSUME SP!WindowInv, last_n < SeqSpace, NEW m, InSent(m)
  PROVE  SeqAt(m) = m
<1>1. first_n \in Nat /\ last_n \in Nat
  BY DEF SP!WindowInv
<1>2. m \in 0..(SeqSpace - 1)
  BY <1>1, SeqSpaceAssumption DEF InSent
<1> QED BY <1>2, SeqSpaceAssumption DEF SeqAt

\* A step that leaves the receiver's lists and requests alone keeps the pace.
LEMMA CalmStep ==
  ASSUME EndsInv, PacedInv, NetInv', HistoryType',
         UNCHANGED <<loss_seqs, arrived, latest_callback_seq, has_callback_packet,
                     asked_times>>,
         now \in Nat, now' \in Nat, now <= now',
         \A m \in Positions : Requested(m)' + nack_repeats <= Requested(m) + nack_repeats',
         \A p \in net' : p.kind = "nack" => p \in net,
         \A n : InSent(n) => InSent(n)'
  PROVE  PacedInv'
<1>1. \A p \in net' : p.kind = "nack" =>
        /\ \A i, j \in 1..Len(p.seqs) : i # j => p.seqs[i] # p.seqs[j]
        /\ \A i \in 1..Len(p.seqs) : InSent(p.seqs[i])'
  BY DEF PacedInv
<1>2. \A k \in 1..Len(loss_seqs') : EntryPaced(loss_seqs[k])'
  <2>1. loss_seqs \in Seq(RP!LossEntries)
    BY DEF EndsInv, RP!LossTypeOK
  <2>2. \A k \in 1..Len(loss_seqs) : loss_seqs[k] \in RP!LossEntries /\ EntryPaced(loss_seqs[k])
    BY <2>1 DEF PacedInv
  <2>3. \A e \in RP!LossEntries : EntryPaced(e) => EntryPaced(e)'
    <3>1. \A e \in RP!LossEntries : e.last_notify \in Nat
      BY DEF RP!LossEntries
    <3> QED BY <3>1 DEF EntryPaced
  <2>4. \A k \in 1..Len(loss_seqs) : \A e \in RP!LossEntries :
           e = loss_seqs[k] => EntryPaced(e)'
    BY <2>2, <2>3
  <2> QED BY <2>2, <2>4
<1>3. \A m \in Positions : asked_times'[m] # <<>> => IsListed(m)' \/ IsSettled(m)'
  BY DEF PacedInv, IsListed, IsSettled
<1>4. \A m \in Positions : IsSpaced(asked_times'[m])
  BY DEF PacedInv
<1>5. \A m \in Positions : Requested(m)' <= Len(asked_times'[m]) + nack_repeats'
  <2> TAKE m \in Positions
  <2>1. /\ Requested(m) \in Nat /\ nack_repeats \in Nat /\ Len(asked_times[m]) \in Nat
        /\ Requested(m) <= Len(asked_times[m]) + nack_repeats
    BY RequestedType DEF EndsInv, PacedInv
  <2>2. Requested(m)' \in Nat /\ nack_repeats' \in Nat
    <3>1. IsFiniteSet(RequestsFor(m)')
      <4>1. RequestsFor(m)' \in SUBSET {p \in net' : p.kind = "nack"}
        BY DEF RequestsFor
      <4> QED BY <4>1, FS_Subset DEF NetInv
    <3>2. Cardinality(RequestsFor(m)') \in Nat
      BY <3>1, FS_CardinalityType
    <3>3. rtx_count'[m] \in Nat /\ nack_repeats' \in Nat
      BY DEF HistoryType
    <3> QED BY <3>2, <3>3 DEF Requested
  <2>3. Len(asked_times'[m]) = Len(asked_times[m])
    OBVIOUS
  <2>4. Requested(m)' + nack_repeats <= Requested(m) + nack_repeats'
    OBVIOUS
  <2> QED BY <2>1, <2>2, <2>3, <2>4
<1> QED BY <1>1, <1>2, <1>3, <1>4, <1>5 DEF PacedInv

\* An answer retransmits what was asked for, once each, and takes the request
\* off the network or counts as one to a repeated request.
LEMMA AnswerPaced ==
  ASSUME EndsInv, PacedInv, now \in Nat, last_n < SeqSpace, NEW p \in net,
         NEW left \in SUBSET net, AnswerNack(p, left),
         \/ left = net \ {p} /\ nack_repeats' = nack_repeats
         \/ left = net /\ nack_repeats' = nack_repeats + 1
  PROVE  PacedInv'
<1> DEFINE sent(m) == {i \in DOMAIN out' : out'[i].n = m}
<1>1. /\ p.kind = "nack" /\ now' = now
      /\ UNCHANGED <<loss_seqs, arrived, latest_callback_seq, has_callback_packet, asked_times>>
      /\ rtx_count' = [m \in Positions |-> rtx_count[m] + Cardinality(sent(m))]
  BY DEF AnswerNack, receiverVars
<1>2. /\ NetInv' /\ IsAnswer(p.seqs, out')
      /\ UNCHANGED <<has_sent, first_n, last_n>>
      /\ {q \in net' : q.kind = "nack"} = {q \in left : q.kind = "nack"}
  BY AnswerStep
<1>3. /\ \A i, j \in 1..Len(p.seqs) : i # j => p.seqs[i] # p.seqs[j]
      /\ HistoryType
  BY <1>1 DEF PacedInv
<1>4. /\ \A i \in DOMAIN out' : InSent(out'[i].n) /\ SeqAt(out'[i].n) \in ToSet(p.seqs)
      /\ \A i, j \in DOMAIN out' : i # j => out'[i].n # out'[j].n
  BY <1>2, <1>3 DEF IsAnswer
<1>5. \A m : InSent(m) => SeqAt(m) = m
  BY SentIsSeq DEF EndsInv
<1>6. ASSUME NEW m \in Positions
      PROVE  /\ Requested(m)' + nack_repeats <= Requested(m) + nack_repeats'
             /\ rtx_count'[m] \in Nat
  <2> DEFINE c == Cardinality(sent(m))
             asks == Cardinality(RequestsFor(m))
             asksnew == Cardinality(RequestsFor(m)')
  <2>1. /\ IsFiniteSet(RequestsFor(m)) /\ asks \in Nat /\ rtx_count[m] \in Nat
        /\ nack_repeats \in Nat
    BY <1>3, RequestedType DEF EndsInv
  <2>2. RequestsFor(m)' = {q \in left : q.kind = "nack" /\ m \in ToSet(q.seqs)}
    BY <1>2 DEF RequestsFor
  <2>3. asksnew = IF left # net /\ p \in RequestsFor(m) THEN asks - 1 ELSE asks
    <3>1. CASE left = net
      BY <2>2, <3>1 DEF RequestsFor
    <3>2. CASE left # net
      <4>1. left = net \ {p}
        BY <3>2
      <4>2. RequestsFor(m)' = RequestsFor(m) \ {p}
        BY <2>2, <4>1 DEF RequestsFor
      <4> QED BY <2>1, <3>2, <4>2, FS_RemoveElement
    <3> QED BY <3>1, <3>2
  <2>4. nack_repeats' = IF left = net THEN nack_repeats + 1 ELSE nack_repeats
    OBVIOUS
  <2>5. Requested(m)' = (rtx_count[m] + c) + asksnew
    BY <1>1 DEF Requested
  <2>6. rtx_count'[m] = rtx_count[m] + c
    BY <1>1
  <2>7. Requested(m) = rtx_count[m] + asks
    BY DEF Requested
  <2>8. CASE sent(m) = {}
    <3>1. c = 0
      BY <2>8, FS_EmptySet
    <3> HIDE DEF c, asks, asksnew, sent
    <3> QED BY <2>1, <2>3, <2>4, <2>5, <2>6, <2>7, <3>1
  <2>9. CASE sent(m) # {}
    <3>1. PICK i \in DOMAIN out' : out'[i].n = m
      BY <2>9
    <3>2. sent(m) = {i}
      BY <1>4, <3>1
    <3>3. c = 1
      BY <3>2, FS_Singleton
    <3>4. InSent(m) /\ SeqAt(m) \in ToSet(p.seqs)
      BY <1>4, <3>1
    <3>5. m \in ToSet(p.seqs)
      BY <1>5, <3>4
    <3>6. p \in RequestsFor(m)
      BY <1>1, <3>5 DEF RequestsFor
    <3> HIDE DEF c, asks, asksnew, sent
    <3> QED BY <2>1, <2>3, <2>4, <2>5, <2>6, <2>7, <3>3, <3>6
  <2> QED BY <2>8, <2>9
<1>7. HistoryType'
  <2>1. rtx_count' \in [Positions -> Nat]
    BY <1>1, <1>6
  <2> QED BY <1>1, <1>3, <2>1 DEF HistoryType
<1>8. \A q \in net' : q.kind = "nack" => q \in net
  BY <1>2
<1>9. \A n : InSent(n) => InSent(n)'
  BY <1>2 DEF InSent
<1>10. \A m \in Positions : Requested(m)' + nack_repeats <= Requested(m) + nack_repeats'
  BY <1>6
<1>11. now <= now' /\ now' \in Nat
  BY <1>1
<1> QED BY <1>1, <1>2, <1>7, <1>8, <1>9, <1>10, <1>11, CalmStep

\* An arrival asks again for what is due and for the first time for what was
\* never asked for.
LEMMA ArrivalPaced ==
  ASSUME EndsInv, PacedInv, RP!StatsInv, RP!LossInv, last_n < SeqSpace,
         NEW p \in net, NEW left \in SUBSET net, Receive(p, left),
         {q \in left : q.kind = "nack"} = {q \in net : q.kind = "nack"},
         UNCHANGED nack_repeats
  PROVE  PacedInv'
<1> DEFINE asks == loss_packet_seqs'
           Asked(m) == \E i \in 1..Len(asks) : asks[i] = m
           request == [kind |-> "nack", seqs |-> asks]
           Room(m) == \A i \in 1..Len(asked_times[m]) : asked_times[m][i] + NackInterval <= now
<1>0. NackInterval \in Nat \ {0}
  BY SessionAssumption
<1>1. /\ p.kind # "nack" /\ Receiver!OnRtpPacket(p.n, p.kind)
      /\ net' = left \cup Nacks(asks) /\ UNCHANGED senderVars /\ UNCHANGED rtx_count
      /\ asked_times' = [n \in Positions |->
           IF n \in first_n..last_n /\ SeqAt(n) \in ToSet(asks)
           THEN Append(asked_times[n], now) ELSE asked_times[n]]
  BY DEF Receive
<1>2. /\ RP!OnRtpPacket(p.n, p.kind) /\ p.n \in Positions
      /\ InSent(p.n) /\ SP!WindowInv' /\ NetInv'
  BY <1>1, ArriveStep
<1>3. /\ first_n' = first_n /\ last_n' = last_n /\ has_sent' = has_sent
      /\ first_n \in Nat /\ last_n \in Nat /\ has_sent
  BY <1>1, <1>2 DEF senderVars, EndsInv, SP!WindowInv, InSent
<1>4. \A a \in arrived' : InSent(a)
  BY <1>2, <1>3 DEF NetInv, InSent
<1>5. RP!InFirstCycle'
  <2>1. \A a \in arrived' : a < SeqSpace
    BY <1>3, <1>4, SeqSpaceAssumption DEF InSent
  <2> QED BY <2>1 DEF RP!InFirstCycle
<1>6. /\ RP!Asks(p.n, loss_seqs, loss_seqs', asks)
      /\ arrived' = arrived \cup {p.n} /\ now' = now /\ now \in Nat
      /\ loss_seqs \in Seq(RP!LossEntries)
      /\ has_callback_packet =>
           /\ has_callback_packet'
           /\ latest_callback_seq \in Int /\ latest_callback_seq' \in Int
           /\ latest_callback_seq <= latest_callback_seq'
  BY <1>2, <1>5, ReceiverFits, RP!ArrivalAsks DEF EndsInv
<1>7. /\ loss_seqs' \in Seq(RP!LossEntries)
      /\ \A i, j \in 1..Len(asks) : i # j => asks[i] # asks[j]
      /\ \A i \in 1..Len(asks) :
           \E j \in 1..Len(loss_seqs') :
             loss_seqs'[j].seq = asks[i] /\ loss_seqs'[j].last_notify = now
      /\ \A j \in 1..Len(loss_seqs') : loss_seqs'[j].notified
      /\ \A j \in 1..Len(loss_seqs') :
           \/ /\ \E k \in 1..Len(loss_seqs) : loss_seqs'[j] = loss_seqs[k]
              /\ ~Asked(loss_seqs'[j].seq)
           \/ /\ loss_seqs'[j].last_notify = now
              /\ \E k \in 1..Len(loss_seqs) :
                   loss_seqs'[j].seq = loss_seqs[k].seq /\ RP!IsNackDue(loss_seqs[k])
           \/ /\ loss_seqs'[j].last_notify = now
              /\ loss_seqs'[j].seq \notin arrived'
              /\ \A k \in 1..Len(loss_seqs) : loss_seqs[k].seq # loss_seqs'[j].seq
              /\ has_callback_packet => latest_callback_seq < loss_seqs'[j].seq
              /\ \E a, b \in arrived' : a < loss_seqs'[j].seq /\ loss_seqs'[j].seq < b
      /\ \A k \in 1..Len(loss_seqs) :
           \/ \E j \in 1..Len(loss_seqs') : loss_seqs'[j].seq = loss_seqs[k].seq
           \/ loss_seqs[k].seq = p.n
           \/ has_callback_packet /\ loss_seqs[k].seq <= latest_callback_seq
  BY <1>6 DEF RP!Asks
<1>8. /\ HistoryType
      /\ \A k \in 1..Len(loss_seqs) :
           /\ loss_seqs[k] \in RP!LossEntries /\ EntryPaced(loss_seqs[k])
           /\ loss_seqs[k].seq \in Int /\ loss_seqs[k].last_notify \in Nat
  <2>1. \A e \in RP!LossEntries : e.seq \in Int /\ e.last_notify \in Nat
    BY SeqSpaceAssumption DEF RP!LossEntries, RP!SeqNums
  <2> QED BY <1>6, <2>1 DEF PacedInv
\* Each listed number is between two arrivals, so it was sent.
<1>9. ASSUME NEW e \in RP!LossEntries, NEW j \in 1..Len(loss_seqs'), e = loss_seqs'[j]
      PROVE  /\ e.seq \in Int /\ \E a, b \in arrived' : a < e.seq /\ e.seq < b
             /\ InSent(e.seq) /\ e.seq \in Positions
  <2>1. e.seq \in Int
    BY SeqSpaceAssumption DEF RP!LossEntries, RP!SeqNums
  <2>2. \E a, b \in arrived' : a < e.seq /\ e.seq < b
    <3>1. CASE \E k \in 1..Len(loss_seqs) : e.seq = loss_seqs[k].seq
      <4>1. PICK k \in 1..Len(loss_seqs) : e.seq = loss_seqs[k].seq
        BY <3>1
      <4>2. \E a, b \in arrived : a < e.seq /\ e.seq < b
        BY <1>8, <4>1 DEF EntryPaced
      <4> QED BY <1>6, <4>2
    <3>2. CASE ~\E k \in 1..Len(loss_seqs) : e.seq = loss_seqs[k].seq
      BY <1>7, <1>9, <3>2
    <3> QED BY <3>1, <3>2
  <2>3. InSent(e.seq)
    <3>1. PICK a \in arrived', b \in arrived' : a < e.seq /\ e.seq < b
      BY <2>2
    <3>2. InSent(a) /\ InSent(b)
      BY <1>4
    <3> QED BY <1>3, <2>1, <3>1, <3>2 DEF InSent
  <2>4. e.seq \in Positions
    BY <2>3, SentArePositions DEF EndsInv
  <2> QED BY <2>1, <2>2, <2>3, <2>4
\* What is asked for is listed, was sent, and was last asked for an interval ago.
<1>10. ASSUME NEW e \in RP!LossEntries, NEW j \in 1..Len(loss_seqs'), e = loss_seqs'[j]
       PROVE  \/ ~Asked(e.seq) /\ \E k \in 1..Len(loss_seqs) : e = loss_seqs[k]
              \/ e.last_notify = now /\ Room(e.seq)
  <2>1. e.seq \in Positions
    BY <1>9, <1>10
  <2>2. asked_times[e.seq] \in Seq(Nat)
    BY <1>8, <2>1 DEF HistoryType
  <2>3. CASE \E k \in 1..Len(loss_seqs) :
               e.seq = loss_seqs[k].seq /\ RP!IsNackDue(loss_seqs[k])
    <3>1. PICK f \in RP!LossEntries :
             /\ e.seq = f.seq /\ RP!IsNackDue(f) /\ EntryPaced(f) /\ f.last_notify \in Nat
      BY <1>8, <2>3
    <3>2. f.last_notify + NackInterval <= now
      BY <3>1 DEF RP!IsNackDue, EntryPaced
    <3>3. \A i \in 1..Len(asked_times[e.seq]) :
            asked_times[e.seq][i] \in Nat /\ asked_times[e.seq][i] <= f.last_notify
      BY <2>2, <3>1 DEF EntryPaced
    <3>4. Room(e.seq)
      BY <1>0, <1>6, <3>1, <3>2, <3>3
    <3> QED BY <1>7, <1>10, <3>4
  <2>4. CASE /\ e.seq \notin arrived'
             /\ \A k \in 1..Len(loss_seqs) : loss_seqs[k].seq # e.seq
             /\ has_callback_packet => latest_callback_seq < e.seq
    <3>1. ~IsListed(e.seq)
      BY <2>4 DEF IsListed
    <3>2. ~IsSettled(e.seq)
      BY <1>6, <1>9, <1>10, <2>4 DEF IsSettled
    <3>3. asked_times[e.seq] = <<>>
      BY <2>1, <3>1, <3>2 DEF PacedInv
    <3>4. Room(e.seq)
      BY <3>3
    <3> QED BY <1>7, <1>10, <2>4, <3>4
  <2> QED BY <1>7, <1>10, <2>3, <2>4
<1>11. ASSUME NEW m, Asked(m)
       PROVE  IsListed(m)' /\ InSent(m) /\ m \in Positions /\ SeqAt(m) = m /\ Room(m)
  <2>1. PICK j \in 1..Len(loss_seqs') : loss_seqs'[j].seq = m
    BY <1>7, <1>11
  <2>2. PICK e \in RP!LossEntries : e = loss_seqs'[j]
    BY <1>7
  <2>3. InSent(m) /\ m \in Positions
    BY <1>9, <2>1, <2>2
  <2>4. SeqAt(m) = m
    BY <2>3, SentIsSeq DEF EndsInv
  <2>5. Room(m)
    BY <1>10, <1>11, <2>1, <2>2
  <2> QED BY <2>1, <2>3, <2>4, <2>5 DEF IsListed
<1>12. ASSUME NEW m \in Positions
       PROVE  /\ asked_times[m] \in Seq(Nat)
              /\ asked_times'[m] = IF Asked(m) THEN Append(asked_times[m], now)
                                   ELSE asked_times[m]
  <2>1. asked_times[m] \in Seq(Nat)
    BY <1>8 DEF HistoryType
  <2>2. m \in first_n..last_n /\ SeqAt(m) \in ToSet(asks) <=> Asked(m)
    <3>1. \A s : s \in ToSet(asks) <=> Asked(s)
      BY DEF ToSet
    <3>2. m \in first_n..last_n => SeqAt(m) = m
      BY <1>3, SentIsSeq DEF EndsInv, InSent
    <3>3. Asked(m) => m \in first_n..last_n
      BY <1>11 DEF InSent
    <3> HIDE DEF Asked
    <3> QED BY <3>1, <3>2, <3>3
  <2> QED BY <1>1, <2>1, <2>2
<1>13a. \A s : s \in ToSet(asks) <=> Asked(s)
  BY DEF ToSet
<1> HIDE DEF Asked, request
\* Requests grow by one for what is asked for now.
<1>13. ASSUME NEW m \in Positions
       PROVE  Requested(m)' <= Len(asked_times'[m]) + nack_repeats'
  <2>1. /\ IsFiniteSet(RequestsFor(m)) /\ Cardinality(RequestsFor(m)) \in Nat
        /\ rtx_count[m] \in Nat /\ nack_repeats \in Nat /\ Len(asked_times[m]) \in Nat
    BY <1>8, RequestedType DEF EndsInv
  <2>2. RequestsFor(m)' = IF Asked(m) THEN RequestsFor(m) \cup {request} ELSE RequestsFor(m)
    <3>1. \A q : q \in left /\ q.kind = "nack" <=> q \in net /\ q.kind = "nack"
      OBVIOUS
    <3>2. m \in ToSet(asks) <=> Asked(m)
      BY <1>13a
    <3>3. Nacks(asks) = IF asks = <<>> THEN {} ELSE {request}
      BY DEF Nacks, request
    <3>4. Asked(m) => asks # <<>>
      BY DEF Asked
    <3>5. request.kind = "nack" /\ request.seqs = asks
      BY DEF request
    <3>6. RequestsFor(m)' = {q \in left \cup Nacks(asks) : q.kind = "nack" /\ m \in ToSet(q.seqs)}
      BY <1>1 DEF RequestsFor
    <3> HIDE DEF asks
    <3>7. CASE asks = <<>>
      BY <3>1, <3>3, <3>4, <3>6, <3>7 DEF RequestsFor
    <3>8. CASE asks # <<>>
      BY <3>1, <3>2, <3>3, <3>5, <3>6, <3>8 DEF RequestsFor
    <3> QED BY <3>7, <3>8
  <2>3. /\ Cardinality(RequestsFor(m) \cup {request}) \in Nat
        /\ Cardinality(RequestsFor(m) \cup {request}) <= Cardinality(RequestsFor(m)) + 1
    <3>1. IsFiniteSet(RequestsFor(m) \cup {request})
      BY <2>1, FS_AddElement
    <3>2. Cardinality(RequestsFor(m) \cup {request})
            = IF request \in RequestsFor(m) THEN Cardinality(RequestsFor(m))
              ELSE Cardinality(RequestsFor(m)) + 1
      BY <2>1, FS_AddElement
    <3> QED BY <2>1, <3>2
  <2>4. Requested(m)' = rtx_count[m] + Cardinality(RequestsFor(m)')
    BY <1>1 DEF Requested
  <2>5. Requested(m) <= Len(asked_times[m]) + nack_repeats
    BY DEF PacedInv
  <2>6. Len(asked_times'[m]) = IF Asked(m) THEN Len(asked_times[m]) + 1
                               ELSE Len(asked_times[m])
    <3>1. /\ asked_times[m] \in Seq(Nat)
          /\ asked_times'[m] = IF Asked(m) THEN Append(asked_times[m], now)
                               ELSE asked_times[m]
      BY <1>12
    <3> HIDE DEF asks
    <3>2. Len(Append(asked_times[m], now)) = Len(asked_times[m]) + 1
      BY <1>6, <3>1
    <3> QED BY <3>1, <3>2
  <2> QED BY <2>1, <2>2, <2>3, <2>4, <2>5, <2>6 DEF Requested
<1>14. \A j \in 1..Len(loss_seqs') : loss_seqs'[j] \in RP!LossEntries
  BY <1>7
<1>15. ASSUME NEW e \in RP!LossEntries, NEW j \in 1..Len(loss_seqs'), e = loss_seqs'[j]
       PROVE  EntryPaced(e)'
  <2>1. /\ e.seq \in Int /\ \E a, b \in arrived' : a < e.seq /\ e.seq < b
        /\ e.seq \in Positions
    BY <1>9, <1>15
  <2>2. e.notified
    BY <1>7, <1>15
  <2>3. /\ asked_times[e.seq] \in Seq(Nat)
        /\ asked_times'[e.seq] = IF Asked(e.seq) THEN Append(asked_times[e.seq], now)
                                 ELSE asked_times[e.seq]
    BY <1>12, <2>1
  <2>4. CASE ~Asked(e.seq) /\ \E k \in 1..Len(loss_seqs) : e = loss_seqs[k]
    <3>1. EntryPaced(e)
      BY <1>8, <2>4
    <3> QED BY <1>6, <2>1, <2>2, <2>3, <2>4, <3>1 DEF EntryPaced
  <2>5. CASE e.last_notify = now /\ Room(e.seq)
    <3>1. \A i \in 1..Len(asked_times'[e.seq]) : asked_times'[e.seq][i] <= now
      <4> DEFINE times == asked_times[e.seq]
      <4>1. times \in Seq(Nat) /\ \A i \in 1..Len(times) : times[i] <= now
        <5>1. \A i \in 1..Len(times) : times[i] + NackInterval <= now
          BY <2>5
        <5>2. times \in Seq(Nat)
          BY <2>3
        <5> HIDE DEF times
        <5>3. \A i \in 1..Len(times) : times[i] \in Nat
          BY <5>2
        <5> QED BY <1>0, <1>6, <5>1, <5>2, <5>3
      <4>2. asked_times'[e.seq] \in {times, Append(times, now)}
        BY <2>3
      <4> HIDE DEF times
      <4>3. \A i \in 1..Len(Append(times, now)) : Append(times, now)[i] <= now
        BY <1>6, <4>1
      <4> QED BY <4>1, <4>2, <4>3
    <3> QED BY <1>6, <2>1, <2>2, <2>5, <3>1 DEF EntryPaced
  <2> QED BY <1>10, <1>15, <2>4, <2>5
<1>16. \A k \in 1..Len(loss_seqs') : EntryPaced(loss_seqs[k])'
  <2>1. \A k \in 1..Len(loss_seqs') : \A e \in RP!LossEntries :
           e = loss_seqs'[k] => EntryPaced(e)'
    BY <1>15
  <2> QED BY <1>14, <2>1 DEF EntryPaced
<1>17. \A q \in net' : q.kind = "nack" =>
         /\ \A i, j \in 1..Len(q.seqs) : i # j => q.seqs[i] # q.seqs[j]
         /\ \A i \in 1..Len(q.seqs) : InSent(q.seqs[i])'
  <2> TAKE q \in net'
  <2> HAVE q.kind = "nack"
  <2>1. \A n : InSent(n)' <=> InSent(n)
    BY <1>3 DEF InSent
  <2>2. CASE q \in net
    BY <2>1, <2>2 DEF PacedInv
  <2>3. CASE q = request
    <3>1. \A i \in 1..Len(asks) : InSent(asks[i])
      BY <1>11 DEF Asked
    <3>2. q.seqs = asks
      BY <2>3 DEF request
    <3> QED BY <1>7, <2>1, <3>1, <3>2
  <2> QED BY <1>1, <2>2, <2>3 DEF Nacks, request
<1>18. \A m \in Positions : asked_times'[m] # <<>> => IsListed(m)' \/ IsSettled(m)'
  <2> TAKE m \in Positions
  <2> HAVE asked_times'[m] # <<>>
  <2>1. CASE Asked(m)
    BY <1>11, <2>1
  <2>2. CASE ~Asked(m)
    <3>1. IsListed(m) \/ IsSettled(m)
      BY <1>12, <2>2 DEF PacedInv
    <3>2. m \in Int
      BY SessionAssumption, SeqSpaceAssumption DEF Positions, SeqNums
    <3>3. IsSettled(m) => IsSettled(m)'
      BY <1>6, <3>2 DEF IsSettled
    <3>4. CASE IsListed(m)
      <4>1. PICK k \in 1..Len(loss_seqs) : loss_seqs[k].seq = m
        BY <3>4 DEF IsListed
      <4>2. \/ \E j \in 1..Len(loss_seqs') : loss_seqs'[j].seq = m
            \/ m = p.n
            \/ has_callback_packet /\ m <= latest_callback_seq
        BY <1>7, <4>1
      <4>3. m = p.n => m \in arrived'
        BY <1>6
      <4> QED BY <3>3, <4>2, <4>3 DEF IsListed, IsSettled
    <3> QED BY <3>1, <3>3, <3>4
  <2> QED BY <2>1, <2>2
<1>19. ASSUME NEW m \in Positions
       PROVE  IsSpaced(asked_times'[m])
  <2>1. IsSpaced(asked_times[m])
    BY DEF PacedInv
  <2>2. asked_times[m] \in Seq(Nat)
    BY <1>12
  <2>3. CASE ~Asked(m)
    BY <1>12, <2>1, <2>3
  <2>4. CASE Asked(m)
    <3> DEFINE times == asked_times[m]
               len == Len(times)
    <3>1. asked_times'[m] = Append(times, now) /\ Room(m)
      BY <1>11, <1>12, <2>4
    <3> HIDE DEF times
    <3>2. /\ len \in Nat /\ Len(Append(times, now)) = len + 1
          /\ \A i \in 1..len : Append(times, now)[i] = times[i]
          /\ Append(times, now)[len + 1] = now
      BY <1>6, <2>2 DEF times
    <3>3. ASSUME NEW i \in 2..(len + 1)
          PROVE  Append(times, now)[i - 1] + NackInterval <= Append(times, now)[i]
      <4>1. i - 1 \in 1..len
        BY <3>2
      <4>2. CASE i = len + 1
        BY <3>1, <3>2, <4>1, <4>2 DEF times
      <4>3. CASE i # len + 1
        <5>1. i \in 1..len /\ i \in 2..len
          BY <3>2, <4>3
        <5>2. times[i - 1] + NackInterval <= times[i]
          BY <2>1, <5>1 DEF IsSpaced, times
        <5> QED BY <3>2, <4>1, <5>1, <5>2
      <4> QED BY <4>2, <4>3
    <3> QED BY <3>1, <3>2, <3>3 DEF IsSpaced
  <2> QED BY <2>3, <2>4
<1>20. HistoryType'
  <2>1. asked_times' \in [Positions -> Seq(Nat)]
    <3>1. \A m \in Positions : asked_times'[m] \in Seq(Nat)
      <4> TAKE m \in Positions
      <4>1. /\ asked_times[m] \in Seq(Nat)
            /\ \/ asked_times'[m] = Append(asked_times[m], now)
               \/ asked_times'[m] = asked_times[m]
        BY <1>12
      <4>2. Append(asked_times[m], now) \in Seq(Nat)
        BY <1>6, <4>1
      <4> QED BY <4>1, <4>2
    <3>2. asked_times' = [m \in Positions |-> asked_times'[m]]
      BY <1>1
    <3> QED BY <3>1, <3>2
  <2> QED BY <1>1, <1>8, <2>1 DEF HistoryType
<1> QED BY <1>13, <1>16, <1>17, <1>18, <1>19, <1>20 DEF PacedInv

\* The counter has not wrapped yet.
BeforeWrap == last_n < SeqSpace

\* The inductive invariant, with EndsInv.
PacedUntilWrap == BeforeWrap => PacedInv

\* Requests that leave the network are gone.
LEMMA FewerRequests ==
  ASSUME EndsInv, HistoryType, NetInv', UNCHANGED <<rtx_count, nack_repeats>>,
         \A p \in net' : p.kind = "nack" => p \in net
  PROVE  \A m \in Positions : Requested(m)' + nack_repeats <= Requested(m) + nack_repeats'
<1> TAKE m \in Positions
<1>1. /\ IsFiniteSet(RequestsFor(m)) /\ Cardinality(RequestsFor(m)) \in Nat
      /\ rtx_count[m] \in Nat /\ nack_repeats \in Nat
  BY RequestedType DEF EndsInv
<1>2. RequestsFor(m)' \in SUBSET RequestsFor(m)
  BY DEF RequestsFor
<1>3. IsFiniteSet(RequestsFor(m)') /\ Cardinality(RequestsFor(m)') <= Cardinality(RequestsFor(m))
  BY <1>1, <1>2, FS_Subset
<1>4. Cardinality(RequestsFor(m)') \in Nat
  BY <1>3, FS_CardinalityType
<1>5. Requested(m)' = rtx_count[m] + Cardinality(RequestsFor(m)')
  BY DEF Requested
<1> QED BY <1>1, <1>3, <1>4, <1>5 DEF Requested

\* Every step keeps the pace until the counter wraps.
LEMMA PacedStep ==
  EndsInv /\ RP!StatsInv /\ RP!LossInv /\ PacedUntilWrap /\ [Next]_vars => PacedUntilWrap'
<1> SUFFICES ASSUME EndsInv, RP!StatsInv, RP!LossInv, PacedUntilWrap, [Next]_vars,
                    last_n' < SeqSpace
             PROVE  PacedInv'
  BY DEF PacedUntilWrap, BeforeWrap
<1>1. SP!WindowInv /\ NetInv /\ last_n \in Nat
  BY DEF EndsInv, SP!WindowInv
<1>2. now \in Nat
  BY SessionAssumption DEF EndsInv, RP!DeliveryInv, RP!CacheTypeOK
<1>3. NetInv'
  BY EndsStep DEF EndsInv
<1>4. ASSUME last_n <= last_n'
      PROVE  PacedInv /\ last_n < SeqSpace
  <2>1. last_n' \in Nat
    BY <1>1, EndsStep DEF EndsInv, SP!WindowInv
  <2>2. last_n < SeqSpace
    BY <1>1, <1>4, <2>1, SeqSpaceAssumption
  <2> QED BY <2>2 DEF PacedUntilWrap, BeforeWrap
<1>5. ASSUME last_n <= last_n',
             UNCHANGED <<loss_seqs, arrived, latest_callback_seq, has_callback_packet>>,
             UNCHANGED historyVars, now' \in Nat, now <= now',
             \A p \in net' : p.kind = "nack" => p \in net,
             \A n : InSent(n) => InSent(n)'
      PROVE  PacedInv'
  <2>1. PacedInv /\ HistoryType /\ HistoryType'
    BY <1>4, <1>5 DEF PacedInv, HistoryType, historyVars
  <2>2. \A m \in Positions : Requested(m)' + nack_repeats <= Requested(m) + nack_repeats'
    BY <1>3, <1>5, <2>1, FewerRequests DEF historyVars
  <2>3. UNCHANGED asked_times
    BY <1>5 DEF historyVars
  <2> QED BY <1>2, <1>3, <1>5, <2>1, <2>2, <2>3, CalmStep
<1>6. ASSUME UNCHANGED senderVars
      PROVE  last_n <= last_n' /\ last_n' = last_n /\ \A n : InSent(n) => InSent(n)'
  BY <1>1, <1>6 DEF senderVars, InSent
<1>7. ASSUME NEW s \in SeqNums, Send(s)
      PROVE  PacedInv'
  <2>1. /\ UNCHANGED receiverVars /\ last_n <= last_n'
        /\ \A n : InSent(n) => InSent(n)'
        /\ {p \in net' : p.kind = "nack"} = {p \in net : p.kind = "nack"}
    BY <1>1, <1>7, SendStep
  <2>2. UNCHANGED historyVars
    BY <1>7 DEF Send
  <2>3. \A p \in net' : p.kind = "nack" => p \in net
    BY <2>1
  <2>4. /\ UNCHANGED <<loss_seqs, arrived, latest_callback_seq, has_callback_packet>>
        /\ now' \in Nat /\ now <= now'
    BY <1>2, <2>1 DEF receiverVars
  <2> QED BY <1>5, <2>1, <2>2, <2>3, <2>4
<1>8. ASSUME NEW p \in net, NEW left \in SUBSET net, Receive(p, left),
             left = net \/ left = net \ {p}, UNCHANGED nack_repeats
      PROVE  PacedInv'
  <2>1. UNCHANGED senderVars /\ p.kind # "nack"
    BY <1>8 DEF Receive
  <2>2. PacedInv /\ last_n < SeqSpace
    BY <1>4, <1>6, <2>1
  <2>3. {q \in left : q.kind = "nack"} = {q \in net : q.kind = "nack"}
    BY <1>8, <2>1
  <2> QED BY <1>8, <2>2, <2>3, ArrivalPaced
<1>9. ASSUME NEW p \in net, NEW left \in SUBSET net, AnswerNack(p, left),
             \/ left = net \ {p} /\ nack_repeats' = nack_repeats
             \/ left = net /\ nack_repeats' = nack_repeats + 1
      PROVE  PacedInv'
  <2>1. last_n' = last_n
    BY <1>9, AnswerStep
  <2>2. PacedInv /\ last_n < SeqSpace
    BY <1>1, <1>4, <2>1
  <2> QED BY <1>2, <1>9, <2>2, AnswerPaced
<1>10. ASSUME NEW p \in net, Deliver(p)
       PROVE  PacedInv'
  <2>1. net \ {p} \in SUBSET net
    OBVIOUS
  <2> QED BY <1>8, <1>9, <1>10, <2>1 DEF Deliver
<1>11. ASSUME NEW p \in net, Repeat(p)
       PROVE  PacedInv'
  <2>1. net \in SUBSET net
    OBVIOUS
  <2> QED BY <1>8, <1>9, <1>11, <2>1 DEF Repeat
<1>12. ASSUME NEW p \in net, Lose(p)
       PROVE  PacedInv'
  <2>1. /\ net' = net \ {p} /\ UNCHANGED senderVars /\ UNCHANGED receiverVars
        /\ UNCHANGED historyVars
    BY <1>12 DEF Lose
  <2>2. /\ UNCHANGED <<loss_seqs, arrived, latest_callback_seq, has_callback_packet>>
        /\ now' \in Nat /\ now <= now'
    BY <1>2, <2>1 DEF receiverVars
  <2> QED BY <1>5, <1>6, <2>1, <2>2
<1>13. ASSUME Tick
       PROVE  PacedInv'
  <2>1. /\ UNCHANGED senderVars /\ UNCHANGED net /\ UNCHANGED historyVars /\ now' = now + 1
        /\ UNCHANGED <<loss_seqs, arrived, latest_callback_seq, has_callback_packet>>
    BY <1>13 DEF Tick, Receiver!Tick, Receiver!cacheVars
  <2>2. now' \in Nat /\ now <= now'
    BY <1>2, <2>1
  <2> QED BY <1>5, <1>6, <2>1, <2>2
<1>14. ASSUME UNCHANGED vars
       PROVE  PacedInv'
  <2>1. UNCHANGED senderVars /\ UNCHANGED receiverVars /\ UNCHANGED net /\ UNCHANGED historyVars
    BY <1>14 DEF vars
  <2>2. /\ UNCHANGED <<loss_seqs, arrived, latest_callback_seq, has_callback_packet>>
        /\ now' \in Nat /\ now <= now'
    BY <1>2, <2>1 DEF receiverVars
  <2> QED BY <1>5, <1>6, <2>1, <2>2
<1> QED BY <1>7, <1>10, <1>11, <1>12, <1>13, <1>14 DEF Next

\* In the first state nothing is requested.
LEMMA PacedInit == Init => PacedUntilWrap
<1> SUFFICES ASSUME Init
             PROVE  PacedInv
  BY DEF PacedUntilWrap
<1>1. /\ net = {} /\ rtx_count = [n \in Positions |-> 0] /\ loss_seqs = <<>>
      /\ asked_times = [n \in Positions |-> <<>>] /\ nack_repeats = 0
  BY DEF Init, Receiver!Init
<1>2. \A m \in Positions : Requested(m) = 0
  <2> TAKE m \in Positions
  <2>1. RequestsFor(m) = {}
    BY <1>1 DEF RequestsFor
  <2>2. Cardinality(RequestsFor(m)) = 0
    BY <2>1, FS_EmptySet
  <2> QED BY <1>1, <2>2 DEF Requested
<1>3. \A m \in Positions : asked_times[m] = <<>> /\ Len(asked_times[m]) = 0
  BY <1>1
<1>4. HistoryType
  BY <1>1 DEF HistoryType
<1>5. \A m \in Positions : IsSpaced(asked_times[m])
  BY <1>3 DEF IsSpaced
<1>6. \A m \in Positions : Requested(m) <= Len(asked_times[m]) + nack_repeats
  BY <1>1, <1>2, <1>3
<1> QED BY <1>1, <1>3, <1>4, <1>5, <1>6 DEF PacedInv

\* The invariants hold in every state.
LEMMA PacedHold == Spec => [](EndsInv /\ PacedUntilWrap)
<1>1. /\ EndsInv /\ (RP!StatsInv /\ RP!LossInv /\ RP!MissingInv) /\ PacedUntilWrap /\ [Next]_vars
           => PacedUntilWrap'
  BY PacedStep
<1> QED BY <1>1, PacedInit, EndsHold, ReceiverHolds, PTL DEF Spec

-----------------------------------------------------------------------------
(* What the last NACK asks for *)

\* The last NACK names packets that were sent and that the receiver neither
\* keeps nor has given to the user.
LastNackInv ==
  /\ loss_packet_seqs \in Seq(SeqNums)
  /\ BeforeWrap => \A i \in 1..Len(loss_packet_seqs) :
       /\ InSent(loss_packet_seqs[i])
       /\ loss_packet_seqs[i] \notin RP!KeptOrGiven

\* An arriving packet makes it so.
LEMMA ArrivalNames ==
  ASSUME EndsInv, PacedUntilWrap, RP!StatsInv, RP!LossInv, RP!MissingInv',
         NEW p \in net, NEW left \in SUBSET net, Receive(p, left)
  PROVE  LastNackInv'
<1> DEFINE asks == loss_packet_seqs'
<1>1. /\ p.kind # "nack" /\ Receiver!OnRtpPacket(p.n, p.kind)
      /\ net' = left \cup Nacks(asks) /\ UNCHANGED senderVars
  BY DEF Receive
<1>2. /\ RP!OnRtpPacket(p.n, p.kind) /\ p.n \in Positions
      /\ InSent(p.n) /\ SP!WindowInv' /\ NetInv'
  BY <1>1, ArriveStep
<1>3. asks \in Seq(SeqNums)
  <2>1. asks \in Seq(RP!SeqNums)
    BY <1>2, ReceiverFits, RP!ArrivalKeepsType DEF EndsInv, RP!LossTypeOK
  <2> QED BY <2>1 DEF RP!SeqNums, SeqNums
<1>4. ASSUME BeforeWrap', NEW i \in 1..Len(asks)
      PROVE  /\ has_sent' /\ asks[i] \in first_n'..last_n'
             /\ asks[i] \notin RP!KeptOrGiven'
  <2>1. /\ first_n' = first_n /\ last_n' = last_n /\ has_sent' = has_sent
        /\ first_n \in Nat /\ last_n \in Nat /\ BeforeWrap
    BY <1>1, <1>4 DEF senderVars, EndsInv, SP!WindowInv, BeforeWrap
  <2>2. \A a \in arrived' : InSent(a)
    BY <1>2, <2>1 DEF NetInv, InSent
  <2>3. RP!InFirstCycle'
    <3>1. \A a \in arrived' : a < SeqSpace
      BY <2>1, <2>2, SeqSpaceAssumption DEF InSent, BeforeWrap
    <3> QED BY <3>1 DEF RP!InFirstCycle
  <2>4. RP!Asks(p.n, loss_seqs, loss_seqs', asks) /\ arrived' = arrived \cup {p.n}
    BY <1>2, <2>3, ReceiverFits, RP!ArrivalAsks DEF EndsInv
  <2>5. PICK j \in 1..Len(loss_seqs') : loss_seqs'[j].seq = asks[i]
    BY <1>4, <2>4 DEF RP!Asks
  <2>6. asks[i] \notin RP!KeptOrGiven'
    BY <2>3, <2>5 DEF RP!MissingInv
  <2>7. \E a, b \in arrived' : a < asks[i] /\ asks[i] < b
    <3>1. CASE \E k \in 1..Len(loss_seqs) : loss_seqs[k].seq = asks[i]
      <4>1. PICK k \in 1..Len(loss_seqs) : loss_seqs[k].seq = asks[i]
        BY <3>1
      <4>2. \E a, b \in arrived : a < asks[i] /\ asks[i] < b
        BY <2>1, <4>1 DEF PacedUntilWrap, PacedInv, EntryPaced
      <4> QED BY <2>4, <4>2
    <3>2. CASE ~\E k \in 1..Len(loss_seqs) : loss_seqs[k].seq = asks[i]
      <4>1. \/ \E k \in 1..Len(loss_seqs) : loss_seqs'[j].seq = loss_seqs[k].seq
            \/ \E a, b \in arrived \cup {p.n} : a < loss_seqs'[j].seq /\ loss_seqs'[j].seq < b
        BY <2>4 DEF RP!Asks
      <4> QED BY <2>4, <2>5, <3>2, <4>1
    <3> QED BY <3>1, <3>2
  <2>8. asks[i] \in Int
    BY <1>3, <1>4, SeqSpaceAssumption DEF SeqNums
  <2>9. InSent(asks[i])
    <3>1. PICK a \in arrived', b \in arrived' : a < asks[i] /\ asks[i] < b
      BY <2>7
    <3>2. InSent(a) /\ InSent(b)
      BY <2>2
    <3> QED BY <2>1, <2>8, <3>1, <3>2 DEF InSent
  <2> QED BY <2>1, <2>6, <2>9 DEF InSent
<1> QED BY <1>3, <1>4 DEF LastNackInv, InSent

\* A step without an arrival leaves it so.
LEMMA OthersKeepNames ==
  ASSUME EndsInv, LastNackInv, EndsInv', last_n <= last_n', \A n : InSent(n) => InSent(n)',
         UNCHANGED <<loss_packet_seqs, cached_packets, delivered>>
  PROVE  LastNackInv'
<1>1. RP!KeptOrGiven' = RP!KeptOrGiven
  BY DEF RP!KeptOrGiven
<1>2. BeforeWrap' => BeforeWrap
  <2>1. last_n \in Nat /\ last_n' \in Nat
    BY DEF EndsInv, SP!WindowInv
  <2> QED BY <2>1, SeqSpaceAssumption DEF BeforeWrap
<1> QED BY <1>1, <1>2 DEF LastNackInv

\* Every step keeps it so.
LEMMA NamesStep ==
  /\ EndsInv /\ PacedUntilWrap /\ RP!StatsInv /\ RP!LossInv /\ RP!MissingInv' /\ EndsInv'
  /\ LastNackInv /\ [Next]_vars
  => LastNackInv'
<1> SUFFICES ASSUME EndsInv, PacedUntilWrap, RP!StatsInv, RP!LossInv, RP!MissingInv',
                    EndsInv', LastNackInv, [Next]_vars
             PROVE  LastNackInv'
  OBVIOUS
<1>1. SP!WindowInv /\ NetInv /\ last_n \in Nat
  BY DEF EndsInv, SP!WindowInv
<1>2. ASSUME UNCHANGED senderVars
      PROVE  last_n <= last_n' /\ \A n : InSent(n) => InSent(n)'
  BY <1>1, <1>2 DEF senderVars, InSent
<1>3. ASSUME NEW s \in SeqNums, Send(s)
      PROVE  LastNackInv'
  <2>1. UNCHANGED receiverVars /\ last_n <= last_n' /\ \A n : InSent(n) => InSent(n)'
    BY <1>1, <1>3, SendStep
  <2> QED BY <2>1, OthersKeepNames DEF receiverVars
<1>4. ASSUME NEW p \in net, NEW left \in SUBSET net, AnswerNack(p, left)
      PROVE  LastNackInv'
  <2>1. UNCHANGED <<has_sent, first_n, last_n>> /\ UNCHANGED receiverVars
    BY <1>4, AnswerStep
  <2>2. last_n <= last_n' /\ \A n : InSent(n) => InSent(n)'
    BY <1>1, <2>1 DEF InSent
  <2> QED BY <2>1, <2>2, OthersKeepNames DEF receiverVars
<1>5. ASSUME NEW p \in net, Deliver(p) \/ Repeat(p)
      PROVE  LastNackInv'
  <2>1. \E left \in SUBSET net : Receive(p, left) \/ AnswerNack(p, left)
    BY <1>5 DEF Deliver, Repeat
  <2> QED BY <1>4, <2>1, ArrivalNames
<1>6. ASSUME NEW p \in net, Lose(p)
      PROVE  LastNackInv'
  <2>1. UNCHANGED senderVars /\ UNCHANGED receiverVars
    BY <1>6 DEF Lose
  <2> QED BY <1>2, <2>1, OthersKeepNames DEF receiverVars
<1>7. ASSUME Tick
      PROVE  LastNackInv'
  <2>1. UNCHANGED senderVars /\ UNCHANGED <<loss_packet_seqs, cached_packets, delivered>>
    BY <1>7 DEF Tick, Receiver!Tick, Receiver!cacheVars
  <2> QED BY <1>2, <2>1, OthersKeepNames
<1>8. ASSUME UNCHANGED vars
      PROVE  LastNackInv'
  <2>1. UNCHANGED senderVars /\ UNCHANGED receiverVars
    BY <1>8 DEF vars
  <2> QED BY <1>2, <2>1, OthersKeepNames DEF receiverVars
<1> QED BY <1>3, <1>5, <1>6, <1>7, <1>8 DEF Next

\* Until the counter wraps, the receiver asks only for packets that were sent and
\* that it neither keeps nor has given to the user, whatever the network loses,
\* repeats and reorders. After a wrap it may leave gaps out and list numbers of
\* the cycle before (rtp_receiver.cc:147).
THEOREM NackForMissing == Spec => [](BeforeWrap => NackAsksOnlyForMissing)
<1>1. Init => LastNackInv
  <2> SUFFICES ASSUME Init PROVE LastNackInv
    OBVIOUS
  <2>1. loss_packet_seqs = <<>>
    BY DEF Init, Receiver!Init
  <2> QED BY <2>1 DEF LastNackInv
<1>2. /\ EndsInv /\ PacedUntilWrap /\ (RP!StatsInv /\ RP!LossInv /\ RP!MissingInv)
      /\ EndsInv' /\ (RP!StatsInv /\ RP!LossInv /\ RP!MissingInv)'
      /\ LastNackInv /\ [Next]_vars
      => LastNackInv'
  BY NamesStep
<1>3. EndsInv /\ LastNackInv => (BeforeWrap => NackAsksOnlyForMissing)
  <2> SUFFICES ASSUME EndsInv, LastNackInv, last_n < SeqSpace, NEW s \in ToSet(loss_packet_seqs)
               PROVE  s \in {SeqAt(n) : n \in (first_n..last_n) \ (Held \cup ToSet(delivered))}
    BY DEF BeforeWrap, NackAsksOnlyForMissing
  <2>1. PICK i \in 1..Len(loss_packet_seqs) : s = loss_packet_seqs[i]
    BY DEF LastNackInv, ToSet
  <2>2. InSent(s) /\ s \notin RP!KeptOrGiven
    BY <2>1 DEF LastNackInv, BeforeWrap
  <2>3. SeqAt(s) = s
    BY <2>2, SentIsSeq DEF EndsInv
  <2>4. RP!KeptOrGiven = Held \cup ToSet(delivered)
    BY DEF RP!KeptOrGiven, Held, RP!ToSet, ToSet
  <2> QED BY <2>2, <2>3, <2>4 DEF InSent
<1> QED BY <1>1, <1>2, <1>3, PacedHold, ReceiverHolds, PTL DEF Spec

\* Until the counter wraps, the receiver asks for a packet at most once per
\* interval, however packets are reordered, repeated and delayed, and the sender
\* answers each request and each repeated NACK with the packet at most once.
THEOREM PaceKept == Spec => [](BeforeWrap => RetransmissionsPaced)
<1>1. EndsInv /\ PacedUntilWrap => (BeforeWrap => RetransmissionsPaced)
  <2> SUFFICES ASSUME EndsInv, PacedInv, NEW m \in Positions
               PROVE  /\ IsSpaced(asked_times[m])
                      /\ rtx_count[m] <= Len(asked_times[m]) + nack_repeats
    BY DEF PacedUntilWrap, RetransmissionsPaced, IsSpaced
  <2>1. /\ Cardinality(RequestsFor(m)) \in Nat /\ rtx_count[m] \in Nat
        /\ Len(asked_times[m]) \in Nat /\ nack_repeats \in Nat
    BY RequestedType DEF EndsInv, PacedInv
  <2>2. Requested(m) <= Len(asked_times[m]) + nack_repeats
    BY DEF PacedInv
  <2>3. IsSpaced(asked_times[m])
    BY DEF PacedInv
  <2> QED BY <2>1, <2>2, <2>3 DEF Requested
<1> QED BY <1>1, PacedHold, PTL

-----------------------------------------------------------------------------
(* The ends are the specified ones *)

\* The sender of a session does what RtpSender says and the receiver what
\* RtpReceiver says, whatever the network loses, repeats and reorders.
THEOREM EndsAreSpecified == Spec => Sender!Spec /\ Receiver!Spec
<1>1. RP!Next => Receiver!Next
  <2>1. \A kind : RP!RejectRtpPacket(kind) => Receiver!RejectRtpPacket(kind)
    BY DEF RP!RejectRtpPacket, Receiver!RejectRtpPacket, RP!IsAccepted,
        Receiver!IsAccepted, RP!vars, Receiver!vars, RP!cacheVars, Receiver!cacheVars
  <2>2. RP!Tick => Receiver!Tick
    BY DEF RP!Tick, Receiver!Tick, RP!cacheVars, Receiver!cacheVars
  <2> QED BY <2>1, <2>2, SameReceiver DEF RP!Next, Receiver!Next
<1>2. SP!Next => Sender!Next
  <2>1. \A s, payload : SP!RejectRtp(s, payload) => Sender!RejectRtp(s, payload)
    BY DEF SP!RejectRtp, Sender!RejectRtp, SP!IsAccepted, Sender!IsAccepted,
        SP!NextSeq, Sender!NextSeq, SP!vars, Sender!vars
  <2>2. \A seqs : SP!IgnoreRtx(seqs) => Sender!IgnoreRtx(seqs)
    BY DEF SP!IgnoreRtx, Sender!IgnoreRtx, SP!vars, Sender!vars
  <2>3. SP!SeqNums = Sender!SeqNums
    BY DEF SP!SeqNums, Sender!SeqNums
  <2> QED BY <2>1, <2>2, <2>3, SameSender DEF SP!Next, Sender!Next
<1>3. /\ UNCHANGED RP!vars => UNCHANGED Receiver!vars
      /\ UNCHANGED SP!vars => UNCHANGED Sender!vars
  BY DEF RP!vars, Receiver!vars, RP!cacheVars, Receiver!cacheVars, SP!vars, Sender!vars
<1>4. /\ [RP!Next]_(RP!vars) => [Receiver!Next]_(Receiver!vars)
      /\ [SP!Next]_(SP!vars) => [Sender!Next]_(Sender!vars)
  BY <1>1, <1>2, <1>3
<1>5. Init => Sender!Init /\ Receiver!Init
  BY EndsInit
<1> QED BY <1>4, <1>5, EndsHold, PTL
        DEF Spec, RP!Spec, SP!Spec, Sender!Spec, Receiver!Spec

\* So the user of a session gets the packets in the order of the stream, and the
\* receiver keeps every packet it can still deliver, with the sender and the
\* network it really has.
THEOREM SessionInOrder ==
  Spec => [](Receiver!DeliveredInOrder /\ Receiver!CacheHoldsUndelivered)
<1>1. RP!Spec => []RP!DeliveredInOrder
  BY ReceiverFits, RP!InOrder
<1>2. RP!Spec => []RP!CacheHoldsUndelivered
  BY ReceiverFits, RP!NoPacketLost
<1>3. RP!DeliveredInOrder => Receiver!DeliveredInOrder
  BY DEF RP!DeliveredInOrder, Receiver!DeliveredInOrder
<1>4. RP!CacheHoldsUndelivered => Receiver!CacheHoldsUndelivered
  BY DEF RP!CacheHoldsUndelivered, Receiver!CacheHoldsUndelivered, RP!IsUndelivered,
      Receiver!IsUndelivered, RP!Last, Receiver!Last
<1> QED BY <1>1, <1>2, <1>3, <1>4, EndsHold, PTL
===============================================================================
