------------------------- MODULE RtpReceiverProofs --------------------------
EXTENDS RtpReceiver, SeqNumProofs, SequenceTheorems, FiniteSetTheorems

(* The cache as a list: descending, and no wider than half the sequence space. *)
WellOrdered(list) ==
  /\ list \in Seq(Packets)
  /\ \A i, j \in 1..Len(list) : i < j => list[j].n < list[i].n
  /\ \A i, j \in 1..Len(list) : list[i].n - list[j].n <= HalfRange

InReachOf(n, list) == \A i \in 1..Len(list) : Within(n, list[i].n, HalfRange)

\* The elements of a packet list are packets: a position and a timeout.
LEMMA PacketListType ==
  ASSUME NEW list \in Seq(Packets)
  PROVE  /\ Len(list) \in Nat
         /\ \A i \in 1..Len(list) : list[i] \in Packets /\ list[i].n \in Nat /\ list[i].n \in Int
<1>1. \A i \in 1..Len(list) : list[i] \in Packets
  OBVIOUS
<1>2. \A p \in Packets : p.n \in Nat
  BY ReceiverAssumption DEF Packets
<1>3. QED BY <1>1, <1>2

\* Inserting a packet keeps the list in order and adds its position only.
LEMMA InsertPacketCorrect ==
  ASSUME NEW list, WellOrdered(list), NEW p \in Packets, InReachOf(p.n, list)
  PROVE  LET r == InsertPacket(list, p)
         IN  /\ WellOrdered(r)
             /\ Len(r) >= 1
             /\ \A n \in Int : (\E i \in 1..Len(r) : r[i].n = n)
                               <=> (n = p.n \/ \E i \in 1..Len(list) : list[i].n = n)
             /\ \A i \in 1..Len(r) : r[i] = p \/ \E k \in 1..Len(list) : r[i] = list[k]
<1> DEFINE r == InsertPacket(list, p)
<1>1. /\ list \in Seq(Packets) /\ Len(list) \in Nat
      /\ p.n \in Int
      /\ \A i \in 1..Len(list) : list[i] \in Packets /\ list[i].n \in Int
  <2>1. list \in Seq(Packets)
    BY DEF WellOrdered
  <2>2. p.n \in Nat
    BY ReceiverAssumption DEF Packets
  <2>3. QED BY <2>1, <2>2, PacketListType
<1>2. \A i \in 1..Len(list) : StopsScan(p, list[i]) <=> list[i].n <= p.n
  <2> TAKE i \in 1..Len(list)
  <2>1. Within(list[i].n, p.n, HalfRange)
    BY DEF InReachOf, Within
  <2>2. /\ SeqAt(list[i].n) = SeqAt(p.n) <=> list[i].n = p.n
        /\ IsSeqAfter(SeqAt(list[i].n), SeqAt(p.n)) <=> list[i].n < p.n
    BY <2>1, <1>1, SeqAtInjective, SeqOrderIsStreamOrder
  <2>3. QED BY <2>2, <1>1 DEF StopsScan, SeqOfPacket
<1>3. CASE list = <<>>
  <2>1. r = <<p>>
    BY <1>3 DEF InsertPacket
  <2>2. QED BY <2>1, <1>3, <1>1, HalfRangeBounds DEF WellOrdered
<1>4. CASE list # <<>> /\ p.n < list[Len(list)].n
  <2>1. Len(list) >= 1 /\ Last(list) = list[Len(list)]
    BY <1>4, <1>1 DEF Last
  <2>2. IsSeqAfter(SeqOfPacket(p), SeqOfPacket(Last(list)))
    BY <2>1, <1>4, <1>1, SeqOrderIsStreamOrder DEF SeqOfPacket, InReachOf
  <2>3. r = Append(list, p)
    BY <2>2 DEF InsertPacket
  <2>4. /\ Len(r) = Len(list) + 1
        /\ r[Len(list) + 1] = p
        /\ \A i \in 1..Len(list) : r[i] = list[i] /\ p.n < list[i].n
    <3>1. \A i \in 1..Len(list) : p.n < list[i].n
      <4> TAKE i \in 1..Len(list)
      <4>1. list[Len(list)].n <= list[i].n
        BY <1>1, <2>1 DEF WellOrdered
      <4>2. QED BY <4>1, <1>4, <1>1, <2>1
    <3>2. QED BY <3>1, <2>3, <1>1
  <2>5. r \in Seq(Packets)
    BY <2>3, <1>1
  <2> HIDE DEF r
  <2>6. WellOrdered(r)
    <3>1. ASSUME NEW i \in 1..Len(r), NEW j \in 1..Len(r), i < j
          PROVE  r[j].n < r[i].n
      <4>1. i \in 1..Len(list) /\ r[i] = list[i]
        BY <3>1, <2>4, <1>1
      <4>2. CASE j = Len(list) + 1
        BY <4>1, <4>2, <2>4
      <4>3. CASE j \in 1..Len(list)
        BY <4>1, <4>3, <3>1, <2>4 DEF WellOrdered
      <4>4. QED BY <4>2, <4>3, <2>4, <1>1
    <3>2. ASSUME NEW i \in 1..Len(r), NEW j \in 1..Len(r)
          PROVE  r[i].n - r[j].n <= HalfRange
      <4>1. \A k \in 1..Len(list) : /\ p.n - list[k].n <= HalfRange
                                    /\ list[k].n - p.n <= HalfRange
                                    /\ r[k] = list[k]
        BY <2>4, <1>1 DEF InReachOf, Within
      <4>2. CASE i = Len(list) + 1 /\ j = Len(list) + 1
        BY <4>2, <2>4, <1>1, HalfRangeBounds
      <4>3. CASE i = Len(list) + 1 /\ j \in 1..Len(list)
        BY <4>1, <4>3, <2>4
      <4>4. CASE i \in 1..Len(list) /\ j = Len(list) + 1
        BY <4>1, <4>4, <2>4
      <4>5. CASE i \in 1..Len(list) /\ j \in 1..Len(list)
        BY <4>1, <4>5 DEF WellOrdered
      <4>6. QED BY <4>2, <4>3, <4>4, <4>5, <2>4, <1>1
    <3>3. QED BY <3>1, <3>2, <2>5 DEF WellOrdered
  <2>7. \A n \in Int : (\E i \in 1..Len(r) : r[i].n = n)
                       <=> (n = p.n \/ \E i \in 1..Len(list) : list[i].n = n)
    BY <2>4, <1>1
  <2>8. QED BY <2>4, <2>6, <2>7, <1>1, SMTT(30) DEF r
<1>5. CASE list # <<>> /\ ~(p.n < list[Len(list)].n)
  <2>1. Len(list) >= 1 /\ Last(list) = list[Len(list)]
    BY <1>5, <1>1 DEF Last
  <2>2. ~IsSeqAfter(SeqOfPacket(p), SeqOfPacket(Last(list)))
    BY <2>1, <1>5, <1>1, SeqOrderIsStreamOrder DEF SeqOfPacket, InReachOf
  <2>3. \E i \in DOMAIN list : StopsScan(p, list[i])
    BY <2>1, <1>1, <1>2, <1>5
  <2> DEFINE IsFirst(i) == /\ StopsScan(p, list[i])
                           /\ \A j \in 1..(i - 1) : ~StopsScan(p, list[j])
             m == CHOOSE i \in DOMAIN list : IsFirst(i)
  <2>4. \E i \in DOMAIN list : IsFirst(i)
    <3> DEFINE stops == {k \in 1..Len(list) : list[k].n <= p.n}
    <3>1. stops # {} /\ stops \in SUBSET Nat
      BY <2>3, <1>1, <1>2
    <3>2. PICK i \in stops : \A j \in stops : i <= j
      BY <3>1, LeastOf
    <3>3. IsFirst(i)
      BY <3>2, <1>1, <1>2
    <3>4. QED BY <3>3, <1>1
  <2>5. m \in 1..Len(list) /\ IsFirst(m)
    <3> HIDE DEF IsFirst
    <3>1. m \in DOMAIN list /\ IsFirst(m)
      BY <2>4, Zenon
    <3>2. DOMAIN list = 1..Len(list)
      BY <1>1
    <3>3. QED BY <3>1, <3>2, Zenon
  <2>6. r = IF SeqOfPacket(list[m]) = SeqOfPacket(p) THEN list
            ELSE SubSeq(list, 1, m - 1) \o <<p>> \o SubSeq(list, m, Len(list))
    BY <1>5, <2>2, <2>3 DEF InsertPacket
  <2>7. /\ list[m].n <= p.n
        /\ \A j \in 1..(m - 1) : p.n < list[j].n
    BY <2>5, <1>1, <1>2
  <2> HIDE DEF IsFirst, m
  <2>8. CASE SeqOfPacket(list[m]) = SeqOfPacket(p)
    <3>1. list[m].n = p.n
      BY <2>5, <2>8, <1>1, SeqAtInjective DEF SeqOfPacket, InReachOf, Within
    <3>2. r = list
      BY <2>6, <2>8
    <3>3. QED BY <3>1, <3>2, <2>1, <2>5
  <2>9. CASE SeqOfPacket(list[m]) # SeqOfPacket(p)
    <3>1. list[m].n < p.n
      <4>1. list[m].n # p.n
        BY <2>9 DEF SeqOfPacket
      <4>2. list[m].n \in Int
        BY <2>5, <1>1
      <4>3. QED BY <4>1, <4>2, <2>7, <1>1
    <3>2. r = SubSeq(list, 1, m - 1) \o <<p>> \o SubSeq(list, m, Len(list))
      BY <2>6, <2>9
    <3>a. /\ r \in Seq(Packets)
          /\ Len(r) = Len(list) + 1
          /\ \A i \in 1..(m - 1) : r[i] = list[i]
          /\ r[m] = p
          /\ \A i \in m..Len(list) : r[i + 1] = list[i]
      BY <3>2, <1>1, <2>5, InsertBeforeFacts
    <3>3. r \in Seq(Packets) /\ Len(r) = Len(list) + 1
      BY <3>a
    <3>4. /\ \A i \in 1..(m - 1) : r[i] = list[i]
          /\ r[m] = p
          /\ \A i \in (m + 1)..(Len(list) + 1) : r[i] = list[i - 1]
      <4>1. ASSUME NEW i \in (m + 1)..(Len(list) + 1)
            PROVE  r[i] = list[i - 1]
        <5>1. i - 1 \in m..Len(list) /\ (i - 1) + 1 = i
          BY <2>5, <1>1
        <5>2. QED BY <5>1, <3>a
      <4>2. QED BY <4>1, <3>a
    <3>5. \A i \in m..Len(list) : list[i].n < p.n
      <4> TAKE i \in m..Len(list)
      <4>1. list[i].n <= list[m].n
        BY <1>1, <2>5 DEF WellOrdered
      <4>2. QED BY <4>1, <3>1, <1>1, <2>5
    <3> HIDE DEF r
    <3>5a. \A k \in 1..Len(r) : r[k] = p \/ \E a \in 1..Len(list) : r[k] = list[a]
      <4> TAKE k \in 1..Len(r)
      <4>1. CASE k < m
        BY <4>1, <3>3, <3>4, <2>5, <1>1
      <4>2. CASE k = m
        BY <4>2, <3>4
      <4>3. CASE k > m
        BY <4>3, <3>3, <3>4, <2>5, <1>1
      <4>4. QED BY <4>1, <4>2, <4>3, <2>5, <3>3
    <3>6. WellOrdered(r)
      <4>1. ASSUME NEW i \in 1..Len(r), NEW j \in 1..Len(r), i < j
            PROVE  r[j].n < r[i].n
        <5>1. CASE i = m
          <6>1. j \in (m + 1)..(Len(list) + 1) /\ j - 1 \in m..Len(list)
            BY <5>1, <4>1, <3>3, <2>5, <1>1
          <6>2. r[i] = p /\ r[j] = list[j - 1]
            BY <6>1, <5>1, <3>4
          <6>3. QED BY <6>1, <6>2, <3>5
        <5>2. CASE j = m
          <6>1. i \in 1..(m - 1)
            BY <5>2, <4>1, <3>3, <2>5, <1>1
          <6>2. r[i] = list[i] /\ r[j] = p
            BY <6>1, <5>2, <3>4
          <6>3. QED BY <6>1, <6>2, <2>7
        <5>3. CASE i # m /\ j # m
          <6>1. CASE j < m
            BY <6>1, <4>1, <3>3, <3>4, <2>5, <1>1 DEF WellOrdered
          <6>2. CASE i < m /\ m < j
            <7>1. /\ i \in 1..Len(list) /\ j - 1 \in 1..Len(list) /\ i < j - 1
                  /\ r[i] = list[i] /\ r[j] = list[j - 1]
              BY <6>2, <3>3, <3>4, <2>5, <1>1
            <7>2. QED BY <7>1 DEF WellOrdered
          <6>3. CASE m < i
            <7>1. /\ i - 1 \in 1..Len(list) /\ j - 1 \in 1..Len(list) /\ i - 1 < j - 1
                  /\ r[i] = list[i - 1] /\ r[j] = list[j - 1]
              BY <6>3, <4>1, <3>3, <3>4, <2>5, <1>1
            <7>2. QED BY <7>1 DEF WellOrdered
          <6>4. QED BY <6>1, <6>2, <6>3, <5>3, <4>1, <2>5, <3>3
        <5>4. QED BY <5>1, <5>2, <5>3
      <4>2. ASSUME NEW i \in 1..Len(r), NEW j \in 1..Len(r)
            PROVE  r[i].n - r[j].n <= HalfRange
        <5>2. \A a \in 1..Len(list) : /\ p.n - list[a].n <= HalfRange
                                      /\ list[a].n - p.n <= HalfRange
          BY DEF InReachOf, Within
        <5>3. p.n - p.n <= HalfRange
          BY <1>1, HalfRangeBounds
        <5>4. \A a, b \in 1..Len(list) : list[a].n - list[b].n <= HalfRange
          BY DEF WellOrdered
        <5>5. QED BY <3>5a, <5>2, <5>3, <5>4
      <4>3. QED BY <4>1, <4>2, <3>3 DEF WellOrdered
    <3>7. \A n \in Int : (\E i \in 1..Len(r) : r[i].n = n)
                         <=> (n = p.n \/ \E i \in 1..Len(list) : list[i].n = n)
      <4> TAKE n \in Int
      <4>1. ASSUME NEW i \in 1..Len(r), r[i].n = n
            PROVE  n = p.n \/ \E k \in 1..Len(list) : list[k].n = n
        BY <4>1, <3>3, <3>4, <2>5, <1>1, SMTT(30)
      <4>2. ASSUME n = p.n
            PROVE  \E i \in 1..Len(r) : r[i].n = n
        <5>1. m \in 1..Len(r) /\ r[m].n = n
          BY <4>2, <3>3, <3>4, <2>5, <1>1
        <5>2. QED BY <5>1
      <4>3. ASSUME NEW k \in 1..Len(list), list[k].n = n
            PROVE  \E i \in 1..Len(r) : r[i].n = n
        <5>1. CASE k < m
          BY <5>1, <4>3, <3>3, <3>4, <2>5, <1>1
        <5>2. CASE k >= m
          <6>1. k + 1 \in 1..Len(r) /\ r[k + 1].n = n
            BY <5>2, <4>3, <3>a, <2>5, <1>1
          <6>2. QED BY <6>1
        <5>3. QED BY <5>1, <5>2, <2>5
      <4>4. QED BY <4>1, <4>2, <4>3
    <3>8. QED BY <3>3, <3>5a, <3>6, <3>7, <1>1 DEF r
  <2>10. QED BY <2>8, <2>9
<1>6. QED BY <1>1, <1>3, <1>4, <1>5
-----------------------------------------------------------------------------
(* Delivery *)

\* The cut is an index of the list where delivery starts, or one past its end.
LEMMA CutOfRange ==
  ASSUME NEW list \in Seq(Packets)
  PROVE  /\ CutOf(list) \in 1..(Len(list) + 1)
         /\ CutOf(list) <= Len(list) => StartsDelivery(list, CutOf(list))
<1> DEFINE IsCut(i) == /\ StartsDelivery(list, i)
                       /\ \A j \in 1..(i - 1) : ~StartsDelivery(list, j)
           starts == {i \in DOMAIN list : StartsDelivery(list, i)}
<1>1. CASE starts = {}
  <2>1. CutOf(list) = Len(list) + 1
    BY <1>1 DEF CutOf
  <2>2. QED BY <2>1
<1>2. CASE starts # {}
  <2>0. starts \in SUBSET Nat
    OBVIOUS
  <2>1. PICK i \in starts : \A j \in starts : i <= j
    BY <1>2, <2>0, LeastOf
  <2>2. i \in DOMAIN list /\ IsCut(i)
    BY <2>1
  <2>3. CutOf(list) = CHOOSE k \in DOMAIN list : IsCut(k)
    BY <1>2 DEF CutOf
  <2>4. CutOf(list) \in DOMAIN list /\ IsCut(CutOf(list))
    <3> HIDE DEF IsCut
    <3> QED BY <2>2, <2>3
  <2>5. QED BY <2>4
<1>3. QED BY <1>1, <1>2

\* What goes out is the list from the cut to the back, reversed.
LEMMA OutgoingFacts ==
  ASSUME NEW list, WellOrdered(list), NEW c \in 1..Len(list)
  PROVE  LET o == Outgoing(list, c)
         IN  /\ o \in Seq(Positions)
             /\ Len(o) = Len(list) - c + 1
             /\ \A i, j \in 1..Len(o) : i < j => o[i] < o[j]
             /\ \A i \in 1..Len(o) : \E k \in c..Len(list) : o[i] = list[k].n
             /\ \A k \in c..Len(list) : \E i \in 1..Len(o) : o[i] = list[k].n
             /\ o[Len(o)] = list[c].n
<1> DEFINE o == Outgoing(list, c)
           L == Len(list)
<1>1. L \in Nat /\ c \in 1..L /\ \A k \in 1..L : list[k].n \in Positions /\ list[k].n \in Int
  <2>1. list \in Seq(Packets)
    BY DEF WellOrdered
  <2>2. \A q \in Packets : q.n \in Positions
    BY DEF Packets
  <2>3. QED BY <2>1, <2>2, PacketListType
<1>2. o = [k \in 1..(L - c + 1) |-> list[L - k + 1].n]
  BY DEF Outgoing
<1>3. \A k \in 1..(L - c + 1) : L - k + 1 \in c..L /\ o[k] = list[L - k + 1].n
  BY <1>1, <1>2
<1>4. o \in Seq(Positions) /\ Len(o) = L - c + 1
  BY <1>1, <1>2, <1>3
<1> HIDE DEF o
<1>5. ASSUME NEW i \in 1..Len(o), NEW j \in 1..Len(o), i < j
      PROVE  o[i] < o[j]
  <2>1. /\ o[i] = list[L - i + 1].n /\ o[j] = list[L - j + 1].n
        /\ L - i + 1 \in 1..L /\ L - j + 1 \in 1..L /\ L - j + 1 < L - i + 1
    BY <1>1, <1>3, <1>4, <1>5
  <2>2. QED BY <2>1 DEF WellOrdered
<1>6. \A k \in c..L : \E i \in 1..Len(o) : o[i] = list[k].n
  <2> TAKE k \in c..L
  <2>1. /\ L - k + 1 \in 1..Len(o)
        /\ L - (L - k + 1) + 1 = k
    BY <1>1, <1>4
  <2>2. o[L - k + 1] = list[k].n
    BY <2>1, <1>3, <1>4
  <2>3. QED BY <2>1, <2>2
<1>7. o[Len(o)] = list[c].n
  <2>1. /\ L - c + 1 \in 1..(L - c + 1)
        /\ L - (L - c + 1) + 1 = c
    BY <1>1
  <2>2. QED BY <2>1, <1>3, <1>4
<1>8. QED BY <1>3, <1>4, <1>5, <1>6, <1>7 DEF o
-----------------------------------------------------------------------------
(* The invariant *)

\* What the cache must be for GetPackets: the accepted positions above the
\* last one delivered, in order and in reach.
Deliverable(list, S) ==
  /\ WellOrdered(list)
  /\ \A n \in Int : (\E i \in 1..Len(list) : list[i].n = n)
                    <=> (n \in S /\ IsUndelivered(n))
  /\ delivered # <<>> =>
       \A i \in 1..Len(list) : /\ Last(delivered) < list[i].n
                               /\ list[i].n - Last(delivered) <= HalfRange

\* The invariant says of the variables what Deliverable says of a list.
LEMMA InvGivesDeliverable == DeliveryInv => Deliverable(cached_packets, arrived)
<1> SUFFICES ASSUME DeliveryInv PROVE Deliverable(cached_packets, arrived)
  OBVIOUS
<1>1. cached_packets \in Seq(Packets)
  BY DEF DeliveryInv, CacheTypeOK
<1>2. WellOrdered(cached_packets)
  BY <1>1 DEF DeliveryInv, CacheHoldsUndelivered, CacheInReach, WellOrdered
<1>3. \A n \in Int : (\E i \in 1..Len(cached_packets) : cached_packets[i].n = n)
                     <=> (n \in arrived /\ IsUndelivered(n))
  BY <1>1 DEF DeliveryInv, CacheHoldsUndelivered
<1>4. QED BY <1>1, <1>2, <1>3 DEF DeliveryInv, CacheInReach, Deliverable

\* After PutPacket the cache is deliverable with the new position accepted.
LEMMA PutKeepsDeliverable ==
  ASSUME DeliveryInv, NEW n \in Positions, WithinReach(n)
  PROVE  Deliverable(CacheAfterPut(n), arrived \cup {n})
<1> DEFINE list == CacheAfterPut(n)
           p == [n |-> n, timeout |-> now + MaxCacheDuration]
<1>1. /\ n \in Int /\ p \in Packets /\ p.n = n
      /\ cached_packets \in Seq(Packets)
      /\ delivered \in Seq(Positions)
      /\ delivered # <<>> => Last(delivered) \in Int
  <2>1. p \in Packets
    BY ReceiverAssumption DEF DeliveryInv, CacheTypeOK, Packets
  <2>2. n \in Nat /\ p.n = n
    BY ReceiverAssumption
  <2>3. cached_packets \in Seq(Packets) /\ delivered \in Seq(Positions)
    BY DEF DeliveryInv, CacheTypeOK
  <2>4. ASSUME delivered # <<>> PROVE Last(delivered) \in Int
    <3>1. Len(delivered) \in 1..Len(delivered)
      BY <2>3, <2>4
    <3>2. delivered[Len(delivered)] \in Positions
      BY <2>3, <3>1
    <3>3. delivered[Len(delivered)] \in Nat
      BY <3>2, ReceiverAssumption
    <3>4. QED BY <3>3 DEF Last
  <2>5. QED BY <2>1, <2>2, <2>3, <2>4
<1>2. Deliverable(cached_packets, arrived)
  BY InvGivesDeliverable
<1>3. InReachOf(n, cached_packets)
  BY <1>1 DEF WithinReach, InReachOf, Within
<1>4. ~IsLate(SeqAt(n)) <=> (delivered # <<>> => Last(delivered) < n)
  <2>1. CASE delivered = <<>>
    BY <2>1 DEF IsLate, DeliveryInv, CacheInReach
  <2>2. CASE delivered # <<>>
    <3>1. has_callback_packet /\ latest_callback_seq = SeqAt(Last(delivered))
      BY <2>2 DEF DeliveryInv, CacheInReach
    <3>2. Within(Last(delivered), n, HalfRange)
      BY <2>2 DEF WithinReach, Within
    <3>3. IsSeqAfter(SeqAt(Last(delivered)), SeqAt(n)) <=> Last(delivered) < n
      BY <3>2, <2>2, <1>1, SeqOrderIsStreamOrder
    <3>4. QED BY <3>1, <3>3, <2>2 DEF IsLate
  <2>3. QED BY <2>1, <2>2
<1>5. CASE IsLate(SeqAt(n))
  <2>1. list = cached_packets
    BY <1>5 DEF CacheAfterPut
  <2>2. ~IsUndelivered(n)
    BY <1>4, <1>5 DEF IsUndelivered
  <2>3. QED BY <2>1, <2>2, <1>2 DEF Deliverable
<1>6. CASE ~IsLate(SeqAt(n))
  <2>1. list = InsertPacket(cached_packets, p)
    BY <1>6 DEF CacheAfterPut
  <2>2. /\ WellOrdered(list)
        /\ \A m \in Int : (\E i \in 1..Len(list) : list[i].n = m)
                          <=> (m = n \/ \E i \in 1..Len(cached_packets) : cached_packets[i].n = m)
    <3>1. WellOrdered(cached_packets) /\ InReachOf(p.n, cached_packets)
      BY <1>1, <1>2, <1>3 DEF Deliverable
    <3> HIDE DEF p, list
    <3> DEFINE r == InsertPacket(cached_packets, p)
    <3>2. /\ WellOrdered(r)
          /\ \A m \in Int : (\E i \in 1..Len(r) : r[i].n = m)
                            <=> (m = p.n \/ \E i \in 1..Len(cached_packets) : cached_packets[i].n = m)
      BY <3>1, <1>1, InsertPacketCorrect
    <3>3. QED BY <3>2, <2>1, <1>1
  <2>3. IsUndelivered(n)
    BY <1>4, <1>6 DEF IsUndelivered
  <2> HIDE DEF list, p
  <2>4. \A m \in Int : (\E i \in 1..Len(list) : list[i].n = m)
                       <=> (m \in arrived \cup {n} /\ IsUndelivered(m))
    BY <2>2, <2>3, <1>2 DEF Deliverable
  <2>5. ASSUME delivered # <<>>, NEW i \in 1..Len(list)
        PROVE  Last(delivered) < list[i].n /\ list[i].n - Last(delivered) <= HalfRange
    <3>1. list[i].n \in Int
      BY <2>2, PacketListType DEF WellOrdered
    <3>2. list[i].n = n \/ \E k \in 1..Len(cached_packets) : cached_packets[k].n = list[i].n
      BY <2>2, <3>1
    <3>3. CASE list[i].n = n
      BY <3>3, <2>5, <1>4, <1>6 DEF WithinReach
    <3>4. CASE \E k \in 1..Len(cached_packets) : cached_packets[k].n = list[i].n
      BY <3>4, <2>5, <1>2 DEF Deliverable
    <3>5. QED BY <3>2, <3>3, <3>4
  <2>6. QED BY <2>2, <2>4, <2>5 DEF Deliverable, list
<1>7. QED BY <1>5, <1>6

\* The last element of a sequence that is not empty.
LEMMA LastOfSeq ==
  ASSUME NEW S, NEW s \in Seq(S), s # <<>>
  PROVE  Len(s) \in Nat \ {0} /\ Last(s) = s[Len(s)] /\ Last(s) \in S
<1>1. Len(s) \in Nat \ {0} /\ Len(s) \in 1..Len(s)
  OBVIOUS
<1>2. s[Len(s)] \in S
  BY <1>1
<1>3. QED BY <1>1, <1>2 DEF Last

\* One delivery: what stays in the cache, what the user gets, and that the
\* whole is a step of InOrderDelivery.
LEMMA GetPacketsStep ==
  ASSUME DeliveryInv, NEW n \in Positions, NEW list,
         Deliverable(list, arrived \cup {n}), GetPackets(list),
         arrived' = arrived \cup {n}
  PROVE  /\ cached_packets' \in Seq(Packets) /\ delivered' \in Seq(Positions)
         /\ latest_callback_seq' \in SeqNums /\ has_callback_packet' \in BOOLEAN
         /\ DeliveredInOrder' /\ CacheHoldsUndelivered' /\ CacheInReach'
         /\ Abstract!Arrive(n)
         /\ IF CutOf(list) > Len(list) THEN delivered' = delivered
            ELSE delivered' # <<>> /\ Last(delivered') = list[CutOf(list)].n
<1> DEFINE cut == CutOf(list)
           out == Outgoing(list, cut)
           S == arrived \cup {n}
<1>1. /\ WellOrdered(list) /\ list \in Seq(Packets) /\ Len(list) \in Nat
      /\ \A i \in 1..Len(list) : /\ list[i] \in Packets
                                 /\ list[i].n \in Positions /\ list[i].n \in Int
      /\ cut \in 1..(Len(list) + 1)
  <2>1. list \in Seq(Packets) /\ WellOrdered(list)
    BY DEF Deliverable, WellOrdered
  <2>2. \A q \in Packets : q.n \in Positions
    BY DEF Packets
  <2>3. QED BY <2>1, <2>2, PacketListType, CutOfRange
<1>2. /\ cached_packets' = SubSeq(list, 1, cut - 1)
      /\ delivered' = delivered \o out
      /\ cut <= Len(list) => /\ latest_callback_seq' = SeqOfPacket(list[cut])
                             /\ has_callback_packet' = TRUE
      /\ cut > Len(list) => UNCHANGED <<latest_callback_seq, has_callback_packet>>
  BY <1>1 DEF GetPackets
<1>3. /\ delivered \in Seq(Positions) /\ DeliveredInOrder
      /\ latest_callback_seq \in SeqNums /\ has_callback_packet \in BOOLEAN
      /\ has_callback_packet <=> delivered # <<>>
      /\ delivered # <<>> => latest_callback_seq = SeqAt(Last(delivered))
      /\ Positions \subseteq Int /\ S \subseteq Positions
      /\ DOMAIN delivered = 1..Len(delivered)
      /\ \A i \in 1..Len(delivered) : delivered[i] \in Int
  <2>1. /\ delivered \in Seq(Positions) /\ DeliveredInOrder
        /\ latest_callback_seq \in SeqNums /\ has_callback_packet \in BOOLEAN
        /\ has_callback_packet <=> delivered # <<>>
        /\ delivered # <<>> => latest_callback_seq = SeqAt(Last(delivered))
        /\ S \subseteq Positions
    BY DEF DeliveryInv, CacheTypeOK, CacheInReach
  <2>2. Positions \subseteq Int
    BY ReceiverAssumption
  <2>3. \A i \in 1..Len(delivered) : delivered[i] \in Positions
    BY <2>1
  <2>4. \A i \in 1..Len(delivered) : delivered[i] \in Int
    BY <2>2, <2>3
  <2>5. DOMAIN delivered = 1..Len(delivered)
    BY <2>1
  <2>6. QED BY <2>1, <2>2, <2>4, <2>5
<1>4. \A m \in Int : (\E i \in 1..Len(list) : list[i].n = m) <=> (m \in S /\ IsUndelivered(m))
  BY DEF Deliverable
<1>5. \A m \in Int : IsUndelivered(m) <=> \A i \in 1..Len(delivered) : delivered[i] < m
  <2> TAKE m \in Int
  <2>1. CASE delivered = <<>>
    BY <2>1 DEF IsUndelivered
  <2>2. CASE delivered # <<>>
    <3>1. Len(delivered) \in Nat \ {0} /\ Last(delivered) = delivered[Len(delivered)]
      BY <2>2, <1>3, LastOfSeq
    <3>2. \A i \in 1..Len(delivered) : delivered[i] \in Int
      BY <1>3
    <3>3. \A i \in 1..Len(delivered) : delivered[i] <= delivered[Len(delivered)]
      BY <3>1, <3>2, <1>3 DEF DeliveredInOrder
    <3>4. QED BY <3>1, <3>2, <3>3, <2>2 DEF IsUndelivered
  <2>3. QED BY <2>1, <2>2
<1>6. Abstract!Undelivered(arrived') = {list[i].n : i \in 1..Len(list)}
  <2>1. Abstract!Undelivered(arrived') = {m \in S : IsUndelivered(m)}
    <3>1. Abstract!Undelivered(S) = {m \in S : \A i \in 1..Len(delivered) : delivered[i] < m}
      BY <1>3 DEF Abstract!Undelivered
    <3>2. \A m \in S : m \in Int
      BY <1>3
    <3>3. QED BY <3>1, <3>2, <1>5
  <2>2. QED BY <2>1, <1>1, <1>3, <1>4
<1> HIDE DEF cut
<1>7. CASE cut = Len(list) + 1
  <2>1. out = <<>>
    BY <1>7, <1>1 DEF Outgoing
  <2>2. delivered' = delivered /\ UNCHANGED <<latest_callback_seq, has_callback_packet>>
    BY <2>1, <1>1, <1>2, <1>3, <1>7
  <2>3. cached_packets' = list
    BY <1>1, <1>2, <1>7, SubSeqFull
  <2>4. DeliveredInOrder'
    BY <2>2, <1>3 DEF DeliveredInOrder
  <2>5. CacheHoldsUndelivered'
    <3>1. \A m \in S : m \in Int
      BY <1>3
    <3>2. {list[i].n : i \in 1..Len(list)} = {m \in S : IsUndelivered(m)}
      BY <3>1, <1>1, <1>4
    <3>3. \A i, j \in 1..Len(list) : i < j => list[i].n > list[j].n
      BY <1>1 DEF WellOrdered
    <3>4. {m \in S : IsUndelivered(m)} = {m \in arrived' : IsUndelivered(m)'}
      BY <2>2 DEF IsUndelivered
    <3>5. DOMAIN cached_packets' = 1..Len(list)
      BY <2>3, <1>1
    <3> HIDE DEF S
    <3>6. QED
      BY <2>3, <3>2, <3>3, <3>4, <3>5 DEF CacheHoldsUndelivered
  <2>6. CacheInReach'
    <3>1. \A i, j \in 1..Len(list) : list[i].n - list[j].n <= HalfRange
      BY <1>1 DEF WellOrdered
    <3>2. has_callback_packet' <=> delivered' # <<>>
      BY <2>2, <1>3
    <3>3. DOMAIN cached_packets' = 1..Len(list)
      BY <2>3, <1>1
    <3>4. delivered' # <<>> =>
            /\ latest_callback_seq' = SeqAt(Last(delivered'))
            /\ \A i \in 1..Len(list) :
                 /\ Last(delivered') < cached_packets'[i].n
                 /\ cached_packets'[i].n - Last(delivered') <= HalfRange
      BY <2>2, <2>3, <1>3 DEF Deliverable
    <3>5. QED BY <2>3, <3>1, <3>2, <3>3, <3>4 DEF CacheInReach
  <2>7. Abstract!Arrive(n)
    <3>1. /\ Len(delivered') >= Len(delivered)
          /\ SubSeq(delivered', 1, Len(delivered)) = delivered
          /\ SubSeq(delivered', Len(delivered) + 1, Len(delivered')) = <<>>
      BY <2>2, <1>3, SubSeqFull
    <3>2. QED BY <3>1 DEF Abstract!Arrive
  <2>8. QED BY <2>2, <2>3, <2>4, <2>5, <2>6, <2>7, <1>1, <1>3, <1>7 DEF cut
<1>8. CASE cut \in 1..Len(list)
  <2>1. /\ out \in Seq(Positions) /\ Len(out) = Len(list) - cut + 1
        /\ \A i, j \in 1..Len(out) : i < j => out[i] < out[j]
        /\ \A i \in 1..Len(out) : \E k \in cut..Len(list) : out[i] = list[k].n
        /\ \A k \in cut..Len(list) : \E i \in 1..Len(out) : out[i] = list[k].n
        /\ out[Len(out)] = list[cut].n
    BY <1>1, <1>8, OutgoingFacts
  <2> HIDE DEF out
  <2>2. /\ delivered' \in Seq(Positions)
        /\ Len(delivered') = Len(delivered) + Len(out)
        /\ \A i \in 1..Len(delivered) : delivered'[i] = delivered[i]
        /\ \A i \in 1..Len(out) : delivered'[Len(delivered) + i] = out[i]
        /\ Len(delivered) \in Nat /\ Len(out) \in Nat \ {0}
    <3>1. Len(delivered) \in Nat /\ Len(out) \in Nat \ {0}
      <4>1. Len(delivered) \in Nat
        BY <1>3
      <4>2. Len(out) \in Nat \ {0}
        <5>1. Len(out) = Len(list) - cut + 1
          BY <2>1
        <5>2. QED BY <5>1, <1>1, <1>8
      <4>3. QED BY <4>1, <4>2
    <3>2. /\ delivered' \in Seq(Positions)
          /\ Len(delivered') = Len(delivered) + Len(out)
          /\ \A i \in 1..Len(delivered) + Len(out) :
               delivered'[i] = IF i <= Len(delivered) THEN delivered[i] ELSE out[i - Len(delivered)]
      <4>1. delivered \in Seq(Positions) /\ out \in Seq(Positions)
        BY <1>3, <2>1
      <4>2. delivered' = delivered \o out
        BY <1>2
      <4>3. QED BY <4>1, <4>2, ConcatProperties
    <3>3. ASSUME NEW i \in 1..Len(out)
          PROVE  delivered'[Len(delivered) + i] = out[i]
      <4>1. /\ Len(delivered) + i \in 1..Len(delivered) + Len(out)
            /\ ~(Len(delivered) + i <= Len(delivered))
            /\ Len(delivered) + i - Len(delivered) = i
        BY <3>1
      <4>2. QED BY <4>1, <3>2
    <3>4. QED BY <3>1, <3>2, <3>3
  <2>3. delivered' # <<>> /\ Last(delivered') = list[cut].n
    <3> DEFINE len == Len(delivered)
    <3>1. /\ len \in Nat /\ Len(out) \in Nat \ {0} /\ Len(delivered') = len + Len(out)
          /\ delivered' \in Seq(Positions)
      BY <2>2
    <3>2. Len(out) \in 1..Len(out)
      BY <3>1
    <3>3. delivered'[len + Len(out)] = out[Len(out)]
      BY <3>2, <2>2
    <3>4. out[Len(out)] = list[cut].n
      BY <2>1
    <3>5. delivered' # <<>>
      <4> HIDE DEF len
      <4>1. Len(delivered') # 0
        BY <3>1
      <4>2. QED BY <4>1
    <3>6. Last(delivered') = delivered'[Len(delivered')]
      BY DEF Last
    <3>7. Last(delivered') = delivered'[len + Len(out)]
      BY <3>6, <3>1, Zenon
    <3>8. QED BY <3>3, <3>4, <3>5, <3>7, Zenon
  <2>4. /\ cached_packets' \in Seq(Packets) /\ Len(cached_packets') = cut - 1
        /\ \A i \in 1..(cut - 1) : cached_packets'[i] = list[i]
    BY <1>1, <1>2, <1>8
  <2>5. /\ latest_callback_seq' = SeqAt(Last(delivered')) /\ latest_callback_seq' \in SeqNums
        /\ has_callback_packet' = TRUE
    <3>1. list[cut].n \in Int
      BY <1>1, <1>8
    <3>2. QED BY <3>1, <2>3, <1>1, <1>2, <1>8, SeqAtType DEF SeqOfPacket
  <2>6. DeliveredInOrder'
    <3>1. \A i \in 1..Len(delivered), k \in 1..Len(out) : delivered[i] < out[k]
      <4> TAKE i \in 1..Len(delivered), k \in 1..Len(out)
      <4>1. PICK q \in cut..Len(list) : out[k] = list[q].n
        BY <2>1
      <4>2. q \in 1..Len(list) /\ list[q].n \in Int
        BY <1>1, <1>8
      <4>3. IsUndelivered(list[q].n)
        BY <4>2, <1>4
      <4>4. QED BY <4>1, <4>2, <4>3, <1>5
    <3>2. ASSUME NEW i \in 1..Len(delivered'), NEW j \in 1..Len(delivered'), i < j
          PROVE  delivered'[i] < delivered'[j]
      <4>1. CASE j <= Len(delivered)
        <5>1. i \in 1..Len(delivered) /\ j \in 1..Len(delivered)
          BY <4>1, <3>2, <2>2
        <5>2. delivered[i] < delivered[j]
          BY <5>1, <3>2, <1>3 DEF DeliveredInOrder
        <5>3. QED BY <5>1, <5>2, <2>2
      <4>2. CASE i <= Len(delivered) /\ j > Len(delivered)
        <5>1. j - Len(delivered) \in 1..Len(out) /\ Len(delivered) + (j - Len(delivered)) = j
          BY <4>2, <2>2
        <5>2. delivered'[j] = out[j - Len(delivered)] /\ delivered'[i] = delivered[i]
          BY <5>1, <4>2, <2>2
        <5>3. QED BY <5>1, <5>2, <4>2, <3>1
      <4>3. CASE i > Len(delivered)
        <5>1. /\ j - Len(delivered) \in 1..Len(out) /\ Len(delivered) + (j - Len(delivered)) = j
              /\ i - Len(delivered) \in 1..Len(out) /\ Len(delivered) + (i - Len(delivered)) = i
              /\ i - Len(delivered) < j - Len(delivered)
          BY <4>3, <3>2, <2>2
        <5>2. delivered'[j] = out[j - Len(delivered)] /\ delivered'[i] = out[i - Len(delivered)]
          BY <5>1, <2>2
        <5>3. QED BY <5>1, <5>2, <2>1
      <4>4. QED BY <4>1, <4>2, <4>3, <2>2
    <3>3. DOMAIN delivered' = 1..Len(delivered')
      BY <2>2
    <3>4. QED BY <3>2, <3>3 DEF DeliveredInOrder
  <2>7. CacheHoldsUndelivered'
    <3>1. \A i, j \in 1..(cut - 1) : i < j => cached_packets'[i].n > cached_packets'[j].n
      <4> TAKE i \in 1..(cut - 1), j \in 1..(cut - 1)
      <4>1. i \in 1..Len(list) /\ j \in 1..Len(list)
        BY <1>1, <1>8
      <4>2. i < j => list[i].n > list[j].n
        BY <4>1, <1>1 DEF WellOrdered
      <4>3. QED BY <4>2, <2>4
    <3>2. \A i \in 1..(cut - 1) : list[i].n \in S /\ list[cut].n < list[i].n
      <4> TAKE i \in 1..(cut - 1)
      <4>1. i \in 1..Len(list) /\ i < cut
        BY <1>1, <1>8
      <4>2. QED BY <4>1, <1>1, <1>4, <1>8 DEF WellOrdered
    <3>3. ASSUME NEW m \in S, list[cut].n < m
          PROVE  \E i \in 1..(cut - 1) : list[i].n = m
      <4>1. m \in Int /\ list[cut].n \in Int
        BY <1>1, <1>3, <1>8
      <4>2. IsUndelivered(list[cut].n)
        BY <4>1, <1>4, <1>8
      <4>3. \A i \in 1..Len(delivered) : delivered[i] \in Int
        BY <1>3
      <4>4. IsUndelivered(m)
        BY <4>1, <4>2, <4>3, <3>3, <1>5
      <4>5. PICK i \in 1..Len(list) : list[i].n = m
        BY <4>1, <4>4, <1>4
      <4>6. i < cut
        <5>1. cut < i => list[i].n < list[cut].n
          BY <1>1, <1>8 DEF WellOrdered
        <5>2. QED BY <5>1, <4>1, <4>5, <3>3, <1>1, <1>8
      <4>7. QED BY <4>5, <4>6, <1>1, <1>8
    <3>4. {cached_packets'[i].n : i \in 1..(cut - 1)} = {m \in S : list[cut].n < m}
      <4>1. {list[i].n : i \in 1..(cut - 1)} = {m \in S : list[cut].n < m}
        BY <3>2, <3>3
      <4>2. QED BY <4>1, <2>4
    <3>5. DOMAIN cached_packets' = 1..(cut - 1)
      BY <2>4
    <3>6. QED
      BY <3>1, <3>4, <3>5, <2>3 DEF CacheHoldsUndelivered, IsUndelivered
  <2>8. CacheInReach'
    <3>1. \A i, j \in 1..(cut - 1) : cached_packets'[i].n - cached_packets'[j].n <= HalfRange
      <4> TAKE i \in 1..(cut - 1), j \in 1..(cut - 1)
      <4>1. i \in 1..Len(list) /\ j \in 1..Len(list)
        BY <1>1, <1>8
      <4>2. list[i].n - list[j].n <= HalfRange
        BY <4>1, <1>1 DEF WellOrdered
      <4>3. QED BY <4>2, <2>4
    <3>2. \A i \in 1..(cut - 1) : /\ list[cut].n < cached_packets'[i].n
                                  /\ cached_packets'[i].n - list[cut].n <= HalfRange
      <4> TAKE i \in 1..(cut - 1)
      <4>1. i \in 1..Len(list) /\ i < cut
        BY <1>1, <1>8
      <4>2. list[cut].n < list[i].n /\ list[i].n - list[cut].n <= HalfRange
        BY <4>1, <1>1, <1>8 DEF WellOrdered
      <4>3. QED BY <4>2, <2>4
    <3>3. DOMAIN cached_packets' = 1..(cut - 1)
      BY <2>4
    <3>4. QED BY <3>1, <3>2, <3>3, <2>3, <2>5 DEF CacheInReach
  <2>9. Abstract!Arrive(n)
    <3> DEFINE new == SubSeq(delivered', Len(delivered) + 1, Len(delivered'))
               held == Abstract!Undelivered(arrived')
               c == list[cut].n
    <3>1. /\ Len(delivered') >= Len(delivered)
          /\ SubSeq(delivered', 1, Len(delivered)) = delivered
      BY <1>3, <2>2
    <3>2. new = out
      <4>1. new \in Seq(Positions) /\ Len(new) = Len(out)
        BY <2>2
      <4>2. \A i \in 1..Len(out) : new[i] = out[i]
        BY <2>2
      <4>3. QED BY <4>1, <4>2, <2>1, SeqEqual
    <3>3. c \in held
      BY <1>6, <1>8
    <3>4. Abstract!ListsInOrder(out, {m \in held : m <= c})
      <4>1. \A i \in 1..Len(out) : out[i] \in {m \in held : m <= c}
        <5> TAKE i \in 1..Len(out)
        <5>1. PICK k \in cut..Len(list) : out[i] = list[k].n
          BY <2>1
        <5>2. k \in 1..Len(list)
          BY <1>1, <1>8
        <5>3. list[k].n <= c
          BY <5>2, <1>1, <1>8 DEF WellOrdered
        <5>4. QED BY <5>1, <5>2, <5>3, <1>6
      <4>2. \A m \in held : m <= c => \E i \in 1..Len(out) : out[i] = m
        <5> SUFFICES ASSUME NEW m \in held, m <= c
                     PROVE  \E i \in 1..Len(out) : out[i] = m
          OBVIOUS
        <5>1. PICK k \in 1..Len(list) : list[k].n = m
          BY <1>6
        <5>2. cut <= k
          <6>1. k < cut => c < list[k].n
            BY <1>1, <1>8 DEF WellOrdered
          <6>2. QED BY <6>1, <5>1, <1>1, <1>8
        <5>3. k \in cut..Len(list)
          BY <5>2, <1>1, <1>8
        <5>4. QED BY <5>1, <5>3, <2>1
      <4>3. DOMAIN out = 1..Len(out)
        BY <2>1
      <4>4. QED BY <4>1, <4>2, <4>3, <2>1 DEF Abstract!ListsInOrder
    <3>5. QED BY <3>1, <3>2, <3>3, <3>4 DEF Abstract!Arrive
  <2>10. QED BY <2>2, <2>3, <2>4, <2>5, <2>6, <2>7, <2>8, <2>9, <1>1, <1>8 DEF cut
<1>9. QED BY <1>1, <1>7, <1>8
-----------------------------------------------------------------------------
(* The theorems *)

\* The extended counters of the receiver reports stay naturals.
LEMMA ExtendedCountersType ==
  ASSUME NEW s \in SeqNums, extended_highest_seq \in Nat, extended_first_seq \in Nat
  PROVE  HighestAfter(s) \in Nat /\ FirstAfter(s) \in Nat
<1> DEFINE cycles == extended_highest_seq \div SeqSpace
<1>1. s \in Nat /\ SeqSpace \in Nat
  BY SeqSpaceAssumption DEF SeqNums
<1>2. cycles \in Nat
  BY SeqSpaceAssumption
<1>3. cycles * SeqSpace \in Nat /\ (cycles + 1) * SeqSpace \in Nat
  <2> HIDE DEF cycles
  <2>1. QED BY <1>1, <1>2
<1>4. HighestAfter(s) \in {s, extended_highest_seq, (cycles + 1) * SeqSpace + s,
                           cycles * SeqSpace + s}
  BY DEF HighestAfter
<1>5. QED
  BY <1>1, <1>3, <1>4 DEF FirstAfter

\* The invariant holds at the start.
LEMMA InitInv == Init => DeliveryInv
<1> SUFFICES ASSUME Init PROVE DeliveryInv
  OBVIOUS
<1>1. CacheTypeOK
  <2>1. 0 \in SeqNums
    BY SeqSpaceAssumption DEF SeqNums
  <2>2. 0 \in 0..MaxTime /\ 0 \in 0..MaxReceived
    BY ReceiverAssumption
  <2>3. <<>> \in Seq(Packets) /\ <<>> \in Seq(Positions)
    OBVIOUS
  <2>4. QED BY <2>1, <2>2, <2>3 DEF Init, CacheTypeOK
<1>2. DeliveredInOrder /\ CacheHoldsUndelivered /\ CacheInReach
  BY DEF Init, DeliveredInOrder, CacheHoldsUndelivered, CacheInReach
<1>3. QED BY <1>1, <1>2 DEF DeliveryInv

\* Every step keeps the invariant and is a step of InOrderDelivery.
LEMMA NextInv ==
  DeliveryInv /\ [Next]_vars => DeliveryInv' /\ [Abstract!Next]_<<arrived, delivered>>
<1> SUFFICES ASSUME DeliveryInv, [Next]_vars
             PROVE  DeliveryInv' /\ [Abstract!Next]_<<arrived, delivered>>
  OBVIOUS
<1>1. ASSUME NEW n \in Positions, NEW kind \in Kinds, OnRtpPacket(n, kind)
      PROVE  DeliveryInv' /\ [Abstract!Next]_<<arrived, delivered>>
  <2> DEFINE list == CacheAfterPut(n)
  <2>1. /\ WithinReach(n) /\ GetPackets(list) /\ arrived' = arrived \cup {n}
        /\ now' = now /\ nb_received_real' = nb_received_real + 1
        /\ nb_received_real < MaxReceived
        /\ \/ UNCHANGED <<has_cached_packet, extended_highest_seq, extended_first_seq>>
           \/ /\ has_cached_packet' = TRUE
              /\ extended_highest_seq' = HighestAfter(SeqAt(n))
              /\ extended_first_seq' = FirstAfter(SeqAt(n))
    BY <1>1 DEF OnRtpPacket
  <2>2. Deliverable(list, arrived \cup {n})
    BY <2>1, PutKeepsDeliverable
  <2> HIDE DEF list
  <2>3. /\ cached_packets' \in Seq(Packets) /\ delivered' \in Seq(Positions)
        /\ latest_callback_seq' \in SeqNums /\ has_callback_packet' \in BOOLEAN
        /\ DeliveredInOrder' /\ CacheHoldsUndelivered' /\ CacheInReach'
        /\ Abstract!Arrive(n)
    BY <2>1, <2>2, GetPacketsStep
  <2>4. SeqAt(n) \in SeqNums
    BY ReceiverAssumption, SeqAtType
  <2>5. /\ extended_highest_seq' \in Nat /\ extended_first_seq' \in Nat
        /\ has_cached_packet' \in BOOLEAN
    BY <2>1, <2>4, ExtendedCountersType DEF DeliveryInv, CacheTypeOK
  <2>6. /\ now' \in 0..MaxTime /\ nb_received_real' \in 0..MaxReceived
        /\ arrived' \subseteq Positions
    BY <2>1, ReceiverAssumption DEF DeliveryInv, CacheTypeOK
  <2>7. CacheTypeOK'
    BY <2>3, <2>5, <2>6 DEF CacheTypeOK
  <2>8. QED BY <2>3, <2>7 DEF DeliveryInv, Abstract!Next
<1>2. CASE UNCHANGED vars
  BY <1>2 DEF vars, cacheVars, DeliveryInv, CacheTypeOK, DeliveredInOrder,
              CacheHoldsUndelivered, CacheInReach, IsUndelivered
<1>3. CASE Tick
  <2>1. CacheTypeOK'
    BY <1>3, ReceiverAssumption DEF Tick, cacheVars, DeliveryInv, CacheTypeOK
  <2>2. (DeliveredInOrder /\ CacheHoldsUndelivered /\ CacheInReach)'
    BY <1>3 DEF Tick, cacheVars, DeliveryInv, DeliveredInOrder,
                CacheHoldsUndelivered, CacheInReach, IsUndelivered
  <2>3. UNCHANGED <<arrived, delivered>>
    BY <1>3 DEF Tick
  <2>4. QED BY <2>1, <2>2, <2>3 DEF DeliveryInv
<1>4. ASSUME NEW kind \in Kinds, RejectRtpPacket(kind)
      PROVE  UNCHANGED vars
  BY <1>4 DEF RejectRtpPacket
<1>5. QED BY <1>1, <1>2, <1>3, <1>4 DEF Next

\* DeliveryInv is an invariant: InitInv and NextInv, by induction on the steps.
LEMMA InvHolds == Spec => []DeliveryInv
<1>1. DeliveryInv /\ [Next]_vars => DeliveryInv'
  BY NextInv
<1>2. QED BY <1>1, InitInv, PTL DEF Spec

\* The variables of the delivery path keep their types.
THEOREM CacheTypeCorrect == Spec => []CacheTypeOK
<1>1. DeliveryInv => CacheTypeOK
  BY DEF DeliveryInv
<1>2. QED BY <1>1, InvHolds, PTL

\* The user gets the packets in the order of the stream, each at most once,
\* for every modulus and whatever the network reorders within reach.
THEOREM InOrder == Spec => []DeliveredInOrder
<1>1. DeliveryInv => DeliveredInOrder
  BY DEF DeliveryInv
<1>2. QED BY <1>1, InvHolds, PTL

\* The cache holds exactly the accepted packets that can still be delivered.
THEOREM NoPacketLost == Spec => []CacheHoldsUndelivered
<1>1. DeliveryInv => CacheHoldsUndelivered
  BY DEF DeliveryInv
<1>2. QED BY <1>1, InvHolds, PTL

\* The cache never grows beyond what 16-bit numbers can order.
THEOREM ReachKept == Spec => []CacheInReach
<1>1. DeliveryInv => CacheInReach
  BY DEF DeliveryInv
<1>2. QED BY <1>1, InvHolds, PTL

\* The receiver implements InOrderDelivery.
THEOREM Refinement == Spec => ImplementsInOrderDelivery
<1>1. Init => Abstract!Init
  BY DEF Init, Abstract!Init
<1>2. DeliveryInv /\ [Next]_vars => [Abstract!Next]_<<arrived, delivered>>
  BY NextInv
<1>3. QED
  BY <1>1, <1>2, InvHolds, PTL DEF Spec, ImplementsInOrderDelivery, Abstract!Spec
-----------------------------------------------------------------------------
(* The counters of the receiver reports *)

\* hi and lo are the last and the first position in S.
Spans(S, hi, lo) ==
  /\ hi \in S /\ lo \in S
  /\ \A m \in S : lo <= m /\ m <= hi

\* extended_highest_seq stands for hi, some whole cycles of the counter behind
\* it, and extended_first_seq, the same cycles behind, is not before lo.
CountersFit(hi, lo) ==
  /\ SeqAt(extended_highest_seq) = SeqAt(hi)
  /\ lo - (hi - extended_highest_seq) <= extended_first_seq

\* The inductive invariant of the report's counters.
StatsInv ==
  /\ IsFiniteSet(arrived) /\ Cardinality(arrived) <= nb_received_real
  /\ has_cached_packet <=> arrived # {}
  /\ delivered # <<>> => Last(delivered) \in arrived
  /\ arrived # {} => /\ Spans(arrived, MaxOf(arrived), MinOf(arrived))
                     /\ CountersFit(MaxOf(arrived), MinOf(arrived))

\* The bounds of a set, once known, are what MaxOf and MinOf choose.
LEMMA SpansAreBounds ==
  ASSUME NEW S \in SUBSET Int, NEW hi, NEW lo, Spans(S, hi, lo)
  PROVE  MaxOf(S) = hi /\ MinOf(S) = lo
<1>1. \A n \in S : (\A m \in S : m <= n) => n = hi
  BY DEF Spans
<1>2. \A n \in S : (\A m \in S : n <= m) => n = lo
  BY DEF Spans
<1>3. MaxOf(S) = hi
  BY <1>1 DEF Spans, MaxOf
<1>4. MinOf(S) = lo
  BY <1>2 DEF Spans, MinOf
<1> QED BY <1>3, <1>4

\* The extended highest number moves by as much as the last position does.
LEMMA HighestMoves ==
  ASSUME extended_highest_seq \in Nat, has_cached_packet,
         NEW hi \in Int, NEW n \in Int, Within(n, hi, HalfRange),
         SeqAt(extended_highest_seq) = SeqAt(hi)
  PROVE  HighestAfter(SeqAt(n)) =
           IF hi < n THEN extended_highest_seq + (n - hi) ELSE extended_highest_seq
<1> DEFINE latest == extended_highest_seq % SeqSpace
           cycles == extended_highest_seq \div SeqSpace
           s == SeqAt(n)
<1>1. IsSeqAfter(latest, s) <=> hi < n
  <2>1. latest = SeqAt(hi)
    BY DEF SeqAt
  <2>2. Within(hi, n, HalfRange)
    BY DEF Within
  <2> QED BY <2>1, <2>2, SeqOrderIsStreamOrder
<1>2. CASE ~(hi < n)
  BY <1>1, <1>2 DEF HighestAfter
<1>3. CASE hi < n
  <2>0. latest = SeqAt(hi)
    BY DEF SeqAt
  <2>1. \/ s - latest = n - hi
        \/ s - latest = n - hi - SeqSpace
    BY <1>3, <2>0, NeighbourCycles, HalfRangeBounds, SeqSpaceAssumption DEF Within
  <2>2. s \in 0..(SeqSpace - 1) /\ latest \in 0..(SeqSpace - 1)
    BY <2>0, SeqAtType DEF SeqNums
  <2>3. HighestAfter(s) = (IF s < latest THEN cycles + 1 ELSE cycles) * SeqSpace + s
    BY <1>1, <1>3 DEF HighestAfter
  <2>4. cycles \in Int /\ extended_highest_seq = SeqSpace * cycles + latest
    <3>1. extended_highest_seq \in Int
      OBVIOUS
    <3> QED BY <3>1, DivisionFacts DEF SeqAt
  <2> DEFINE base == cycles * SeqSpace
  <2>5. base \in Int /\ base = SeqSpace * cycles /\ (cycles + 1) * SeqSpace = base + SeqSpace
    <3> HIDE DEF cycles
    <3> QED BY <2>4, SeqSpaceAssumption
  <2>6. HighestAfter(s) = (IF s < latest THEN base + SeqSpace ELSE base) + s
    BY <2>3, <2>5
  <2> HIDE DEF base, cycles, latest, s
  <2>7. 0 < n - hi /\ n - hi < SeqSpace
    BY <1>3, HalfRangeBounds, SeqSpaceAssumption DEF Within
  <2>8. HighestAfter(s) = extended_highest_seq + (n - hi)
    <3>1. CASE s - latest = n - hi
      BY <3>1, <2>2, <2>4, <2>5, <2>6, <2>7
    <3>2. CASE s - latest = n - hi - SeqSpace
      BY <3>2, <2>2, <2>4, <2>5, <2>6, <2>7, SeqSpaceAssumption
    <3> QED BY <2>1, <3>1, <3>2
  <2> QED BY <2>8, <1>3 DEF s
<1> QED BY <1>2, <1>3

\* A packet that PutPacket accepts keeps the counters fitting the bounds.
LEMMA CountersStayFit ==
  ASSUME extended_highest_seq \in Nat, extended_first_seq \in Nat, has_cached_packet,
         NEW hi \in Int, NEW lo \in Int, NEW n \in Int,
         Within(n, hi, HalfRange), CountersFit(hi, lo)
  PROVE  LET hi2 == IF hi < n THEN n ELSE hi
             lo2 == IF n < lo THEN n ELSE lo
             high == HighestAfter(SeqAt(n))
         IN  /\ SeqAt(high) = SeqAt(hi2)
             /\ lo2 - (hi2 - high) <= FirstAfter(SeqAt(n))
             /\ hi2 - high = hi - extended_highest_seq
<1> DEFINE s == SeqAt(n)
           hi2 == IF hi < n THEN n ELSE hi
           lo2 == IF n < lo THEN n ELSE lo
           high == HighestAfter(s)
           behind == hi - extended_highest_seq
<1>1. high = IF hi < n THEN extended_highest_seq + (n - hi) ELSE extended_highest_seq
  BY HighestMoves DEF CountersFit
<1>2. hi2 - high = behind /\ high \in Int /\ behind \in Int /\ hi2 \in Int /\ n <= hi2
  BY <1>1
<1>3. SeqAt(n - behind) = SeqAt(n)
  BY ShiftKeepsSeq DEF CountersFit
<1>4. SeqAt(high) = SeqAt(hi2)
  <2>1. CASE hi < n
    <3>1. high = n - behind
      BY <1>1, <2>1
    <3> HIDE DEF high, behind
    <3> QED BY <3>1, <1>3, <2>1
  <2>2. CASE ~(hi < n)
    BY <1>1, <2>2 DEF CountersFit
  <2> QED BY <2>1, <2>2
<1>5. CASE FirstAfter(s) = extended_first_seq
  <2>1. lo2 - behind <= extended_first_seq
    BY DEF CountersFit
  <2> QED BY <1>2, <1>4, <1>5, <2>1
<1>6. CASE FirstAfter(s) # extended_first_seq
  <2>1. high \div SeqSpace = 0 /\ FirstAfter(s) = s
    BY <1>6 DEF FirstAfter
  <2>2. high < SeqSpace
    <3>1. high = SeqSpace * (high \div SeqSpace) + SeqAt(high)
      BY <1>2, DivisionFacts
    <3>2. SeqSpace * (high \div SeqSpace) = 0
      BY <2>1, SeqSpaceAssumption
    <3>3. SeqAt(high) \in 0..(SeqSpace - 1)
      BY <1>2, SeqAtType DEF SeqNums
    <3> HIDE DEF high
    <3> QED BY <3>1, <3>2, <3>3, SeqSpaceAssumption
  <2>3. n - behind <= SeqAt(n - behind)
    <3>1. n - behind < SeqSpace /\ n - behind \in Int
      <4> HIDE DEF high, hi2, behind
      <4> QED BY <1>2, <2>2, SeqSpaceAssumption
    <3> QED BY <3>1, BelowModulus
  <2>4. lo2 - behind <= s
    <3>1. lo2 <= n /\ lo2 \in Int /\ s \in Int
      BY SeqAtType DEF SeqNums
    <3> HIDE DEF lo2, behind, s
    <3> QED BY <3>1, <2>3, <1>2, <1>3 DEF s
  <2> QED BY <1>2, <1>4, <2>1, <2>4
<1> QED BY <1>5, <1>6

\* The last position that arrived is cached or was the last one delivered.
LEMMA HighestInReach ==
  ASSUME DeliveryInv, StatsInv, arrived # {}, NEW n \in Positions, WithinReach(n)
  PROVE  /\ MaxOf(arrived) \in Int /\ MinOf(arrived) \in Int
         /\ Within(n, MaxOf(arrived), HalfRange)
         /\ delivered # <<>> => Last(delivered) <= MaxOf(arrived)
<1> DEFINE hi == MaxOf(arrived)
<1>1. /\ arrived \subseteq Int /\ n \in Int
      /\ Spans(arrived, hi, MinOf(arrived))
      /\ delivered # <<>> => Last(delivered) \in arrived
  BY ReceiverAssumption DEF DeliveryInv, CacheTypeOK, StatsInv
<1> HIDE DEF hi
<1>2. hi \in arrived /\ hi \in Int /\ MinOf(arrived) \in Int
  BY <1>1 DEF Spans
<1>3. CASE IsUndelivered(hi)
  <2>1. PICK i \in DOMAIN cached_packets : cached_packets[i].n = hi
    BY <1>2, <1>3 DEF DeliveryInv, CacheHoldsUndelivered
  <2>2. n - hi <= HalfRange /\ hi - n <= HalfRange
    BY <2>1 DEF WithinReach
  <2> QED BY <1>1, <1>2, <2>2 DEF Spans, Within, hi
<1>4. CASE ~IsUndelivered(hi)
  <2>1. delivered # <<>> /\ Last(delivered) = hi
    <3>1. delivered # <<>> /\ ~(Last(delivered) < hi)
      BY <1>4 DEF IsUndelivered
    <3>2. Last(delivered) \in Int /\ Last(delivered) <= hi
      BY <1>1, <3>1 DEF Spans
    <3> QED BY <1>2, <3>1, <3>2
  <2>2. n - hi <= HalfRange /\ hi - n <= HalfRange
    BY <2>1 DEF WithinReach
  <2> QED BY <1>1, <1>2, <2>1, <2>2 DEF Spans, Within, hi
<1> QED BY <1>3, <1>4

\* A late packet lies at or below the last one delivered.
LEMMA LateIsBelow ==
  ASSUME DeliveryInv, NEW n \in Positions, WithinReach(n), IsLate(SeqAt(n))
  PROVE  delivered # <<>> /\ n <= Last(delivered)
<1>1. n \in Int /\ delivered \in Seq(Positions) /\ Positions \subseteq Int
  BY ReceiverAssumption DEF DeliveryInv, CacheTypeOK
<1>2. delivered # <<>> /\ latest_callback_seq = SeqAt(Last(delivered))
  BY DEF IsLate, DeliveryInv, CacheInReach
<1>3. Last(delivered) \in Int
  BY <1>1, <1>2, LastOfSeq
<1>4. Within(Last(delivered), n, HalfRange)
  BY <1>2 DEF WithinReach, Within
<1>5. IsSeqAfter(latest_callback_seq, SeqAt(n)) <=> Last(delivered) < n
  BY <1>1, <1>2, <1>3, <1>4, SeqOrderIsStreamOrder
<1> QED BY <1>1, <1>2, <1>3, <1>5 DEF IsLate

\* The bounds of what arrived, with one more position.
LEMMA SpansWithNext ==
  ASSUME NEW S \in SUBSET Int, NEW hi \in Int, NEW lo \in Int, NEW n \in Int,
         Spans(S, hi, lo)
  PROVE  LET hi2 == IF hi < n THEN n ELSE hi
             lo2 == IF n < lo THEN n ELSE lo
         IN  /\ Spans(S \cup {n}, hi2, lo2)
             /\ MaxOf(S \cup {n}) = hi2 /\ MinOf(S \cup {n}) = lo2
<1> DEFINE hi2 == IF hi < n THEN n ELSE hi
           lo2 == IF n < lo THEN n ELSE lo
<1>1. Spans(S \cup {n}, hi2, lo2)
  BY DEF Spans
<1>2. S \cup {n} \in SUBSET Int
  OBVIOUS
<1> HIDE DEF hi2, lo2
<1>3. MaxOf(S \cup {n}) = hi2 /\ MinOf(S \cup {n}) = lo2
  BY <1>1, <1>2, SpansAreBounds
<1> QED BY <1>1, <1>3 DEF hi2, lo2

\* What a packet that arrives does to the counters of the report.
LEMMA ArrivalKeepsStats ==
  ASSUME DeliveryInv, StatsInv, NEW n \in Positions, NEW kind, OnRtpPacket(n, kind)
  PROVE  /\ StatsInv'
         /\ arrived # {} => extended_highest_seq' - extended_highest_seq
                              = MaxOf(arrived') - MaxOf(arrived)
<1> DEFINE list == CacheAfterPut(n)
           s == SeqAt(n)
           hi == MaxOf(arrived)
           lo == MinOf(arrived)
<1>1. /\ WithinReach(n) /\ GetPackets(list) /\ arrived' = arrived \cup {n}
      /\ nb_received_real' = nb_received_real + 1
      /\ IsLate(s) => UNCHANGED <<has_cached_packet, extended_highest_seq, extended_first_seq>>
      /\ ~IsLate(s) => /\ has_cached_packet' = TRUE
                       /\ extended_highest_seq' = HighestAfter(s)
                       /\ extended_first_seq' = FirstAfter(s)
  BY DEF OnRtpPacket
<1>2. /\ n \in Int /\ arrived \in SUBSET Int /\ nb_received_real \in Nat
      /\ extended_highest_seq \in Nat /\ extended_first_seq \in Nat
  BY ReceiverAssumption DEF DeliveryInv, CacheTypeOK
<1>3. IsFiniteSet(arrived') /\ Cardinality(arrived') <= nb_received_real'
  <2>1. IsFiniteSet(arrived) /\ Cardinality(arrived) <= nb_received_real
    BY DEF StatsInv
  <2>2. Cardinality(arrived) \in Nat
    BY <2>1, FS_CardinalityType
  <2>3. /\ IsFiniteSet(arrived \cup {n})
        /\ Cardinality(arrived \cup {n}) \in {Cardinality(arrived), Cardinality(arrived) + 1}
    BY <2>1, FS_AddElement
  <2> QED BY <1>1, <1>2, <2>1, <2>2, <2>3
<1>4. delivered' # <<>> => Last(delivered') \in arrived'
  <2>1. Deliverable(list, arrived \cup {n})
    BY <1>1, PutKeepsDeliverable
  <2> HIDE DEF list
  <2>2. IF CutOf(list) > Len(list) THEN delivered' = delivered
        ELSE delivered' # <<>> /\ Last(delivered') = list[CutOf(list)].n
    BY <1>1, <2>1, GetPacketsStep
  <2>3. CASE CutOf(list) > Len(list)
    BY <1>1, <2>2, <2>3 DEF StatsInv
  <2>4. CASE ~(CutOf(list) > Len(list))
    <3>1. list \in Seq(Packets)
      BY <2>1 DEF Deliverable, WellOrdered
    <3>2. CutOf(list) \in 1..Len(list) /\ list[CutOf(list)].n \in Int
      BY <2>4, <3>1, CutOfRange, PacketListType
    <3>3. list[CutOf(list)].n \in arrived \cup {n}
      BY <2>1, <3>2 DEF Deliverable
    <3> QED BY <1>1, <2>2, <2>4, <3>3
  <2> QED BY <2>3, <2>4
<1>5. CASE arrived = {}
  <2>1. ~IsLate(s) /\ ~has_cached_packet
    BY <1>5 DEF StatsInv, IsLate, DeliveryInv, CacheInReach
  <2>2. extended_highest_seq' = s /\ extended_first_seq' = s /\ has_cached_packet' = TRUE
    BY <1>1, <2>1 DEF HighestAfter, FirstAfter
  <2>3. arrived' = {n} /\ arrived' \in SUBSET Int /\ Spans(arrived', n, n)
    BY <1>1, <1>2, <1>5 DEF Spans
  <2>4. MaxOf(arrived') = n /\ MinOf(arrived') = n
    BY <2>3, SpansAreBounds
  <2>5. SeqAt(s) = SeqAt(n) /\ s \in Int
    <3>1. s \in SeqNums
      BY <1>2, SeqAtType
    <3> HIDE DEF s
    <3>2. SeqAt(s) = s
      BY <3>1, SeqAtOfSeq
    <3> QED BY <3>1, <3>2, SeqSpaceAssumption DEF s, SeqNums
  <2> QED BY <1>2, <1>3, <1>4, <1>5, <2>2, <2>3, <2>4, <2>5 DEF StatsInv, CountersFit
<1>6. CASE arrived # {} /\ IsLate(s)
  <2>1. hi \in Int /\ lo \in Int /\ n <= hi /\ Spans(arrived, hi, lo) /\ CountersFit(hi, lo)
    <3>1. hi \in Int /\ lo \in Int /\ Last(delivered) <= hi /\ n <= Last(delivered)
      BY <1>1, <1>6, HighestInReach, LateIsBelow
    <3>2. Last(delivered) \in Int
      BY <1>1, <1>2, <1>6, LateIsBelow DEF StatsInv
    <3> QED BY <1>2, <1>6, <3>1, <3>2 DEF StatsInv
  <2> HIDE DEF hi, lo
  <2> DEFINE lo2 == IF n < lo THEN n ELSE lo
  <2>2. Spans(arrived', hi, lo2) /\ MaxOf(arrived') = hi /\ MinOf(arrived') = lo2
    <3>1. (IF hi < n THEN n ELSE hi) = hi
      BY <1>2, <2>1
    <3> QED BY <1>1, <1>2, <2>1, <3>1, SpansWithNext
  <2>3. SeqAt(extended_highest_seq') = SeqAt(hi)
        /\ lo2 - (hi - extended_highest_seq') <= extended_first_seq'
    BY <1>1, <1>2, <1>6, <2>1 DEF CountersFit
  <2>4. has_cached_packet' <=> arrived' # {}
    BY <1>1, <1>6 DEF StatsInv
  <2> HIDE DEF lo2
  <2>5. StatsInv'
    BY <1>3, <1>4, <2>2, <2>3, <2>4 DEF StatsInv, CountersFit
  <2> QED BY <1>1, <1>2, <1>6, <2>1, <2>2, <2>5 DEF hi
<1>7. CASE arrived # {} /\ ~IsLate(s)
  <2> DEFINE hi2 == IF hi < n THEN n ELSE hi
             lo2 == IF n < lo THEN n ELSE lo
             high == HighestAfter(s)
  <2>1. /\ hi \in Int /\ lo \in Int /\ Within(n, hi, HalfRange)
        /\ Spans(arrived, hi, lo) /\ CountersFit(hi, lo) /\ has_cached_packet
    BY <1>1, <1>7, HighestInReach DEF StatsInv
  <2> HIDE DEF hi, lo
  <2>2. Spans(arrived', hi2, lo2) /\ MaxOf(arrived') = hi2 /\ MinOf(arrived') = lo2
    BY <1>1, <1>2, <2>1, SpansWithNext
  <2>3. /\ SeqAt(high) = SeqAt(hi2) /\ lo2 - (hi2 - high) <= FirstAfter(s)
        /\ hi2 - high = hi - extended_highest_seq
    BY <1>2, <2>1, CountersStayFit
  <2>4. high \in Int /\ hi2 \in Int
    <3>1. s \in SeqNums
      BY <1>2, SeqAtType
    <3> QED BY <1>2, <2>1, <3>1, ExtendedCountersType
  <2> HIDE DEF hi2, lo2, high
  <2>5. has_cached_packet' <=> arrived' # {}
    BY <1>1, <1>7
  <2>6. extended_highest_seq' = high /\ extended_first_seq' = FirstAfter(s)
    BY <1>1, <1>7 DEF high
  <2>7. StatsInv'
    BY <1>3, <1>4, <2>2, <2>3, <2>5, <2>6 DEF StatsInv, CountersFit
  <2>8. extended_highest_seq' - extended_highest_seq = hi2 - hi
    BY <1>2, <2>1, <2>3, <2>4, <2>6
  <2> QED BY <2>2, <2>7, <2>8 DEF hi
<1> QED BY <1>5, <1>6, <1>7

\* Every step keeps the counters fitting the stream.
LEMMA NextKeepsStats ==
  DeliveryInv /\ StatsInv /\ [Next]_vars =>
    /\ StatsInv'
    /\ arrived # {} => extended_highest_seq' - extended_highest_seq
                         = MaxOf(arrived') - MaxOf(arrived)
<1> SUFFICES ASSUME DeliveryInv, StatsInv, [Next]_vars
             PROVE  /\ StatsInv'
                    /\ arrived # {} => extended_highest_seq' - extended_highest_seq
                                         = MaxOf(arrived') - MaxOf(arrived)
  OBVIOUS
<1>1. ASSUME NEW n \in Positions, NEW kind \in Kinds, OnRtpPacket(n, kind)
      PROVE  /\ StatsInv'
             /\ arrived # {} => extended_highest_seq' - extended_highest_seq
                                  = MaxOf(arrived') - MaxOf(arrived)
  BY <1>1, ArrivalKeepsStats
<1>2. CASE UNCHANGED <<cacheVars, nb_received_real, arrived, delivered>>
  <2>1. StatsInv'
    BY <1>2 DEF cacheVars, StatsInv, CountersFit
  <2>2. ASSUME arrived # {}
        PROVE  /\ extended_highest_seq' = extended_highest_seq /\ arrived' = arrived
               /\ extended_highest_seq \in Int /\ MaxOf(arrived) \in Int
    <3>1. MaxOf(arrived) \in arrived /\ arrived \subseteq Int
      BY <2>2, ReceiverAssumption DEF StatsInv, Spans, DeliveryInv, CacheTypeOK
    <3>2. extended_highest_seq \in Int
      BY DEF DeliveryInv, CacheTypeOK
    <3>3. extended_highest_seq' = extended_highest_seq /\ arrived' = arrived
      BY <1>2 DEF cacheVars
    <3> QED BY <3>1, <3>2, <3>3
  <2>3. arrived # {} => extended_highest_seq' - extended_highest_seq
                         = MaxOf(arrived') - MaxOf(arrived)
    BY <2>2
  <2> QED BY <2>1, <2>3
<1>3. [Next]_vars => \/ \E n \in Positions, kind \in Kinds : OnRtpPacket(n, kind)
                    \/ UNCHANGED <<cacheVars, nb_received_real, arrived, delivered>>
  BY DEF Next, Tick, RejectRtpPacket, vars
<1> QED BY <1>1, <1>2, <1>3

\* StatsInv is an invariant, given DeliveryInv.
LEMMA StatsHold == Spec => []StatsInv
<1>1. Init => StatsInv
  BY FS_EmptySet DEF Init, StatsInv
<1>2. DeliveryInv /\ StatsInv /\ [Next]_vars => StatsInv'
  BY NextKeepsStats
<1> QED BY <1>1, <1>2, InvHolds, PTL DEF Spec

\* A receiver report never claims more packets lost than are missing.
THEOREM LossBounded == Spec => []LossNeverOverstated
<1>1. DeliveryInv /\ StatsInv => LossNeverOverstated
  <2> DEFINE hi == MaxOf(arrived)
             lo == MinOf(arrived)
  <2> SUFFICES ASSUME DeliveryInv, StatsInv, arrived # {}
               PROVE  cumulative_loss <= hi - lo + 1 - Cardinality(arrived)
    BY DEF LossNeverOverstated
  <2>1. /\ arrived \subseteq Int /\ IsFiniteSet(arrived)
        /\ Cardinality(arrived) <= nb_received_real
        /\ Spans(arrived, hi, lo)
        /\ lo - (hi - extended_highest_seq) <= extended_first_seq
        /\ extended_highest_seq \in Int /\ extended_first_seq \in Int
        /\ nb_received_real \in Int
    BY ReceiverAssumption DEF DeliveryInv, CacheTypeOK, StatsInv, CountersFit
  <2> HIDE DEF hi, lo
  <2>2. hi \in Int /\ lo \in Int /\ lo <= hi /\ arrived \subseteq lo..hi
    BY <2>1 DEF Spans
  <2>3. Cardinality(arrived) \in Nat /\ Cardinality(arrived) <= hi - lo + 1
    <3>1. IsFiniteSet(lo..hi) /\ Cardinality(lo..hi) = hi - lo + 1
      BY <2>2, FS_Interval
    <3> QED BY <2>1, <2>2, <3>1, FS_Subset, FS_CardinalityType
  <2>4. \/ cumulative_loss = 0
        \/ cumulative_loss = extended_highest_seq - extended_first_seq - nb_received_real
    BY DEF cumulative_loss
  <2> QED BY <2>1, <2>2, <2>3, <2>4
<1> QED BY <1>1, InvHolds, StatsHold, PTL

\* The extended highest number of the reports advances by exactly what the
\* stream advanced, for every modulus and over every wrap.
THEOREM HighestFollows == Spec => ExtendedHighestFollowsStream
<1>1. DeliveryInv /\ StatsInv /\ [Next]_vars =>
        (arrived # {} => extended_highest_seq' - extended_highest_seq
                           = MaxOf(arrived') - MaxOf(arrived))
  BY NextKeepsStats
<1> QED
  BY <1>1, InvHolds, StatsHold, PTL DEF Spec, ExtendedHighestFollowsStream

-----------------------------------------------------------------------------
(* Waiting out a gap *)

\* Positions in reach whose numbers follow each other are neighbours.
LEMMA NextIsNeighbour ==
  ASSUME NEW a \in Int, NEW b \in Int, a < b, b - a <= HalfRange,
         IsNextSeq(SeqAt(a), SeqAt(b))
  PROVE  b = a + 1
<1> DEFINE k == b - a
<1>1. k \in 1..SeqSpace /\ a + k = b /\ 1 \in SeqNums
  BY HalfRangeBounds, SeqSpaceAssumption DEF SeqNums
<1> HIDE DEF k
<1>2. k <= 1
  BY <1>1, InRangeIsStreamDistance DEF IsNextSeq
<1> QED BY <1>1, <1>2

\* A ready run holds every position between the last packet delivered and its
\* front.
LEMMA ReadyRunIsGapless ==
  ASSUME NEW list, WellOrdered(list), NEW c \in 1..Len(list), NEW last \in Int,
         latest_callback_seq = SeqAt(last), IsReadyRun(list, c),
         \A i \in 1..Len(list) : last < list[i].n /\ list[i].n - last <= HalfRange,
         NEW m \in Int, last < m, m < list[c].n
  PROVE  \E i \in 1..Len(list) : list[i].n = m
<1> DEFINE below == {j \in c..(Len(list) + 1) : j = Len(list) + 1 \/ list[j].n <= m}
<1>1. Len(list) \in Nat /\ \A i \in 1..Len(list) : list[i].n \in Int
  BY PacketListType DEF WellOrdered
<1>2. PICK j \in below : \A i \in below : j <= i
  <2>1. Len(list) + 1 \in below /\ below \in SUBSET Nat
    BY <1>1
  <2> HIDE DEF below
  <2> QED BY <2>1, LeastOf
<1> DEFINE k == j - 1
<1>3. k \in c..Len(list) /\ k \in 1..Len(list) /\ m < list[k].n
  <2>1. j # c
    BY <1>1, <1>2
  <2>2. k \in c..(Len(list) + 1) /\ k < j
    BY <1>1, <1>2, <2>1
  <2>3. k \notin below
    BY <1>2, <2>2
  <2> QED BY <1>1, <2>2, <2>3
<1>4. CASE k = Len(list)
  <2>1. IsNextSeq(SeqAt(last), SeqAt(list[k].n))
    BY <1>3, <1>4 DEF IsReadyRun, SeqOfPacket
  <2> HIDE DEF k
  <2>2. list[k].n = last + 1
    BY <1>1, <1>3, <2>1, NextIsNeighbour
  <2> QED BY <1>3, <2>2
<1>5. CASE k # Len(list)
  <2>1. j \in 1..Len(list) /\ j = k + 1 /\ list[j].n <= m
    BY <1>1, <1>2, <1>3, <1>5
  <2> HIDE DEF k
  <2>2. IsNextSeq(SeqAt(list[j].n), SeqAt(list[k].n))
    BY <1>3, <1>5, <2>1 DEF IsReadyRun, SeqOfPacket
  <2>3. list[j].n < list[k].n /\ list[k].n - list[j].n <= HalfRange
    BY <1>1, <1>3, <2>1 DEF WellOrdered
  <2>4. list[k].n = list[j].n + 1
    BY <1>1, <1>3, <2>1, <2>2, <2>3, NextIsNeighbour
  <2>5. list[j].n = m
    BY <1>1, <1>3, <2>1, <2>4
  <2> QED BY <2>1, <2>5
<1> QED BY <1>4, <1>5

\* What a packet that arrives may pass over.
LEMMA ArrivalWaitsOut ==
  ASSUME DeliveryInv, MaxCacheDuration > 0,
         NEW n \in Positions, NEW kind, OnRtpPacket(n, kind),
         NEW m \in Positions \ arrived', IsUndelivered(m),
         delivered' # <<>>, m < Last(delivered')
  PROVE  \E p \in ToSet(cached_packets) :
            m < p.n /\ p.n <= Last(delivered') /\ p.timeout <= now
<1> DEFINE list == CacheAfterPut(n)
           cut == CutOf(list)
           new == [n |-> n, timeout |-> now + MaxCacheDuration]
<1>1. WithinReach(n) /\ GetPackets(list) /\ arrived' = arrived \cup {n}
  BY DEF OnRtpPacket
<1>2. Deliverable(list, arrived \cup {n})
  BY <1>1, PutKeepsDeliverable
<1>3. \A i \in 1..Len(list) :
         list[i] = new \/ \E k \in 1..Len(cached_packets) : list[i] = cached_packets[k]
  <2>1. CASE IsLate(SeqAt(n))
    BY <2>1 DEF CacheAfterPut
  <2>2. CASE ~IsLate(SeqAt(n))
    <3>1. list = InsertPacket(cached_packets, new)
      BY <2>2 DEF CacheAfterPut
    <3>2. WellOrdered(cached_packets) /\ InReachOf(n, cached_packets)
      BY <1>1, InvGivesDeliverable
         DEF Deliverable, WithinReach, InReachOf, Within, DeliveryInv, CacheTypeOK
    <3>3. new \in Packets /\ new.n = n
      BY ReceiverAssumption DEF DeliveryInv, CacheTypeOK, Packets
    <3> HIDE DEF new, list
    <3> QED BY <3>1, <3>2, <3>3, InsertPacketCorrect
  <2> QED BY <2>1, <2>2
<1> HIDE DEF list
<1>4. /\ WellOrdered(list) /\ list \in Seq(Packets)
      /\ m \in Int /\ m \notin arrived \cup {n}
      /\ IF cut > Len(list) THEN delivered' = delivered
         ELSE delivered' # <<>> /\ Last(delivered') = list[cut].n
  <2>1. WellOrdered(list) /\ list \in Seq(Packets)
    BY <1>2 DEF Deliverable, WellOrdered
  <2>2. m \in Int /\ m \notin arrived \cup {n}
    BY <1>1, ReceiverAssumption
  <2>3. IF cut > Len(list) THEN delivered' = delivered
        ELSE delivered' # <<>> /\ Last(delivered') = list[cut].n
    BY <1>1, <1>2, GetPacketsStep
  <2> QED BY <2>1, <2>2, <2>3
<1>5. delivered # <<>> => Last(delivered) \in Int /\ Last(delivered) < m
  <2>1. delivered \in Seq(Positions) /\ Positions \subseteq Int
    BY ReceiverAssumption DEF DeliveryInv, CacheTypeOK
  <2> QED BY <2>1, LastOfSeq DEF IsUndelivered
<1>6. cut <= Len(list)
  <2>1. ~(cut > Len(list))
    BY <1>4, <1>5
  <2> QED BY <2>1, <1>4, CutOfRange
<1>7. cut \in 1..Len(list) /\ StartsDelivery(list, cut) /\ list[cut].n \in Int
  BY <1>4, <1>6, CutOfRange, PacketListType
<1> HIDE DEF cut
<1>8. CASE list[cut].timeout <= now
  <2>1. list[cut] # new
    BY <1>8, ReceiverAssumption DEF DeliveryInv, CacheTypeOK
  <2>2. PICK k \in 1..Len(cached_packets) : list[cut] = cached_packets[k]
    BY <1>3, <1>7, <2>1
  <2>3. list[cut] \in ToSet(cached_packets)
    BY <2>2 DEF ToSet, DeliveryInv, CacheTypeOK
  <2> QED BY <1>4, <1>6, <1>7, <1>8, <2>3
<1>9. CASE has_callback_packet /\ IsReadyRun(list, cut)
  <2>1. delivered # <<>> /\ latest_callback_seq = SeqAt(Last(delivered))
    BY <1>9 DEF DeliveryInv, CacheInReach
  <2>2. \A i \in 1..Len(list) : /\ Last(delivered) < list[i].n
                                /\ list[i].n - Last(delivered) <= HalfRange
    BY <1>2, <2>1 DEF Deliverable
  <2>3. m < list[cut].n
    BY <1>4, <1>6, <1>7
  <2>4. \E i \in 1..Len(list) : list[i].n = m
    BY <1>4, <1>5, <1>7, <1>9, <2>1, <2>2, <2>3, ReadyRunIsGapless
  <2>5. m \in arrived \cup {n}
    BY <1>2, <1>4, <2>4 DEF Deliverable
  <2> QED BY <1>4, <2>5
<1> QED BY <1>7, <1>8, <1>9 DEF StartsDelivery

\* A gap is passed over only for a packet that waited out its time in the
\* cache. Without a cache duration there is nothing to wait for.
THEOREM GapsWaited == MaxCacheDuration > 0 /\ Spec => GapsWaitOutTheCache
<1> SUFFICES ASSUME MaxCacheDuration > 0 PROVE Spec => GapsWaitOutTheCache
  OBVIOUS
<1> DEFINE Waited ==
      \A m \in Positions \ arrived' :
        (IsUndelivered(m) /\ delivered' # <<>> /\ m < Last(delivered'))
          => \E p \in ToSet(cached_packets) :
                m < p.n /\ p.n <= Last(delivered') /\ p.timeout <= now
<1>1. DeliveryInv /\ [Next]_vars => Waited
  <2> SUFFICES ASSUME DeliveryInv, [Next]_vars PROVE Waited
    OBVIOUS
  <2>1. ASSUME NEW n \in Positions, NEW kind \in Kinds, OnRtpPacket(n, kind)
        PROVE  Waited
    BY <2>1, ArrivalWaitsOut
  <2>2. CASE delivered' = delivered
    <3>1. delivered \in Seq(Positions) /\ Positions \subseteq Int
      BY ReceiverAssumption DEF DeliveryInv, CacheTypeOK
    <3>2. delivered # <<>> => Last(delivered) \in Int
      BY <3>1, LastOfSeq
    <3>3. \A m \in Positions : ~(IsUndelivered(m) /\ delivered # <<>> /\ m < Last(delivered))
      BY <3>1, <3>2 DEF IsUndelivered
    <3> QED BY <2>2, <3>3
  <2>3. \/ \E n \in Positions, kind \in Kinds : OnRtpPacket(n, kind)
        \/ delivered' = delivered
    BY DEF Next, Tick, RejectRtpPacket, vars
  <2> QED BY <2>1, <2>2, <2>3
<1>2. Spec => [][Waited]_vars
  BY <1>1, InvHolds, PTL DEF Spec
<1> QED BY <1>2 DEF GapsWaitOutTheCache

-----------------------------------------------------------------------------
(* The loss list *)

LossEntries == [seq : SeqNums, notified : BOOLEAN, last_notify : Nat]

\* A list of losses and a place in it.
Placings == {acc \in [list : Seq(LossEntries), pos : Nat] :
               acc.pos \in 1..(Len(acc.list) + 1)}

NewEntry(s) == [seq |-> s, notified |-> FALSE, last_notify |-> 0]

\* Inserting x before the m-th element of s, or at its end.
LEMMA InsertAtFacts ==
  ASSUME NEW S, NEW s \in Seq(S), NEW x \in S, NEW m \in 1..(Len(s) + 1)
  PROVE  LET r == InsertAt(s, m, x)
         IN  /\ r \in Seq(S)
             /\ Len(r) = Len(s) + 1
             /\ \A i \in 1..(m - 1) : r[i] = s[i]
             /\ r[m] = x
             /\ \A i \in m..Len(s) : r[i + 1] = s[i]
<1> DEFINE r == SubSeq(s, 1, m - 1) \o <<x>> \o SubSeq(s, m, Len(s))
<1>1. IsInsertion(r, S, s, x, m)
  BY InsertionFacts
<1>2. InsertAt(s, m, x) = r
  BY DEF InsertAt
<1> HIDE DEF r
<1> QED BY <1>1, <1>2 DEF IsInsertion

\* The scan from the place in the list stops at the number or before the first
\* entry that is not bigger, and there the number is if it was not.
LEMMA PlaceFacts ==
  ASSUME NEW acc \in Placings, NEW s \in SeqNums
  PROVE  \E p \in acc.pos..(Len(acc.list) + 1) :
           /\ \A j \in acc.pos..(p - 1) : /\ acc.list[j].seq # s
                                          /\ IsSeqBefore(s, acc.list[j].seq)
           /\ p <= Len(acc.list) => \/ acc.list[p].seq = s
                                    \/ ~IsSeqBefore(s, acc.list[p].seq)
           /\ PlaceLossSeq(acc, s) =
                IF p <= Len(acc.list) /\ acc.list[p].seq = s
                THEN [list |-> acc.list, pos |-> p]
                ELSE [list |-> InsertAt(acc.list, p, NewEntry(s)), pos |-> p + 1]
<1> DEFINE len == Len(acc.list)
           stops == {j \in acc.pos..len : \/ acc.list[j].seq = s
                                          \/ ~IsSeqBefore(s, acc.list[j].seq)}
           first == CHOOSE j \in stops : \A k \in stops : j <= k
           p == IF stops = {} THEN len + 1 ELSE first
<1>1. acc.list \in Seq(LossEntries) /\ len \in Nat /\ acc.pos \in 1..(len + 1)
  BY DEF Placings
<1>2. PlaceLossSeq(acc, s) =
        IF p <= len /\ acc.list[p].seq = s THEN [list |-> acc.list, pos |-> p]
        ELSE [list |-> InsertAt(acc.list, p, NewEntry(s)), pos |-> p + 1]
  BY DEF PlaceLossSeq, NewEntry
<1> HIDE DEF len
<1>4. CASE stops = {}
  <2>1. p = len + 1
    BY <1>4
  <2> HIDE DEF p
  <2>2. p \in acc.pos..(len + 1) /\ ~(p <= len)
    BY <1>1, <2>1
  <2>3. \A j \in acc.pos..(p - 1) : acc.list[j].seq # s /\ IsSeqBefore(s, acc.list[j].seq)
    BY <1>1, <1>4, <2>1
  <2> QED BY <1>2, <2>2, <2>3 DEF len
<1>5. CASE stops # {}
  <2>1. stops \in SUBSET Nat
    BY <1>1
  <2>2. \E j \in stops : \A k \in stops : j <= k
    <3> HIDE DEF stops
    <3> QED BY <1>5, <2>1, LeastOf
  <2>3. p \in stops /\ \A k \in stops : p <= k
    <3> HIDE DEF stops
    <3> QED BY <1>5, <2>2
  <2> HIDE DEF p
  <2>4. p \in acc.pos..(len + 1) /\ p <= len
    BY <1>1, <2>3
  <2>5. \A j \in acc.pos..(p - 1) : acc.list[j].seq # s /\ IsSeqBefore(s, acc.list[j].seq)
    BY <1>1, <2>3, <2>4
  <2>6. acc.list[p].seq = s \/ ~IsSeqBefore(s, acc.list[p].seq)
    BY <2>3
  <2> QED BY <1>2, <2>4, <2>5, <2>6 DEF len
<1> QED BY <1>4, <1>5

\* Placing a number leaves a list and a place in it.
LEMMA PlaceType ==
  \A acc \in Placings : \A s \in SeqNums : PlaceLossSeq(acc, s) \in Placings
<1> SUFFICES ASSUME NEW acc \in Placings, NEW s \in SeqNums
             PROVE  PlaceLossSeq(acc, s) \in Placings
  OBVIOUS
<1>1. PICK p \in acc.pos..(Len(acc.list) + 1) :
        PlaceLossSeq(acc, s) =
                IF p <= Len(acc.list) /\ acc.list[p].seq = s
                THEN [list |-> acc.list, pos |-> p]
                ELSE [list |-> InsertAt(acc.list, p, NewEntry(s)), pos |-> p + 1]
  BY PlaceFacts
<1>2. /\ acc.list \in Seq(LossEntries) /\ Len(acc.list) \in Nat
      /\ p \in 1..(Len(acc.list) + 1) /\ p \in Nat /\ p + 1 \in 1..(Len(acc.list) + 2)
      /\ NewEntry(s) \in LossEntries
  BY DEF Placings, NewEntry, LossEntries
<1> DEFINE r == InsertAt(acc.list, p, NewEntry(s))
<1>3. r \in Seq(LossEntries) /\ Len(r) = Len(acc.list) + 1
  BY <1>2, InsertAtFacts
<1> HIDE DEF r
<1>4. [list |-> r, pos |-> p + 1] \in Placings
  BY <1>2, <1>3 DEF Placings
<1>5. [list |-> acc.list, pos |-> p] \in Placings
  BY <1>2 DEF Placings
<1> QED BY <1>1, <1>4, <1>5 DEF r

\* What holds of the list while numbers above lo are placed from the top down
\* to cur: its entries above lo descend and are those of S, and the ones before
\* the place are not below cur. Entries not above lo, which are left from
\* before, are not below low; they stand anywhere before the place and behind
\* the others after it.
Placing(acc, low, lo, cur, S) ==
  /\ acc \in Placings
  /\ \A i, j \in 1..Len(acc.list) :
        i < j /\ lo < acc.list[i].seq /\ lo < acc.list[j].seq
          => acc.list[j].seq < acc.list[i].seq
  /\ \A i, j \in 1..Len(acc.list) :
        acc.pos <= i /\ i < j /\ lo < acc.list[j].seq => lo < acc.list[i].seq
  /\ \A i \in 1..Len(acc.list) :
        i < acc.pos /\ lo < acc.list[i].seq => cur <= acc.list[i].seq
  /\ \A i \in 1..Len(acc.list) :
        IF lo < acc.list[i].seq THEN acc.list[i].seq \in S
        ELSE low <= acc.list[i].seq
  /\ \A m \in S : \E i \in 1..Len(acc.list) : acc.list[i].seq = m

\* The entries of a list of losses have a number.
LEMMA LossListType ==
  ASSUME NEW list \in Seq(LossEntries)
  PROVE  /\ Len(list) \in Nat
         /\ \A i \in 1..Len(list) : list[i] \in LossEntries /\ list[i].seq \in SeqNums
                                    /\ list[i].seq \in Int
<1>1. \A i \in 1..Len(list) : list[i] \in LossEntries
  OBVIOUS
<1>2. \A e \in LossEntries : e.seq \in SeqNums
  BY DEF LossEntries
<1>3. SeqNums \subseteq Int
  BY SeqSpaceAssumption DEF SeqNums
<1>4. \A i \in 1..Len(list) : list[i].seq \in SeqNums
  BY <1>1, <1>2
<1>5. \A i \in 1..Len(list) : list[i].seq \in Int
  BY <1>3, <1>4
<1>6. Len(list) \in Nat
  OBVIOUS
<1> QED BY <1>1, <1>4, <1>5, <1>6

\* Placing the next smaller number.
LEMMA PlaceStep ==
  ASSUME NEW lo \in SeqNums, NEW hi \in SeqNums, hi - lo <= HalfRange, NEW low,
         NEW cur \in Int, NEW S \in SUBSET ((lo + 1)..(hi - 1)),
         NEW acc, Placing(acc, low, lo, cur, S),
         NEW s \in SeqNums, lo < s, s < hi, s < cur
  PROVE  Placing(PlaceLossSeq(acc, s), low, lo, s, S \cup {s})
<1> DEFINE list == acc.list
           r == PlaceLossSeq(acc, s)
<1>1. /\ lo \in Int /\ hi \in Int /\ s \in Int
      /\ list \in Seq(LossEntries) /\ Len(list) \in Nat
      /\ \A i \in 1..Len(list) : list[i].seq \in Int
      /\ acc.pos \in 1..(Len(list) + 1) /\ acc \in Placings
  <2>1. lo \in Int /\ hi \in Int /\ s \in Int
    BY SeqSpaceAssumption DEF SeqNums
  <2>2. acc \in Placings /\ list \in Seq(LossEntries) /\ acc.pos \in 1..(Len(list) + 1)
    BY DEF Placing, Placings
  <2> QED BY <2>1, <2>2, LossListType
<1>2. /\ \A i, j \in 1..Len(list) :
            i < j /\ lo < list[i].seq /\ lo < list[j].seq => list[j].seq < list[i].seq
      /\ \A i, j \in 1..Len(list) :
            acc.pos <= i /\ i < j /\ lo < list[j].seq => lo < list[i].seq
      /\ \A i \in 1..Len(list) : i < acc.pos /\ lo < list[i].seq => cur <= list[i].seq
      /\ \A i \in 1..Len(list) : IF lo < list[i].seq THEN list[i].seq \in S
                                 ELSE low <= list[i].seq
      /\ \A m \in S : \E i \in 1..Len(list) : list[i].seq = m
  BY DEF Placing
<1>3. PICK p \in acc.pos..(Len(list) + 1) :
           /\ \A j \in acc.pos..(p - 1) : /\ list[j].seq # s
                                          /\ IsSeqBefore(s, list[j].seq)
           /\ p <= Len(list) => \/ list[p].seq = s
                                \/ ~IsSeqBefore(s, list[p].seq)
           /\ r = IF p <= Len(list) /\ list[p].seq = s
                  THEN [list |-> list, pos |-> p]
                  ELSE [list |-> InsertAt(list, p, NewEntry(s)), pos |-> p + 1]
  BY <1>1, PlaceFacts
<1>4. r \in Placings
  BY <1>1, PlaceType
<1> HIDE DEF list, r
<1>5. \A i \in 1..Len(list) : lo < list[i].seq => (IsSeqBefore(s, list[i].seq) <=> s < list[i].seq)
  <2> TAKE i \in 1..Len(list)
  <2> HAVE lo < list[i].seq
  <2>1. list[i].seq \in (lo + 1)..(hi - 1)
    BY <1>2
  <2>2. Within(s, list[i].seq, HalfRange) /\ list[i].seq \in SeqNums
    <3>1. HalfRange \in Int
      BY HalfRangeBounds
    <3>2. Within(s, list[i].seq, HalfRange)
      BY <2>1, <3>1, <1>1 DEF Within
    <3>3. list[i].seq \in SeqNums
      BY <1>1, LossListType
    <3> QED BY <3>2, <3>3
  <2>3. SeqAt(s) = s /\ SeqAt(list[i].seq) = list[i].seq
    BY <2>2, SeqAtOfSeq
  <2>4. IsSeqAfter(SeqAt(s), SeqAt(list[i].seq)) <=> s < list[i].seq
    BY <1>1, <2>2, SeqOrderIsStreamOrder
  <2> QED BY <2>3, <2>4 DEF IsSeqBefore
\* Before p the entries above lo are above s, from p on not.
<1>6. \A i \in 1..Len(list) : i < p /\ lo < list[i].seq => s < list[i].seq
  <2> SUFFICES ASSUME NEW i \in 1..Len(list), i < p, lo < list[i].seq
               PROVE  s < list[i].seq
    OBVIOUS
  <2>1. CASE i < acc.pos
    BY <2>1, <1>1, <1>2
  <2>2. CASE i >= acc.pos
    <3>1. i \in acc.pos..(p - 1)
      BY <2>2, <1>1
    <3> QED BY <3>1, <1>3, <1>5
  <2> QED BY <2>1, <2>2, <1>1
<1>7. \A i \in 1..Len(list) : p <= i /\ lo < list[i].seq => list[i].seq <= s
  <2> SUFFICES ASSUME NEW i \in 1..Len(list), p <= i, lo < list[i].seq
               PROVE  list[i].seq <= s
    OBVIOUS
  <2>1. p \in 1..Len(list) /\ acc.pos <= p
    BY <1>1, <1>3
  <2>2. lo < list[p].seq
    BY <2>1, <1>2
  <2>3. list[p].seq <= s
    BY <2>1, <2>2, <1>1, <1>3, <1>5
  <2>4. i = p \/ list[i].seq < list[p].seq
    BY <2>1, <2>2, <1>2
  <2> QED BY <2>1, <2>3, <2>4, <1>1
<1>8. CASE p <= Len(list) /\ list[p].seq = s
  <2>1. r.list = list /\ r.pos = p /\ p \in 1..Len(list)
    BY <1>1, <1>3, <1>8
  <2>2. s \in S
    BY <2>1, <1>2, <1>8
  <2>3. S \cup {s} = S
    BY <2>2
  <2>4. \A i, j \in 1..Len(list) : p <= i /\ i < j /\ lo < list[j].seq => lo < list[i].seq
    BY <2>1, <1>1, <1>2, <1>3, SMTT(30)
  <2>5. \A i \in 1..Len(list) : i < p /\ lo < list[i].seq => s <= list[i].seq
    <3> TAKE i \in 1..Len(list)
    <3> HAVE i < p /\ lo < list[i].seq
    <3>1. s < list[i].seq /\ list[i].seq \in Int /\ s \in Int
      BY <1>1, <1>6
    <3> QED BY <3>1
  <2>6. Placing(r, low, lo, s, S)
    BY <1>2, <1>4, <2>1, <2>4, <2>5 DEF Placing
  <2> QED BY <2>3, <2>6 DEF r
<1>9. CASE ~(p <= Len(list) /\ list[p].seq = s)
  <2> DEFINE q == InsertAt(list, p, NewEntry(s))
             len == Len(list)
  <2>1. r.list = q /\ r.pos = p + 1
    BY <1>3, <1>9
  <2>2. /\ p \in 1..(len + 1) /\ len \in Nat
        /\ Len(q) = len + 1
        /\ \A i \in 1..(p - 1) : q[i] = list[i]
        /\ q[p].seq = s
        /\ \A i \in p..len : q[i + 1] = list[i]
    <3>1. NewEntry(s) \in LossEntries /\ NewEntry(s).seq = s
      BY DEF NewEntry, LossEntries
    <3>2. p \in 1..(Len(list) + 1)
      BY <1>1, <1>3
    <3> QED BY <3>1, <3>2, <1>1, InsertAtFacts
  <2> HIDE DEF q
  <2>3. \A i \in 1..Len(q) :
          \/ i < p /\ i \in 1..len /\ q[i] = list[i]
          \/ i = p
          \/ i > p /\ i - 1 \in p..len /\ i - 1 \in 1..len /\ q[i] = list[i - 1]
    <3> TAKE i \in 1..Len(q)
    <3>1. CASE i < p
      BY <3>1, <2>2
    <3>2. CASE i > p
      <4>1. i - 1 \in p..len /\ i - 1 \in 1..len /\ (i - 1) + 1 = i
        BY <3>2, <2>2
      <4>2. q[(i - 1) + 1] = list[i - 1]
        BY <4>1, <2>2
      <4> QED BY <3>2, <4>1, <4>2
    <3> QED BY <3>1, <3>2, <2>2
  <2>4. ASSUME NEW i \in 1..Len(q), NEW j \in 1..Len(q),
               i < j, lo < q[i].seq, lo < q[j].seq
        PROVE  q[j].seq < q[i].seq
    <3>1. CASE i < p /\ j < p
      <4>1. /\ i \in 1..len /\ q[i] = list[i]
            /\ j \in 1..len /\ q[j] = list[j]
        BY <3>1, <2>3, <2>2
      <4> QED BY <4>1, <2>4, <1>2
    <3>2. CASE i < p /\ j = p
      BY <3>2, <2>3, <2>4, <2>2, <1>6
    <3>3. CASE i < p /\ j > p
      <4>1. /\ i \in 1..len /\ q[i] = list[i]
            /\ j - 1 \in 1..len /\ q[j] = list[j - 1]
            /\ i < j - 1
        BY <3>3, <2>3, <2>2
      <4> QED BY <4>1, <2>4, <1>2
    <3>4. CASE i = p
      <4>1. /\ j - 1 \in 1..len /\ q[j] = list[j - 1] /\ p <= j - 1
        BY <3>4, <2>4, <2>3, <2>2
      <4>2. list[j - 1].seq <= s
        BY <4>1, <2>4, <1>7
      <4>3. list[j - 1].seq # s
        <5>1. p \in 1..len /\ acc.pos <= p
          BY <4>1, <1>1, <1>3, SMTT(30)
        <5>2. j - 1 = p \/ (p < j - 1 /\ list[j - 1].seq < list[p].seq)
          BY <4>1, <5>1, <2>2, <2>4, <1>2
        <5>3. list[p].seq # s
          BY <5>1, <1>9
        <5>4. lo < list[p].seq
          BY <4>1, <5>1, <5>2, <2>4, <1>2
        <5>5. list[p].seq <= s
          <6>1. p \in 1..Len(list) /\ p <= p
            BY <5>1, <1>1
          <6>2. p <= p /\ lo < list[p].seq => list[p].seq <= s
            BY <6>1, <1>7, Zenon
          <6> QED BY <6>1, <6>2, <5>4
        <5> QED BY <5>1, <5>2, <5>3, <5>5, <4>1, <1>1
      <4> QED BY <4>1, <4>2, <4>3, <3>4, <2>2, <1>1
    <3>5. CASE i > p
      <4>1. /\ i - 1 \in 1..len /\ q[i] = list[i - 1]
            /\ j - 1 \in 1..len /\ q[j] = list[j - 1]
            /\ i - 1 < j - 1
        BY <3>5, <2>4, <2>3, <2>2
      <4> QED BY <4>1, <2>4, <1>2
    <3> QED BY <3>1, <3>2, <3>3, <3>4, <3>5, <2>2
  <2>5. ASSUME NEW i \in 1..Len(q), NEW j \in 1..Len(q),
               p + 1 <= i, i < j, lo < q[j].seq
        PROVE  lo < q[i].seq
    <3>1. /\ i - 1 \in 1..len /\ q[i] = list[i - 1]
          /\ j - 1 \in 1..len /\ q[j] = list[j - 1]
          /\ i - 1 < j - 1 /\ acc.pos <= i - 1
      <4>1. i > p /\ j > p /\ p \in acc.pos..(len + 1) /\ acc.pos \in Int
        BY <2>5, <2>2, <1>1, <1>3
      <4>2. /\ i - 1 \in 1..len /\ q[i] = list[i - 1]
            /\ j - 1 \in 1..len /\ q[j] = list[j - 1]
        BY <4>1, <2>3, <2>2
      <4>3. i - 1 < j - 1 /\ acc.pos <= i - 1
        BY <4>1, <2>5
      <4> QED BY <4>2, <4>3
    <3> QED BY <3>1, <2>5, <1>2
  <2>6. ASSUME NEW i \in 1..Len(q), i < p + 1, lo < q[i].seq
        PROVE  s <= q[i].seq
    <3>1. CASE i = p
      BY <3>1, <2>2, <1>1
    <3>2. CASE i < p
      BY <3>2, <2>3, <2>6, <2>2, <1>6, <1>1
    <3> QED BY <3>1, <3>2, <2>6, <2>2
  <2>7. ASSUME NEW i \in 1..Len(q)
        PROVE  IF lo < q[i].seq THEN q[i].seq \in S \cup {s}
               ELSE low <= q[i].seq
    BY <2>2, <2>3, <1>2
  <2>8. ASSUME NEW m \in S \cup {s}
        PROVE  \E i \in 1..Len(q) : q[i].seq = m
    <3>1. CASE m = s
      BY <3>1, <2>2
    <3>2. CASE m \in S
      <4>1. PICK i \in 1..len : list[i].seq = m
        BY <3>2, <1>2
      <4>2. CASE i < p
        BY <4>1, <4>2, <2>2
      <4>3. CASE i >= p
        <5>1. i + 1 \in 1..Len(q) /\ q[i + 1] = list[i]
          BY <4>3, <2>2
        <5> QED BY <4>1, <5>1
      <4> QED BY <4>2, <4>3, <2>2
    <3> QED BY <3>1, <3>2
  <2>9. Placing(r, low, lo, s, S \cup {s})
    BY <1>4, <2>1, <2>4, <2>5, <2>6, <2>7, <2>8 DEF Placing
  <2> QED BY <2>9 DEF r
<1> QED BY <1>8, <1>9 DEF r

\* The recursion of PlaceGap: one placing after the other.
LEMMA PlaceGapUnfolds ==
  ASSUME NEW acc \in Placings, NEW gap \in Seq(SeqNums)
  PROVE  \E placed \in [0..Len(gap) -> Placings] :
           /\ placed[0] = acc
           /\ \A k \in 1..Len(gap) : placed[k] = PlaceLossSeq(placed[k - 1], gap[k])
           /\ PlaceGap(acc, gap) = placed[Len(gap)]
<1> DEFINE len == Len(gap)
           placed == CHOOSE f : f = [k \in 0..len |->
                       IF k = 0 THEN acc ELSE PlaceLossSeq(f[k - 1], gap[k])]
           step == [k \in 1..len |-> [q \in Placings |-> PlaceLossSeq(q, gap[k])]]
<1>1. len \in Nat /\ \A k \in 1..len : gap[k] \in SeqNums
  OBVIOUS
<1>2. step \in [1..len -> [Placings -> Placings]]
  BY <1>1, PlaceType
<1>3. PICK f \in [0..len -> Placings] : IsIteration(f, len, acc, step)
  <2> HIDE DEF step, len
  <2> QED BY <1>1, <1>2, IterationExists
<1>4. f = [k \in 0..len |-> IF k = 0 THEN acc ELSE PlaceLossSeq(f[k - 1], gap[k])]
  <2>1. \A k \in 1..len : f[k - 1] \in Placings
    <3> HIDE DEF len, step
    <3>1. \A k \in 1..len : k - 1 \in 0..len
      BY <1>1
    <3> QED BY <3>1, <1>3
  <2>2. \A k \in 1..len : step[k][f[k - 1]] = PlaceLossSeq(f[k - 1], gap[k])
    BY <2>1
  <2> HIDE DEF step, len
  <2>3. f = [k \in 0..len |-> IF k = 0 THEN acc ELSE step[k][f[k - 1]]]
    BY <1>3 DEF IsIteration
  <2>4. \A k \in 0..len : (IF k = 0 THEN acc ELSE step[k][f[k - 1]])
          = IF k = 0 THEN acc ELSE PlaceLossSeq(f[k - 1], gap[k])
    BY <1>1, <2>2
  <2> QED BY <2>3, <2>4
<1>5. placed = [k \in 0..len |-> IF k = 0 THEN acc ELSE PlaceLossSeq(placed[k - 1], gap[k])]
  <2> HIDE DEF len
  <2> QED BY <1>4
<1>6. PlaceGap(acc, gap) = placed[len]
  BY DEF PlaceGap
<1> HIDE DEF placed, step, len
<1> DEFINE P == {k \in 0..len : placed[k] \in Placings}
<1>7. placed[0] = acc
  BY <1>1, <1>5
<1>8. \A k \in 1..len : placed[k] = PlaceLossSeq(placed[k - 1], gap[k])
  BY <1>1, <1>5
<1>9. \A k \in 0..len : k \in P
  <2>1. 0 \in P
    BY <1>1, <1>7
  <2>2. ASSUME NEW k \in 0..(len - 1), k \in P
        PROVE  k + 1 \in P
    <3>1. k + 1 \in 1..len /\ k + 1 \in 0..len /\ (k + 1) - 1 = k
      BY <1>1
    <3>2. placed[k + 1] = PlaceLossSeq(placed[k], gap[k + 1]) /\ placed[k] \in Placings
      BY <2>2, <3>1, <1>8
    <3> QED BY <3>1, <3>2, <1>1, PlaceType
  <2> HIDE DEF P
  <2> QED BY <1>1, <2>1, <2>2, InductionUpTo
<1>10. placed \in [0..len -> Placings]
  BY <1>5, <1>9
<1> QED BY <1>6, <1>7, <1>8, <1>10 DEF len

\* Placing the gap between a and b.
LEMMA PlaceGapStep ==
  ASSUME NEW lo \in SeqNums, NEW hi \in SeqNums, hi - lo <= HalfRange, NEW low,
         NEW a \in SeqNums, NEW b \in SeqNums, lo <= b, b < a, a <= hi,
         NEW S \in SUBSET ((lo + 1)..(hi - 1)),
         NEW acc, Placing(acc, low, lo, a, S)
  PROVE  Placing(PlaceGap(acc, Down(a - 1, b + 1)), low, lo, b, S \cup (b + 1)..(a - 1))
<1> DEFINE gap == Down(a - 1, b + 1)
           len == a - 1 - b
           Set(k) == S \cup (a - k)..(a - 1)
<1>1. /\ lo \in Int /\ hi \in Int /\ a \in Int /\ b \in Int /\ len \in Nat
      /\ SeqNums = 0..(SeqSpace - 1)
      /\ acc \in Placings
  BY SeqSpaceAssumption DEF SeqNums, Placing
<1>2. gap = [k \in 1..len |-> a - k]
  <2>1. (IF a - 1 < b + 1 THEN 0 ELSE (a - 1) - (b + 1) + 1) = len
    BY <1>1
  <2>2. \A k \in 1..len : (a - 1) + 1 - k = a - k
    BY <1>1
  <2> QED BY <2>1, <2>2 DEF Down
<1>3. \A k \in 1..len : a - k \in SeqNums /\ lo < a - k /\ a - k < hi
  BY <1>1, SeqSpaceAssumption
<1>4. gap \in Seq(SeqNums) /\ Len(gap) = len
  <2> HIDE DEF gap, len
  <2> QED BY <1>1, <1>2, <1>3
<1> HIDE DEF gap
<1>5. PICK placed \in [0..len -> Placings] :
           /\ placed[0] = acc
           /\ \A k \in 1..len : placed[k] = PlaceLossSeq(placed[k - 1], gap[k])
           /\ PlaceGap(acc, gap) = placed[len]
  <2> HIDE DEF len
  <2> QED BY <1>1, <1>4, PlaceGapUnfolds
<1> DEFINE P == {k \in 0..len : Placing(placed[k], low, lo, a - k, Set(k))}
<1>6. 0 \in P
  <2>1. a - 0 = a /\ Set(0) = S /\ 0 \in 0..len
    BY <1>1
  <2> QED BY <2>1, <1>5
<1>7. ASSUME NEW k \in 0..(len - 1), k \in P
      PROVE  k + 1 \in P
  <2> DEFINE s == a - (k + 1)
             old == Set(k)
  <2>1. k + 1 \in 1..len /\ k + 1 \in 0..len /\ (k + 1) - 1 = k
    BY <1>1
  <2>2. s \in SeqNums /\ lo < s /\ s < hi /\ s < a - k /\ a - k \in Int
    <3>1. s \in SeqNums /\ lo < s /\ s < hi
      <4> HIDE DEF len
      <4> QED BY <1>3, <2>1
    <3>2. s < a - k /\ a - k \in Int
      BY <1>1, <2>1
    <3> QED BY <3>1, <3>2
  <2>3. old \in SUBSET ((lo + 1)..(hi - 1))
    BY <1>1, <2>1
  <2>4. placed[k + 1] = PlaceLossSeq(placed[k], s)
    BY <1>2, <1>5, <2>1
  <2>5. Set(k + 1) = old \cup {s}
    BY <1>1, <2>1
  <2>6. Placing(placed[k], low, lo, a - k, old)
    BY <1>7
  <2> HIDE DEF s, old
  <2>7. Placing(placed[k + 1], low, lo, s, old \cup {s})
    BY <2>2, <2>3, <2>4, <2>6, PlaceStep
  <2>8. Placing(placed[k + 1], low, lo, a - (k + 1), Set(k + 1))
    BY <2>5, <2>7 DEF s
  <2> QED BY <2>1, <2>8
<1>8. len \in P
  <2> HIDE DEF P
  <2>1. \A k \in 0..(len - 1) : k \in P => k + 1 \in P
    BY <1>7
  <2>2. len \in 0..len
    BY <1>1
  <2> HIDE DEF len
  <2> QED BY <1>1, <1>6, <2>1, <2>2, InductionUpTo
<1>9. Placing(placed[len], low, lo, b + 1, S \cup (b + 1)..(a - 1))
  <2>1. a - len = b + 1
    BY <1>1
  <2> QED BY <1>8, <2>1
<1>10. ASSUME NEW x, NEW T, Placing(x, low, lo, b + 1, T)
       PROVE  Placing(x, low, lo, b, T)
  <2>1. ASSUME NEW i \in 1..Len(x.list), i < x.pos, lo < x.list[i].seq
        PROVE  b <= x.list[i].seq
    <3>1. b + 1 <= x.list[i].seq
      BY <1>10, <2>1 DEF Placing
    <3>2. x.list[i].seq \in Int
      BY <1>10, LossListType DEF Placing, Placings
    <3> QED BY <3>1, <3>2, <1>1
  <2> QED BY <1>10, <2>1 DEF Placing
<1> QED BY <1>5, <1>9, <1>10 DEF gap

\* What is visited between the descending numbers a and b.
GapBetween(a, b) == IF IsNextSeq(b, a) THEN <<>> ELSE GapSeqs(a, b)

\* Without a wrap in between it is what lies between them.
LEMMA GapIsBetween ==
  ASSUME NEW a \in SeqNums, NEW b \in SeqNums, b < a
  PROVE  /\ GapBetween(a, b) = Down(a - 1, b + 1)
         /\ GapBetween(a, b) \in Seq(SeqNums)
<1>1. a \in Int /\ b \in Int /\ SeqNums = 0..(SeqSpace - 1)
  BY SeqSpaceAssumption DEF SeqNums
<1>2. CASE a = b + 1
  <2>1. IsNextSeq(b, a)
    BY <1>1, <1>2, SeqSpaceAssumption DEF IsNextSeq, IsSeqAfterInRange, DiffSeq
  <2>2. (IF a - 1 < b + 1 THEN 0 ELSE (a - 1) - (b + 1) + 1) = 0
    BY <1>1, <1>2
  <2>3. Down(a - 1, b + 1) = <<>>
    BY <2>2 DEF Down
  <2> QED BY <2>1, <2>3 DEF GapBetween
<1>3. CASE a # b + 1
  <2>1. ~IsNextSeq(b, a)
    BY <1>1, <1>3, SeqSpaceAssumption DEF IsNextSeq, IsSeqAfterInRange, DiffSeq
  <2>2. GapBetween(a, b) = Down(a - 1, b + 1)
    BY <2>1 DEF GapBetween, GapSeqs
  <2> DEFINE len == a - 1 - b
  <2>3. len \in Nat
    BY <1>1
  <2>4. Down(a - 1, b + 1) = [k \in 1..len |-> a - k]
    <3>1. (IF a - 1 < b + 1 THEN 0 ELSE (a - 1) - (b + 1) + 1) = len
      BY <1>1, <1>3
    <3>2. \A k \in 1..len : (a - 1) + 1 - k = a - k
      BY <1>1
    <3> QED BY <3>1, <3>2 DEF Down
  <2>5. \A k \in 1..len : a - k \in SeqNums
    BY <1>1, SeqSpaceAssumption
  <2> DEFINE gap == [k \in 1..len |-> a - k]
  <2>6. gap \in Seq(SeqNums)
    <3> HIDE DEF len
    <3> QED BY <2>3, <2>5
  <2> QED BY <2>2, <2>4, <2>6
<1> QED BY <1>2, <1>3

\* A run down from one number to another.
LEMMA DownType ==
  ASSUME NEW from \in SeqNums, NEW to \in Nat
  PROVE  Down(from, to) \in Seq(SeqNums)
<1> DEFINE len == IF from < to THEN 0 ELSE from - to + 1
<1>1. from \in Int /\ SeqNums = 0..(SeqSpace - 1) /\ SeqSpace \in Int
  BY SeqSpaceAssumption DEF SeqNums
<1>2. len \in Nat /\ \A i \in 1..len : from + 1 - i \in SeqNums
  BY <1>1
<1> HIDE DEF len
<1>3. [i \in 1..len |-> from + 1 - i] \in Seq(SeqNums)
  BY <1>2
<1> QED BY <1>3 DEF Down, len

\* What is visited are sequence numbers, over a wrap of the counter too.
LEMMA GapType ==
  ASSUME NEW a \in SeqNums, NEW b \in SeqNums
  PROVE  GapBetween(a, b) \in Seq(SeqNums)
<1>1. a \in Int /\ b \in Nat /\ SeqNums = 0..(SeqSpace - 1) /\ SeqSpace \in Nat \ {0}
  BY SeqSpaceAssumption DEF SeqNums
<1>2. (a - 1) % SeqSpace \in SeqNums /\ SeqSpace - 1 \in SeqNums /\ b + 1 \in Nat
  BY <1>1
<1>3. CASE b < a
  BY <1>3, GapIsBetween
<1>4. CASE ~(b < a)
  <2>1. /\ Down((a - 1) % SeqSpace, 1) \in Seq(SeqNums)
        /\ Down(SeqSpace - 1, b + 1) \in Seq(SeqNums)
    BY <1>2, DownType
  <2>2. <<>> \in Seq(SeqNums)
    OBVIOUS
  <2>3. GapSeqs(a, b) \in Seq(SeqNums)
    BY <1>4, <2>1 DEF GapSeqs
  <2> QED BY <2>2, <2>3 DEF GapBetween
<1> QED BY <1>3, <1>4

Descends(seqs) == \A i, j \in 1..Len(seqs) : i < j => seqs[j] < seqs[i]

\* The recursion of PlaceGaps: one gap after the other.
LEMMA PlaceGapsWalks ==
  ASSUME NEW losses \in Seq(LossEntries), NEW seqs \in Seq(SeqNums), seqs # <<>>
  PROVE  \E walked \in [0..(Len(seqs) - 1) -> Placings] :
           /\ walked[0] = [list |-> losses, pos |-> 1]
           /\ \A i \in 1..(Len(seqs) - 1) :
                walked[i] = PlaceGap(walked[i - 1], GapBetween(seqs[i], seqs[i + 1]))
           /\ PlaceGaps(losses, seqs) = walked[Len(seqs) - 1].list
<1> DEFINE len == Len(seqs) - 1
           start == [list |-> losses, pos |-> 1]
           gap(i) == GapBetween(seqs[i], seqs[i + 1])
           walked == CHOOSE f : f = [i \in 0..len |->
                       IF i = 0 THEN start ELSE PlaceGap(f[i - 1], gap(i))]
           step == [i \in 1..len |-> [q \in Placings |-> PlaceGap(q, gap(i))]]
<1>1. len \in Nat /\ \A i \in 1..len : seqs[i] \in SeqNums /\ seqs[i + 1] \in SeqNums
  <2>1. Len(seqs) \in Nat \ {0} /\ \A i \in 1..Len(seqs) : seqs[i] \in SeqNums
    OBVIOUS
  <2>2. \A i \in 1..len : i \in 1..Len(seqs) /\ i + 1 \in 1..Len(seqs)
    BY <2>1
  <2> HIDE DEF len
  <2> QED BY <2>1, <2>2 DEF len
<1>2. \A i \in 1..len : gap(i) \in Seq(SeqNums)
  <2> HIDE DEF len
  <2> QED BY <1>1, GapType
<1>3. start \in Placings
  BY DEF Placings
<1>4. \A q \in Placings : \A i \in 1..len : PlaceGap(q, gap(i)) \in Placings
  <2> HIDE DEF len, gap
  <2> TAKE q \in Placings
  <2> TAKE i \in 1..len
  <2> DEFINE g == gap(i)
  <2>1. g \in Seq(SeqNums)
    BY <1>2
  <2> HIDE DEF g
  <2>2. PICK placed \in [0..Len(g) -> Placings] : PlaceGap(q, g) = placed[Len(g)]
    BY <2>1, PlaceGapUnfolds
  <2>3. Len(g) \in 0..Len(g)
    BY <2>1
  <2> QED BY <2>2, <2>3 DEF g
<1>5. PlaceGaps(losses, seqs) = walked[len].list
  BY DEF PlaceGaps, GapBetween
<1> HIDE DEF start, gap
<1>6. step \in [1..len -> [Placings -> Placings]]
  <2> HIDE DEF len
  <2> QED BY <1>4
<1>7. PICK f \in [0..len -> Placings] : IsIteration(f, len, start, step)
  <2> HIDE DEF step, len
  <2> QED BY <1>1, <1>3, <1>6, IterationExists
<1>8. f = [i \in 0..len |-> IF i = 0 THEN start ELSE PlaceGap(f[i - 1], gap(i))]
  <2>1. \A i \in 1..len : f[i - 1] \in Placings
    <3> HIDE DEF len, step
    <3>1. \A i \in 1..len : i - 1 \in 0..len
      BY <1>1
    <3> QED BY <3>1, <1>7
  <2>2. \A i \in 1..len : step[i][f[i - 1]] = PlaceGap(f[i - 1], gap(i))
    <3> HIDE DEF len
    <3> QED BY <2>1
  <2> HIDE DEF step, len
  <2>3. f = [i \in 0..len |-> IF i = 0 THEN start ELSE step[i][f[i - 1]]]
    BY <1>7 DEF IsIteration
  <2>4. \A i \in 0..len : (IF i = 0 THEN start ELSE step[i][f[i - 1]])
          = IF i = 0 THEN start ELSE PlaceGap(f[i - 1], gap(i))
    BY <1>1, <2>2
  <2> QED BY <2>3, <2>4
<1>9. walked = [i \in 0..len |-> IF i = 0 THEN start ELSE PlaceGap(walked[i - 1], gap(i))]
  <2> HIDE DEF len
  <2> QED BY <1>8
<1> HIDE DEF walked, step, len
<1> DEFINE P == {i \in 0..len : walked[i] \in Placings}
<1>10. walked[0] = start
  BY <1>1, <1>9
<1>11. \A i \in 1..len : walked[i] = PlaceGap(walked[i - 1], gap(i))
  BY <1>1, <1>9
<1>12. \A i \in 0..len : i \in P
  <2>1. 0 \in P
    BY <1>1, <1>3, <1>10
  <2>2. ASSUME NEW i \in 0..(len - 1), i \in P
        PROVE  i + 1 \in P
    <3>1. i + 1 \in 1..len /\ i + 1 \in 0..len /\ (i + 1) - 1 = i
      BY <1>1
    <3>2. walked[i + 1] = PlaceGap(walked[i], gap(i + 1)) /\ walked[i] \in Placings
      BY <2>2, <3>1, <1>11
    <3> QED BY <3>1, <3>2, <1>4
  <2> HIDE DEF P
  <2> QED BY <1>1, <2>1, <2>2, InductionUpTo
<1>13. walked \in [0..len -> Placings]
  BY <1>9, <1>12
<1>14. \A i \in 1..len : walked[i] = PlaceGap(walked[i - 1], GapBetween(seqs[i], seqs[i + 1]))
  BY <1>11 DEF gap
<1> QED BY <1>5, <1>10, <1>13, <1>14 DEF len, start

\* Between descending numbers the gaps are what lies between them.
LEMMA PlaceGapsUnfolds ==
  ASSUME NEW losses \in Seq(LossEntries), NEW seqs \in Seq(SeqNums),
         seqs # <<>>, Descends(seqs)
  PROVE  \E walked \in [0..(Len(seqs) - 1) -> Placings] :
           /\ walked[0] = [list |-> losses, pos |-> 1]
           /\ \A i \in 1..(Len(seqs) - 1) :
                walked[i] = PlaceGap(walked[i - 1], Down(seqs[i] - 1, seqs[i + 1] + 1))
           /\ PlaceGaps(losses, seqs) = walked[Len(seqs) - 1].list
<1>1. PICK walked \in [0..(Len(seqs) - 1) -> Placings] :
        /\ walked[0] = [list |-> losses, pos |-> 1]
        /\ \A i \in 1..(Len(seqs) - 1) :
             walked[i] = PlaceGap(walked[i - 1], GapBetween(seqs[i], seqs[i + 1]))
        /\ PlaceGaps(losses, seqs) = walked[Len(seqs) - 1].list
  BY PlaceGapsWalks
<1>2. \A i \in 1..(Len(seqs) - 1) : /\ i \in 1..Len(seqs) /\ i + 1 \in 1..Len(seqs)
                                     /\ i < i + 1
  OBVIOUS
<1>3. \A i \in 1..(Len(seqs) - 1) : /\ seqs[i] \in SeqNums /\ seqs[i + 1] \in SeqNums
                                     /\ seqs[i + 1] < seqs[i]
  BY <1>2 DEF Descends
<1>4. \A i \in 1..(Len(seqs) - 1) :
        GapBetween(seqs[i], seqs[i + 1]) = Down(seqs[i] - 1, seqs[i + 1] + 1)
  BY <1>3, GapIsBetween
<1>5. \A i \in 1..(Len(seqs) - 1) :
        walked[i] = PlaceGap(walked[i - 1], Down(seqs[i] - 1, seqs[i + 1] + 1))
  BY <1>1, <1>4
<1> QED BY <1>1, <1>5

\* Placing all gaps of descending numbers adds just what lies between them.
LEMMA PlaceGapsCorrect ==
  ASSUME NEW losses \in Seq(LossEntries), NEW seqs \in Seq(SeqNums),
         seqs # <<>>, Descends(seqs),
         NEW low, NEW lo, NEW hi, lo = seqs[Len(seqs)], hi = seqs[1], hi - lo <= HalfRange,
         NEW S \in SUBSET ((lo + 1)..(hi - 1)),
         Placing([list |-> losses, pos |-> 1], low, lo, hi, S)
  PROVE  \E acc : /\ acc.list = PlaceGaps(losses, seqs)
                  /\ Placing(acc, low, lo, lo,
                             S \cup {m \in (lo + 1)..(hi - 1) :
                                       \A i \in 1..Len(seqs) : seqs[i] # m})
<1> DEFINE len == Len(seqs) - 1
           Missing(b) == {m \in (b + 1)..(hi - 1) : \A i \in 1..Len(seqs) : seqs[i] # m}
<1>1. /\ len \in Nat /\ Len(seqs) = len + 1
      /\ \A i \in 1..(len + 1) : seqs[i] \in SeqNums /\ seqs[i] \in Int
      /\ \A i, j \in 1..(len + 1) : i < j => seqs[j] < seqs[i]
  <2>1. Len(seqs) \in Nat \ {0} /\ \A i \in 1..Len(seqs) : seqs[i] \in SeqNums
    OBVIOUS
  <2>2. SeqNums \subseteq Int
    BY SeqSpaceAssumption DEF SeqNums
  <2>3. len \in Nat /\ Len(seqs) = len + 1
    BY <2>1
  <2> QED BY <2>1, <2>2, <2>3 DEF Descends
<1>2. PICK walked \in [0..len -> Placings] :
           /\ walked[0] = [list |-> losses, pos |-> 1]
           /\ \A i \in 1..len :
                walked[i] = PlaceGap(walked[i - 1], Down(seqs[i] - 1, seqs[i + 1] + 1))
           /\ PlaceGaps(losses, seqs) = walked[len].list
  <2>1. \E walked \in [0..(Len(seqs) - 1) -> Placings] :
           /\ walked[0] = [list |-> losses, pos |-> 1]
           /\ \A i \in 1..(Len(seqs) - 1) :
                walked[i] = PlaceGap(walked[i - 1], Down(seqs[i] - 1, seqs[i + 1] + 1))
           /\ PlaceGaps(losses, seqs) = walked[Len(seqs) - 1].list
    BY PlaceGapsUnfolds
  <2> QED BY <2>1
<1> HIDE DEF len
<1>3. /\ lo = seqs[len + 1] /\ hi = seqs[1] /\ lo \in SeqNums /\ hi \in SeqNums
      /\ lo \in Int /\ hi \in Int
      /\ \A i \in 1..(len + 1) : lo <= seqs[i] /\ seqs[i] <= hi
  <2>1. 1 \in 1..(len + 1) /\ len + 1 \in 1..(len + 1)
    BY <1>1
  <2>2. \A i \in 1..(len + 1) : (i = 1 \/ 1 < i) /\ (i = len + 1 \/ i < len + 1)
    BY <1>1
  <2>3. lo = seqs[len + 1] /\ hi = seqs[1] /\ lo \in SeqNums /\ hi \in SeqNums
        /\ lo \in Int /\ hi \in Int
    BY <1>1, <2>1
  <2>4. ASSUME NEW i \in 1..(len + 1)
        PROVE  lo <= seqs[i] /\ seqs[i] <= hi
    <3>1. (i = 1 \/ seqs[i] < seqs[1]) /\ (i = len + 1 \/ seqs[len + 1] < seqs[i])
      BY <1>1, <2>1, <2>2
    <3>2. seqs[i] \in Int
      BY <1>1
    <3> QED BY <2>3, <3>1, <3>2
  <2> QED BY <2>3, <2>4
<1> DEFINE P == {i \in 0..len : Placing(walked[i], low, lo, seqs[i + 1], S \cup Missing(seqs[i + 1]))}
<1>4. 0 \in P
  <2>1. Missing(hi) = {}
    BY <1>3
  <2>2. S \cup Missing(seqs[0 + 1]) = S /\ seqs[0 + 1] = hi
    BY <2>1, <1>3
  <2>3. Placing(walked[0], low, lo, seqs[0 + 1], S \cup Missing(seqs[0 + 1]))
    <3> HIDE DEF Missing
    <3> QED BY <1>2, <2>2
  <2>4. 0 \in 0..len
    BY <1>1
  <2> HIDE DEF Missing
  <2> QED BY <2>3, <2>4
<1>5. ASSUME NEW i \in 0..(len - 1), i \in P
      PROVE  i + 1 \in P
  <2> DEFINE a == seqs[i + 1]
             b == seqs[i + 2]
             T == S \cup Missing(a)
  <2>1. /\ i + 1 \in 1..len /\ i + 1 \in 0..len /\ (i + 1) - 1 = i /\ (i + 1) + 1 = i + 2
        /\ i + 1 \in 1..(len + 1) /\ i + 2 \in 1..(len + 1) /\ i + 1 < i + 2
    BY <1>1
  <2>2. /\ a \in SeqNums /\ b \in SeqNums /\ a \in Int /\ b \in Int
        /\ lo <= b /\ b < a /\ a <= hi
    BY <1>1, <1>3, <2>1
  <2>3. walked[i + 1] = PlaceGap(walked[i], Down(a - 1, b + 1))
    BY <1>2, <2>1
  <2>4. T \in SUBSET ((lo + 1)..(hi - 1))
    <3> HIDE DEF a, b
    <3>1. \A m \in Missing(a) : m \in (lo + 1)..(hi - 1)
      BY <1>3, <2>2
    <3> HIDE DEF Missing
    <3> QED BY <3>1
  <2>5. Placing(walked[i], low, lo, a, T)
    BY <1>5
  <2>6. T \cup (b + 1)..(a - 1) = S \cup Missing(b)
    <3>1. \A k \in 1..Len(seqs) : seqs[k] <= b \/ a <= seqs[k]
      <4> TAKE k \in 1..Len(seqs)
      <4>1. k \in 1..(len + 1) /\ (k < i + 1 \/ k = i + 1 \/ k = i + 2 \/ i + 2 < k)
        BY <1>1
      <4> QED BY <4>1, <1>1, <2>1, <2>2
    <3>2. \A k \in 1..Len(seqs) : seqs[k] \in Int
      BY <1>1
    <3>3. \E k \in 1..Len(seqs) : seqs[k] = a
      BY <1>1, <2>1
    <3> HIDE DEF a, b
    <3>4. ASSUME NEW m \in (b + 1)..(a - 1)
          PROVE  m \in Missing(b)
      BY <3>1, <3>2, <2>2, <1>3
    <3>5. ASSUME NEW m \in Missing(b)
          PROVE  m \in Missing(a) \/ m \in (b + 1)..(a - 1)
      BY <3>3, <2>2, <1>3
    <3>6. Missing(a) \subseteq Missing(b)
      BY <2>2, <1>3
    <3> HIDE DEF Missing
    <3> QED BY <3>4, <3>5, <3>6
  <2> HIDE DEF a, b, T
  <2>7. Placing(walked[i + 1], low, lo, b, T \cup (b + 1)..(a - 1))
    <3> HIDE DEF Missing, P
    <3>1. \A acc : Placing(acc, low, lo, a, T)
                     => Placing(PlaceGap(acc, Down(a - 1, b + 1)), low, lo, b, T \cup (b + 1)..(a - 1))
      BY <1>3, <2>2, <2>4, PlaceGapStep
    <3> QED BY <2>3, <2>5, <3>1
  <2>8. Placing(walked[i + 1], low, lo, b, S \cup Missing(b))
    <3> HIDE DEF Missing
    <3> QED BY <2>6, <2>7
  <2> QED BY <2>1, <2>8 DEF b
<1>6. len \in P
  <2> HIDE DEF P
  <2>1. \A i \in 0..(len - 1) : i \in P => i + 1 \in P
    BY <1>5
  <2>2. len \in 0..len
    BY <1>1
  <2> QED BY <1>1, <1>4, <2>1, <2>2, InductionUpTo
<1> QED BY <1>2, <1>3, <1>6

\* A list of losses that names the numbers of T, once each and biggest first.
ListsLosses(losses, T) ==
  /\ losses \in Seq(LossEntries)
  /\ \A i, j \in 1..Len(losses) : i < j => losses[j].seq < losses[i].seq
  /\ \A i \in 1..Len(losses) : losses[i].seq \in T
  /\ \A m \in T : \E i \in 1..Len(losses) : losses[i].seq = m

\* Picking the entries that are not left from before.
LEMMA PickLiving ==
  ASSUME NEW acc, NEW low, NEW lo \in Int, NEW cur, NEW T \in SUBSET Int,
         Placing(acc, low, lo, cur, T), NEW I,
         \A i \in 1..Len(acc.list) : i \in I <=> lo < acc.list[i].seq,
         \A m \in T : lo < m
  PROVE  ListsLosses(Picked(acc.list, I), T)
<1> DEFINE list == acc.list
           r == Picked(list, I)
<1>1. list \in Seq(LossEntries)
  BY DEF Placing, Placings
<1>2. /\ \A i, j \in 1..Len(list) :
            i < j /\ lo < list[i].seq /\ lo < list[j].seq => list[j].seq < list[i].seq
      /\ \A i \in 1..Len(list) : lo < list[i].seq => list[i].seq \in T
      /\ \A m \in T : \E i \in 1..Len(list) : list[i].seq = m
  BY DEF Placing
<1>3. r \in Seq(LossEntries) /\ HasPicked(r, list, I)
  <2> HIDE DEF list
  <2> QED BY <1>1, PickedElements
<1>4. \A i, j \in 1..Len(r) : i < j =>
           \E k, l \in I \cap (1..Len(list)) : k < l /\ r[i] = list[k] /\ r[j] = list[l]
  <2> HIDE DEF list
  <2> QED BY <1>1, PickedOrder
<1> HIDE DEF r, list
<1>5. \A i \in 1..Len(list) : i \in I <=> lo < list[i].seq
  BY DEF list
<1>6. ASSUME NEW i \in 1..Len(r), NEW j \in 1..Len(r), i < j
      PROVE  r[j].seq < r[i].seq
  <2>1. PICK k \in I \cap (1..Len(list)), l \in I \cap (1..Len(list)) :
            k < l /\ r[i] = list[k] /\ r[j] = list[l]
    BY <1>4, <1>6
  <2> QED BY <2>1, <1>2, <1>5
<1>7. ASSUME NEW i \in 1..Len(r)
      PROVE  r[i].seq \in T
  <2>1. PICK k \in I \cap (1..Len(list)) : r[i] = list[k]
    BY <1>3 DEF HasPicked
  <2> QED BY <2>1, <1>2, <1>5
<1>8. ASSUME NEW m \in T
      PROVE  \E i \in 1..Len(r) : r[i].seq = m
  <2>1. PICK k \in 1..Len(list) : list[k].seq = m
    BY <1>2
  <2>2. k \in I
    BY <2>1, <1>5
  <2>3. PICK i \in 1..Len(r) : r[i] = list[k]
    BY <2>2, <1>3 DEF HasPicked
  <2> QED BY <2>1, <2>3
<1> QED BY <1>3, <1>6, <1>7, <1>8 DEF ListsLosses, r, list

\* The numbers at the two ends of what the cache waits for: the last packet
\* called back, or else the last of the list, and its first.
LowEnd(list) == IF has_callback_packet THEN latest_callback_seq ELSE list[Len(list)].n

\* The numbers the cache waits for, before the counter wraps.
Awaited(list) ==
  {m \in (LowEnd(list) + 1)..(list[1].n - 1) : \A i \in 1..Len(list) : list[i].n # m}

\* The packets of a list that may follow the last packet called back.
InSight(list) ==
  /\ WellOrdered(list) /\ list # <<>>
  /\ \A i \in 1..Len(list) : list[i].n \in SeqNums
  /\ has_callback_packet \in BOOLEAN
  /\ has_callback_packet =>
       /\ latest_callback_seq \in SeqNums
       /\ \A i \in 1..Len(list) : /\ latest_callback_seq < list[i].n
                                  /\ list[i].n - latest_callback_seq <= HalfRange

\* The numbers SupplementLossSeqs visits: those of the packets, then the last one
\* called back.
Visited(list) ==
  [i \in DOMAIN list |-> SeqOfPacket(list[i])] \o
  (IF has_callback_packet THEN <<latest_callback_seq>> ELSE <<>>)

\* They descend from the first packet to the low end.
LEMMA VisitedDescend ==
  ASSUME NEW list, InSight(list)
  PROVE  LET seqs == Visited(list)
             lo == LowEnd(list)
             hi == list[1].n
         IN  /\ seqs \in Seq(SeqNums) /\ seqs # <<>> /\ Descends(seqs)
             /\ seqs[1] = hi /\ seqs[Len(seqs)] = lo /\ hi - lo <= HalfRange
             /\ lo \in SeqNums /\ hi \in SeqNums
             /\ \A m \in Int : (lo < m /\ \A i \in 1..Len(seqs) : seqs[i] # m)
                               <=> (lo < m /\ \A i \in 1..Len(list) : list[i].n # m)
<1> DEFINE len == Len(list)
           front == [i \in DOMAIN list |-> SeqOfPacket(list[i])]
           seqs == Visited(list)
           lo == LowEnd(list)
           hi == list[1].n
<1>1. /\ len \in Nat \ {0} /\ list \in Seq(Packets)
      /\ \A i \in 1..len : list[i].n \in SeqNums /\ list[i].n \in Int
      /\ SeqNums = 0..(SeqSpace - 1) /\ HalfRange \in Nat
      /\ DOMAIN list = 1..len
  <2>1. list \in Seq(Packets)
    BY DEF InSight, WellOrdered
  <2>2. len \in Nat \ {0} /\ DOMAIN list = 1..len
    BY <2>1 DEF InSight
  <2>3. SeqNums \subseteq Int /\ SeqNums = 0..(SeqSpace - 1)
    BY SeqSpaceAssumption DEF SeqNums
  <2> QED BY <2>1, <2>2, <2>3, HalfRangeBounds DEF InSight
<1>2. front = [i \in 1..len |-> list[i].n]
  BY <1>1, SeqAtOfSeq DEF SeqOfPacket
<1>3. front \in Seq(SeqNums) /\ Len(front) = len /\ \A i \in 1..len : front[i] = list[i].n
  <2> HIDE DEF front, len
  <2> QED BY <1>1, <1>2
<1>a. seqs = front \o (IF has_callback_packet THEN <<latest_callback_seq>> ELSE <<>>)
  BY DEF Visited
<1> HIDE DEF front, len, seqs
<1>4. \A i, j \in 1..len : i < j => list[j].n < list[i].n
  BY DEF InSight, WellOrdered, len
<1>5. /\ seqs \in Seq(SeqNums) /\ seqs # <<>> /\ Descends(seqs)
      /\ seqs[1] = hi /\ seqs[Len(seqs)] = lo /\ hi - lo <= HalfRange
      /\ lo \in SeqNums /\ hi \in SeqNums
      /\ \A m \in Int : (lo < m /\ \A i \in 1..Len(seqs) : seqs[i] # m)
                        <=> (lo < m /\ \A i \in 1..Len(list) : list[i].n # m)
  <2>1. CASE has_callback_packet
    <3> DEFINE last == latest_callback_seq
    <3>1. last \in SeqNums /\ lo = last /\ seqs = Append(front, last)
      BY <1>1, <1>3, <1>a, <2>1 DEF LowEnd, InSight
    <3>2. /\ seqs \in Seq(SeqNums) /\ Len(seqs) = len + 1 /\ seqs[len + 1] = last
          /\ \A i \in 1..len : seqs[i] = list[i].n
      BY <1>1, <1>3, <3>1
    <3>3. \A i \in 1..len : last < list[i].n /\ list[i].n - last <= HalfRange
      BY <2>1 DEF InSight, len
    <3>4. \A i \in 1..Len(seqs) : i \in 1..len \/ i = len + 1
      BY <1>1, <3>2
    <3>5. Descends(seqs)
      <4> SUFFICES ASSUME NEW i \in 1..Len(seqs), NEW j \in 1..Len(seqs), i < j
                   PROVE  seqs[j] < seqs[i]
        BY DEF Descends
      <4>1. i \in 1..len
        BY <1>1, <3>2
      <4> QED BY <4>1, <3>2, <3>3, <3>4, <1>4
    <3>6. 1 \in 1..len /\ seqs # <<>>
      BY <1>1, <3>2
    <3>7. \A m \in Int : (lo < m /\ \A i \in 1..Len(seqs) : seqs[i] # m)
                        <=> (lo < m /\ \A i \in 1..len : list[i].n # m)
      <4> TAKE m \in Int
      <4>1. last \in Int
        BY <1>1, <3>1
      <4>2. \A i \in 1..len : i \in 1..Len(seqs)
        BY <1>1, <3>2
      <4>3. ASSUME lo < m, \A i \in 1..len : list[i].n # m, NEW i \in 1..Len(seqs)
            PROVE  seqs[i] # m
        <5>1. CASE i \in 1..len
          BY <5>1, <4>3, <3>2
        <5>2. CASE i = len + 1
          BY <5>2, <4>1, <4>3, <3>1, <3>2
        <5> QED BY <5>1, <5>2, <3>4
      <4>4. ASSUME \A i \in 1..Len(seqs) : seqs[i] # m, NEW i \in 1..len
            PROVE  list[i].n # m
        BY <4>2, <4>4, <3>2
      <4> QED BY <4>3, <4>4
    <3> QED BY <1>1, <3>1, <3>2, <3>3, <3>5, <3>6, <3>7 DEF len
  <2>2. CASE ~has_callback_packet
    <3>1. seqs = front
      BY <1>3, <1>a, <2>2
    <3>2. lo = list[len].n
      BY <2>2 DEF LowEnd, len
    <3>3. 1 \in 1..len /\ len \in 1..len /\ seqs # <<>>
      BY <1>1, <1>3, <3>1
    <3>4. hi - lo <= HalfRange
      BY <3>2, <3>3 DEF InSight, WellOrdered, len
    <3>5. Descends(seqs)
      BY <1>3, <1>4, <3>1 DEF Descends
    <3> QED BY <1>1, <1>3, <3>1, <3>2, <3>3, <3>4, <3>5 DEF len
  <2> QED BY <2>1, <2>2
<1> QED BY <1>5 DEF seqs

\* What SupplementLossSeqs makes of a list with the losses S: it adds what the
\* cache waits for, and drops what is not above the last packet called back.
LEMMA SupplementCorrect ==
  ASSUME NEW list, WellOrdered(list), list # <<>>,
         \A i \in 1..Len(list) : list[i].n \in SeqNums,
         has_callback_packet =>
           /\ latest_callback_seq \in SeqNums
           /\ \A i \in 1..Len(list) : /\ latest_callback_seq < list[i].n
                                      /\ list[i].n - latest_callback_seq <= HalfRange,
         has_callback_packet \in BOOLEAN,
         NEW low \in Int,
         low = IF has_callback_packet THEN LowEnd(list) - HalfRange ELSE LowEnd(list) + 1,
         NEW S \in SUBSET Awaited(list), NEW losses \in Seq(LossEntries),
         Placing([list |-> losses, pos |-> 1], low, LowEnd(list), list[1].n, S)
  PROVE  ListsLosses(SupplementLossSeqs(losses, list), Awaited(list))
<1> DEFINE len == Len(list)
           seqs == Visited(list)
           lo == LowEnd(list)
           hi == list[1].n
           T == Awaited(list)
           placed == PlaceGaps(losses, seqs)
           I == {i \in DOMAIN placed : IsSeqBefore(latest_callback_seq, placed[i].seq)}
<1>1. /\ len \in Nat \ {0} /\ list \in Seq(Packets)
      /\ \A i \in 1..len : list[i].n \in SeqNums /\ list[i].n \in Int
      /\ SeqNums = 0..(SeqSpace - 1) /\ HalfRange \in Nat
      /\ DOMAIN list = 1..len
  <2>1. list \in Seq(Packets)
    BY DEF WellOrdered
  <2>2. len \in Nat \ {0} /\ DOMAIN list = 1..len
    BY <2>1
  <2>3. SeqNums \subseteq Int /\ SeqNums = 0..(SeqSpace - 1)
    BY SeqSpaceAssumption DEF SeqNums
  <2> QED BY <2>1, <2>2, <2>3, HalfRangeBounds
<1>5. /\ seqs \in Seq(SeqNums) /\ seqs # <<>> /\ Descends(seqs)
      /\ seqs[1] = hi /\ seqs[Len(seqs)] = lo /\ hi - lo <= HalfRange
      /\ lo \in SeqNums /\ hi \in SeqNums
      /\ \A m \in Int : (lo < m /\ \A i \in 1..Len(seqs) : seqs[i] # m)
                        <=> (lo < m /\ \A i \in 1..Len(list) : list[i].n # m)
  BY VisitedDescend DEF InSight
<1> HIDE DEF seqs
<1>6. lo \in Int /\ hi \in Int
  BY <1>1, <1>5
<1>7. S \in SUBSET ((lo + 1)..(hi - 1)) /\ T \in SUBSET Int /\ \A m \in T : lo < m
  BY <1>6 DEF Awaited
<1> HIDE DEF lo, hi, T
<1>8. PICK acc : /\ acc.list = placed
                 /\ Placing(acc, low, lo, lo, T)
  <2> DEFINE U == {m \in (lo + 1)..(hi - 1) : \A i \in 1..Len(seqs) : seqs[i] # m}
  <2>1. S \cup U = T
    <3>1. U = T
      <4>1. T = {m \in (lo + 1)..(hi - 1) : \A i \in 1..Len(list) : list[i].n # m}
        BY DEF Awaited, lo, hi, T
      <4>2. \A m \in (lo + 1)..(hi - 1) : (\A i \in 1..Len(seqs) : seqs[i] # m)
                                         <=> (\A i \in 1..Len(list) : list[i].n # m)
        BY <1>5, <1>6
      <4> HIDE DEF T
      <4> QED BY <4>1, <4>2
    <3> QED BY <3>1 DEF T
  <2>2. Placing([list |-> losses, pos |-> 1], low, lo, hi, S)
    BY DEF lo, hi
  <2> HIDE DEF placed
  <2>3. \E acc : acc.list = PlaceGaps(losses, seqs) /\ Placing(acc, low, lo, lo, S \cup U)
    BY <1>5, <1>7, <2>2, PlaceGapsCorrect
  <2> QED BY <2>1, <2>3 DEF placed
<1>9. SupplementLossSeqs(losses, list)
        = IF has_callback_packet THEN Picked(placed, I) ELSE placed
  BY DEF SupplementLossSeqs, Visited, seqs
<1> HIDE DEF placed, I
<1>10. placed \in Seq(LossEntries) /\ DOMAIN placed = 1..Len(placed)
       /\ \A i \in 1..Len(placed) : placed[i].seq \in SeqNums /\ placed[i].seq \in Int
  <2>1. placed \in Seq(LossEntries)
    BY <1>8 DEF Placing, Placings
  <2> QED BY <2>1, LossListType
<1>11. CASE has_callback_packet
  <2>1. \A i \in 1..Len(placed) : i \in I <=> lo < placed[i].seq
    <3> TAKE i \in 1..Len(placed)
    <3> DEFINE e == placed[i].seq
    <3>1. i \in I <=> IsSeqAfter(lo, e)
      BY <1>10, <1>11 DEF I, IsSeqBefore, lo, LowEnd
    <3>2. Within(lo, e, HalfRange)
      <4>1. CASE lo < e
        <5>1. e \in T
          BY <4>1, <1>8 DEF Placing
        <5>2. e < hi
          BY <5>1, <1>6 DEF T, Awaited, hi, lo
        <5> QED BY <4>1, <5>2, <1>1, <1>5, <1>6, <1>10, SMTT(30) DEF Within
      <4>2. CASE ~(lo < e)
        <5>1. low <= e
          BY <4>2, <1>8 DEF Placing
        <5>2. low = lo - HalfRange
          BY <1>11 DEF lo
        <5> QED BY <4>2, <5>1, <5>2, <1>1, <1>6, <1>10 DEF Within
      <4> QED BY <4>1, <4>2
    <3>3. SeqAt(lo) = lo /\ SeqAt(e) = e
      BY <1>5, <1>10, SeqAtOfSeq
    <3>4. IsSeqAfter(SeqAt(lo), SeqAt(e)) <=> lo < e
      BY <3>2, <1>6, <1>10, SeqOrderIsStreamOrder
    <3> QED BY <3>1, <3>3, <3>4
  <2>2. ListsLosses(Picked(placed, I), T)
    BY <2>1, <1>6, <1>7, <1>8, PickLiving
  <2> QED BY <2>2, <1>9, <1>11 DEF T
<1>12. CASE ~has_callback_packet
  <2>1. \A i \in 1..Len(placed) : lo < placed[i].seq
    <3> TAKE i \in 1..Len(placed)
    <3>1. lo < placed[i].seq \/ low <= placed[i].seq
      BY <1>8 DEF Placing
    <3>2. low = lo + 1
      BY <1>12 DEF lo
    <3> QED BY <3>1, <3>2, <1>6, <1>10
  <2>2. ListsLosses(placed, T)
    BY <2>1, <1>8, <1>10 DEF Placing, ListsLosses
  <2> QED BY <2>2, <1>9, <1>12 DEF T
<1> QED BY <1>11, <1>12

\* What is listed as lost fits the list of packets: biggest first, in reach of
\* the packets, and above the last packet called back just what the cache waits
\* for.
LossesFit(losses, list, called, last) ==
  /\ losses \in Seq(LossEntries)
  /\ \A i, j \in 1..Len(losses) : i < j => losses[j].seq < losses[i].seq
  /\ \A i \in 1..Len(losses), k \in 1..Len(list) : Within(losses[i].seq, list[k].n, HalfRange)
  /\ called => \A i \in 1..Len(losses) : Within(losses[i].seq, last, HalfRange)
  /\ \A m \in Int : (called => last < m) =>
       ((\E i \in 1..Len(losses) : losses[i].seq = m)
          <=> /\ list # <<>> /\ m < list[1].n
              /\ IF called THEN last < m ELSE list[Len(list)].n < m
              /\ \A k \in 1..Len(list) : list[k].n # m)

\* The ends of such a list.
LEMMA SightBounds ==
  ASSUME NEW list, InSight(list)
  PROVE  /\ Len(list) \in Nat \ {0} /\ HalfRange \in Nat
         /\ 1 \in 1..Len(list) /\ Len(list) \in 1..Len(list)
         /\ LowEnd(list) \in Int
         /\ \A i \in 1..Len(list) : /\ list[i].n \in Int /\ list[i].n <= list[1].n
                                    /\ LowEnd(list) <= list[i].n
                                    /\ list[i].n - LowEnd(list) <= HalfRange
                                    /\ list[Len(list)].n <= list[i].n
<1>1. list \in Seq(Packets) /\ list # <<>>
  BY DEF InSight, WellOrdered
<1>2. /\ Len(list) \in Nat \ {0} /\ 1 \in 1..Len(list) /\ Len(list) \in 1..Len(list)
      /\ \A i \in 1..Len(list) : list[i].n \in Int
  <2>1. Len(list) \in Nat \ {0}
    BY <1>1
  <2> QED BY <1>1, <2>1, PacketListType
<1>3. \A i \in 1..Len(list) : (i = 1 \/ 1 < i) /\ (i = Len(list) \/ i < Len(list))
  BY <1>2
<1>4. \A i \in 1..Len(list) : list[i].n <= list[1].n /\ list[Len(list)].n <= list[i].n
  <2> TAKE i \in 1..Len(list)
  <2>1. (i = 1 \/ list[i].n < list[1].n) /\ (i = Len(list) \/ list[Len(list)].n < list[i].n)
    BY <1>2, <1>3 DEF InSight, WellOrdered
  <2> QED BY <2>1, <1>2
<1>5. HalfRange \in Nat
  BY HalfRangeBounds
<1>6. CASE has_callback_packet
  <2>1. LowEnd(list) = latest_callback_seq /\ latest_callback_seq \in Int
    BY <1>6, SeqSpaceAssumption DEF LowEnd, InSight, SeqNums
  <2>2. \A i \in 1..Len(list) : /\ LowEnd(list) < list[i].n
                                /\ list[i].n - LowEnd(list) <= HalfRange
    BY <1>6, <2>1 DEF InSight
  <2>3. \A i \in 1..Len(list) : LowEnd(list) <= list[i].n
    BY <1>2, <2>1, <2>2
  <2> QED BY <1>2, <1>4, <1>5, <2>1, <2>2, <2>3
<1>7. CASE ~has_callback_packet
  <2>1. LowEnd(list) = list[Len(list)].n
    BY <1>7 DEF LowEnd
  <2>2. \A i \in 1..Len(list) : list[i].n - list[Len(list)].n <= HalfRange
    BY <1>2 DEF InSight, WellOrdered
  <2> QED BY <1>2, <1>4, <1>5, <2>1, <2>2
<1> QED BY <1>6, <1>7

\* A list of what the cache waits for fits it.
LEMMA ListedFits ==
  ASSUME NEW list, InSight(list), NEW losses, ListsLosses(losses, Awaited(list))
  PROVE  LossesFit(losses, list, has_callback_packet, latest_callback_seq)
<1> DEFINE lo == LowEnd(list)
           hi == list[1].n
           len == Len(list)
<1>1. /\ len \in Nat \ {0} /\ HalfRange \in Nat /\ lo \in Int /\ hi \in Int
      /\ hi - lo <= HalfRange
      /\ \A i \in 1..len : /\ list[i].n \in Int /\ list[i].n <= hi /\ lo <= list[i].n
  BY SightBounds
<1>2. /\ losses \in Seq(LossEntries)
      /\ \A i, j \in 1..Len(losses) : i < j => losses[j].seq < losses[i].seq
      /\ \A i \in 1..Len(losses) : losses[i].seq \in Awaited(list)
      /\ \A m \in Awaited(list) : \E i \in 1..Len(losses) : losses[i].seq = m
  BY DEF ListsLosses
<1>3. \A m \in Int : m \in Awaited(list)
                     <=> lo < m /\ m < hi /\ \A k \in 1..len : list[k].n # m
  BY <1>1 DEF Awaited
<1>4. Awaited(list) \subseteq Int /\ list # <<>>
  BY <1>1 DEF Awaited, InSight
<1>5. has_callback_packet => lo = latest_callback_seq
  BY DEF LowEnd
<1>6. ~has_callback_packet => lo = list[len].n
  BY DEF LowEnd
<1> HIDE DEF lo, hi, len
<1>7. \A m \in Awaited(list) : m \in Int /\ lo < m /\ m < hi
  BY <1>3, <1>4
<1>8. ASSUME NEW i \in 1..Len(losses), NEW k \in 1..len
      PROVE  Within(losses[i].seq, list[k].n, HalfRange)
  <2> DEFINE e == losses[i].seq
             p == list[k].n
  <2>1. e \in Int /\ lo < e /\ e < hi /\ p \in Int /\ p <= hi /\ lo <= p
    BY <1>1, <1>2, <1>7
  <2> HIDE DEF e, p
  <2>2. Within(e, p, HalfRange)
    BY <2>1, <1>1 DEF Within
  <2> QED BY <2>2 DEF e, p
<1>9. ASSUME NEW i \in 1..Len(losses)
      PROVE  Within(losses[i].seq, lo, HalfRange)
  <2> DEFINE e == losses[i].seq
  <2>1. e \in Int /\ lo < e /\ e < hi
    BY <1>2, <1>7
  <2> HIDE DEF e
  <2>2. Within(e, lo, HalfRange)
    BY <2>1, <1>1 DEF Within
  <2> QED BY <2>2 DEF e
<1>10. ASSUME NEW m \in Int
       PROVE  (\E i \in 1..Len(losses) : losses[i].seq = m)
                <=> lo < m /\ m < hi /\ \A k \in 1..len : list[k].n # m
  BY <1>2, <1>3
<1>11. /\ \A i \in 1..Len(losses), k \in 1..Len(list) : Within(losses[i].seq, list[k].n, HalfRange)
       /\ has_callback_packet => \A i \in 1..Len(losses) : Within(losses[i].seq, latest_callback_seq, HalfRange)
  BY <1>5, <1>8, <1>9 DEF len
<1>12. \A m \in Int : (\E i \in 1..Len(losses) : losses[i].seq = m)
          <=> /\ list # <<>> /\ m < list[1].n
              /\ IF has_callback_packet THEN latest_callback_seq < m ELSE list[Len(list)].n < m
              /\ \A k \in 1..Len(list) : list[k].n # m
  BY <1>4, <1>5, <1>6, <1>10 DEF len, hi
<1> QED BY <1>2, <1>11, <1>12 DEF LossesFit

\* The packets of list are those of old and the one at position n.
AddsOne(list, old, n) ==
  \A m \in Int : (\E i \in 1..Len(list) : list[i].n = m)
                 <=> (m = n \/ \E i \in 1..Len(old) : old[i].n = m)

\* Entries of loss_seqs in their order, without the number n.
IsRest(losses, n) ==
  /\ losses \in Seq(LossEntries)
  /\ \A i, j \in 1..Len(losses) : i < j => losses[j].seq < losses[i].seq
  /\ \A i \in 1..Len(losses) : /\ losses[i].seq # n
                                /\ \E k \in 1..Len(loss_seqs) : loss_seqs[k].seq = losses[i].seq

\* A number that stays listed is one the cache waits for.
LEMMA RestIsAwaited ==
  ASSUME NEW list, InSight(list), NEW old, NEW n \in Int,
         LossesFit(loss_seqs, old, has_callback_packet, latest_callback_seq),
         old # <<>> => InSight(old),
         AddsOne(list, old, n), NEW e \in Int, e # n,
         \E k \in 1..Len(loss_seqs) : loss_seqs[k].seq = e,
         has_callback_packet => LowEnd(list) < e
  PROVE  LowEnd(list) < e /\ e \in Awaited(list)
<1> DEFINE lo == LowEnd(list)
           hi == list[1].n
<1>a. \A m \in Int : (\E i \in 1..Len(list) : list[i].n = m)
                     <=> (m = n \/ \E i \in 1..Len(old) : old[i].n = m)
  BY DEF AddsOne
<1>1. /\ Len(list) \in Nat \ {0} /\ lo \in Int /\ hi \in Int
      /\ \A i \in 1..Len(list) : /\ list[i].n \in Int /\ list[i].n <= hi
                                 /\ list[Len(list)].n <= list[i].n
  BY SightBounds
<1>2. \A m \in Int : m \in Awaited(list)
                     <=> lo < m /\ m < hi /\ \A k \in 1..Len(list) : list[k].n # m
  BY <1>1 DEF Awaited
<1>3. has_callback_packet => lo = latest_callback_seq /\ lo < e
  BY DEF LowEnd
<1> HIDE DEF lo, hi
<1>4. /\ old # <<>> /\ e < old[1].n
      /\ ~has_callback_packet => old[Len(old)].n < e
      /\ \A k \in 1..Len(old) : old[k].n # e
  BY <1>3 DEF LossesFit
<1>5. /\ 1 \in 1..Len(old) /\ Len(old) \in 1..Len(old)
      /\ old[1].n \in Int /\ old[Len(old)].n \in Int
  BY <1>4, SightBounds
<1>6. PICK a \in 1..Len(list) : list[a].n = old[1].n
  BY <1>a, <1>5
<1>7. PICK b \in 1..Len(list) : list[b].n = old[Len(old)].n
  BY <1>a, <1>5
<1>8. e < hi
  BY <1>1, <1>4, <1>6
<1>9. lo < e
  <2>1. CASE has_callback_packet
    BY <2>1, <1>3
  <2>2. CASE ~has_callback_packet
    <3>1. lo = list[Len(list)].n
      BY <2>2 DEF lo, LowEnd
    <3>2. lo <= old[Len(old)].n
      BY <1>1, <1>7, <3>1
    <3> QED BY <3>2, <1>1, <1>4, <1>5, <2>2
  <2> QED BY <2>1, <2>2
<1>10. \A k \in 1..Len(list) : list[k].n # e
  BY <1>a, <1>4
<1>11. lo < e /\ e \in Awaited(list)
  BY <1>2, <1>8, <1>9, <1>10
<1> QED BY <1>11 DEF lo

\* Without the number of the packet that came, what is listed can be
\* supplemented.
LEMMA RestIsPlaced ==
  ASSUME NEW list, InSight(list), NEW old, NEW n \in Int,
         LossesFit(loss_seqs, old, has_callback_packet, latest_callback_seq),
         old # <<>> => InSight(old),
         AddsOne(list, old, n), NEW losses, IsRest(losses, n)
  PROVE  Placing([list |-> losses, pos |-> 1],
                 IF has_callback_packet THEN LowEnd(list) - HalfRange ELSE LowEnd(list) + 1,
                 LowEnd(list), list[1].n,
                 {m \in Awaited(list) : \E i \in 1..Len(losses) : losses[i].seq = m})
<1> DEFINE lo == LowEnd(list)
           hi == list[1].n
           low == IF has_callback_packet THEN lo - HalfRange ELSE lo + 1
           S == {m \in Awaited(list) : \E i \in 1..Len(losses) : losses[i].seq = m}
           acc == [list |-> losses, pos |-> 1]
<1>0. /\ losses \in Seq(LossEntries)
      /\ \A i, j \in 1..Len(losses) : i < j => losses[j].seq < losses[i].seq
      /\ \A i \in 1..Len(losses) : /\ losses[i].seq # n
                                    /\ \E k \in 1..Len(loss_seqs) : loss_seqs[k].seq = losses[i].seq
  BY DEF IsRest
<1>a. \A m \in Int : (\E i \in 1..Len(list) : list[i].n = m)
                     <=> (m = n \/ \E i \in 1..Len(old) : old[i].n = m)
  BY DEF AddsOne
<1>1. /\ Len(list) \in Nat \ {0} /\ HalfRange \in Nat /\ lo \in Int /\ hi \in Int
      /\ Len(list) \in 1..Len(list)
      /\ \A i \in 1..Len(list) : /\ list[i].n \in Int /\ list[i].n <= hi
                                 /\ list[Len(list)].n <= list[i].n
  BY SightBounds
<1>2. \A i \in 1..Len(losses) : losses[i].seq \in Int
  BY <1>0, LossListType
<1>3. \A m \in Int : m \in Awaited(list)
                     <=> lo < m /\ m < hi /\ \A k \in 1..Len(list) : list[k].n # m
  BY <1>1 DEF Awaited
<1>4. acc.list = losses /\ acc.pos = 1 /\ acc \in Placings
  <2>1. acc \in [list : Seq(LossEntries), pos : Nat] /\ 1 \in 1..(Len(losses) + 1)
    BY <1>0
  <2> QED BY <2>1 DEF Placings
<1> HIDE DEF lo, hi, acc
<1>5. ASSUME NEW i \in 1..Len(losses), has_callback_packet => lo < losses[i].seq
      PROVE  lo < losses[i].seq /\ losses[i].seq \in Awaited(list)
  <2>1. /\ losses[i].seq \in Int /\ losses[i].seq # n
        /\ \E k \in 1..Len(loss_seqs) : loss_seqs[k].seq = losses[i].seq
    BY <1>0, <1>2
  <2> QED BY <2>1, <1>5, RestIsAwaited DEF lo
<1>6. ASSUME NEW i \in 1..Len(losses)
      PROVE  IF lo < losses[i].seq THEN losses[i].seq \in S ELSE low <= losses[i].seq
  <2>1. CASE lo < losses[i].seq
    BY <2>1, <1>5
  <2>2. CASE ~(lo < losses[i].seq)
    <3>1. has_callback_packet /\ lo = latest_callback_seq
      BY <1>5, <2>2 DEF lo, LowEnd
    <3>2. Within(losses[i].seq, lo, HalfRange)
      BY <1>0, <3>1 DEF LossesFit
    <3>3. low <= losses[i].seq
      BY <3>1, <3>2, <1>1, <1>2 DEF Within
    <3> QED BY <2>2, <3>3
  <2> QED BY <2>1, <2>2
<1>7. \A i, j \in 1..Len(losses) : 1 <= i /\ i < j /\ lo < losses[j].seq => lo < losses[i].seq
  <2> TAKE i, j \in 1..Len(losses)
  <2> HAVE 1 <= i /\ i < j /\ lo < losses[j].seq
  <2>1. losses[j].seq < losses[i].seq /\ losses[j].seq \in Int /\ losses[i].seq \in Int
    BY <1>0, <1>2
  <2> QED BY <2>1, <1>1
<1>8. \A m \in S : \E i \in 1..Len(losses) : losses[i].seq = m
  OBVIOUS
<1> HIDE DEF S, low
<1>9. Placing(acc, low, lo, hi, S)
  BY <1>0, <1>4, <1>6, <1>7, <1>8 DEF Placing
<1> QED BY <1>9 DEF acc, low, lo, hi, S

\* The entries of others are those of loss_seqs except the one of n.
IsWithout(others, n) ==
  /\ others \in Seq(LossEntries)
  /\ \A i \in 1..Len(others) : /\ others[i].seq # n
                                /\ \E k \in 1..Len(loss_seqs) : others[i] = loss_seqs[k]
  /\ \A k \in 1..Len(loss_seqs) : loss_seqs[k].seq # n
                                    => \E i \in 1..Len(others) : others[i] = loss_seqs[k]

\* PutPacket with a packet that is not late lists what the cache waits for.
LEMMA PutLists ==
  ASSUME DeliveryInv, StatsInv, NEW n \in Positions, WithinReach(n),
         \A m \in arrived \cup {n} : m < SeqSpace,
         LossesFit(loss_seqs, cached_packets, has_callback_packet, latest_callback_seq),
         ~IsLate(SeqAt(n))
  PROVE  LET list == CacheAfterPut(n)
         IN  /\ InSight(list) /\ AddsOne(list, cached_packets, n)
             /\ cached_packets # <<>> => InSight(cached_packets)
             /\ ListsLosses(LossAfterPut(SeqAt(n), list), Awaited(list))
             /\ \E others : /\ IsWithout(others, n)
                            /\ LossAfterPut(SeqAt(n), list) = SupplementLossSeqs(others, list)
<1> DEFINE list == CacheAfterPut(n)
           p == [n |-> n, timeout |-> now + MaxCacheDuration]
<1>1. /\ Deliverable(cached_packets, arrived) /\ Deliverable(list, arrived \cup {n})
  BY InvGivesDeliverable, PutKeepsDeliverable
<1>2. /\ arrived \cup {n} \subseteq SeqNums /\ SeqNums \subseteq Int
      /\ n \in Int /\ n \in SeqNums
  <2>1. arrived \cup {n} \subseteq Nat
    BY ReceiverAssumption DEF DeliveryInv, CacheTypeOK
  <2> QED BY <2>1, SeqSpaceAssumption DEF SeqNums
<1>3. SeqAt(n) = n
  BY <1>2, SeqAtOfSeq
<1>4. has_callback_packet => /\ delivered # <<>>
                             /\ latest_callback_seq = Last(delivered)
                             /\ latest_callback_seq \in SeqNums
  <2>1. SUFFICES ASSUME has_callback_packet
                 PROVE  /\ delivered # <<>>
                        /\ latest_callback_seq = Last(delivered)
                        /\ latest_callback_seq \in SeqNums
    OBVIOUS
  <2>2. delivered # <<>> /\ latest_callback_seq = SeqAt(Last(delivered))
    BY <2>1 DEF DeliveryInv, CacheInReach
  <2>3. Last(delivered) \in SeqNums
    BY <1>2, <2>2 DEF StatsInv
  <2> QED BY <2>2, <2>3, SeqAtOfSeq
<1>5. ASSUME NEW cache, NEW S \in SUBSET SeqNums, Deliverable(cache, S), cache # <<>>
      PROVE  InSight(cache)
  <2>1. \A i \in 1..Len(cache) : cache[i].n \in Int
    BY <1>5, PacketListType DEF Deliverable, WellOrdered
  <2>2. \A i \in 1..Len(cache) : cache[i].n \in SeqNums
    BY <1>5, <2>1 DEF Deliverable
  <2>3. has_callback_packet => \A i \in 1..Len(cache) :
           /\ latest_callback_seq < cache[i].n
           /\ cache[i].n - latest_callback_seq <= HalfRange
    BY <1>4, <1>5 DEF Deliverable
  <2> QED BY <1>4, <1>5, <2>2, <2>3 DEF InSight, Deliverable, DeliveryInv, CacheTypeOK
<1>6. /\ Len(list) >= 1
      /\ \A m \in Int : (\E i \in 1..Len(list) : list[i].n = m)
                        <=> (m = n \/ \E i \in 1..Len(cached_packets) : cached_packets[i].n = m)
  <2>1. list = InsertPacket(cached_packets, p)
    BY DEF CacheAfterPut
  <2>2. WellOrdered(cached_packets) /\ InReachOf(p.n, cached_packets)
    BY <1>1 DEF Deliverable, WithinReach, InReachOf, Within, DeliveryInv, CacheTypeOK
  <2>3. p \in Packets /\ p.n = n
    BY ReceiverAssumption DEF DeliveryInv, CacheTypeOK, Packets
  <2> HIDE DEF p, list
  <2> DEFINE r == InsertPacket(cached_packets, p)
  <2>4. /\ Len(r) >= 1
        /\ \A m \in Int : (\E i \in 1..Len(r) : r[i].n = m)
                          <=> (m = p.n \/ \E i \in 1..Len(cached_packets) : cached_packets[i].n = m)
    BY <2>2, <2>3, InsertPacketCorrect
  <2> QED BY <2>1, <2>3, <2>4
<1> HIDE DEF list
<1>7. InSight(list) /\ (cached_packets # <<>> => InSight(cached_packets))
  <2>1. list # <<>>
    BY <1>6
  <2>2. \A cache : \A S \in SUBSET SeqNums :
           Deliverable(cache, S) /\ cache # <<>> => InSight(cache)
    BY <1>5
  <2>3. arrived \in SUBSET SeqNums /\ arrived \cup {n} \in SUBSET SeqNums
    BY <1>2
  <2> QED BY <1>1, <2>1, <2>2, <2>3
<1> DEFINE I == {i \in DOMAIN loss_seqs :
                   loss_seqs[i].seq = n => \E j \in 1..(i - 1) : loss_seqs[j].seq = n}
           others == Picked(loss_seqs, I)
<1>8. /\ loss_seqs \in Seq(LossEntries) /\ DOMAIN loss_seqs = 1..Len(loss_seqs)
      /\ Len(loss_seqs) \in Nat
      /\ \A i \in 1..Len(loss_seqs) : loss_seqs[i].seq \in Int
      /\ \A i, j \in 1..Len(loss_seqs) : i < j => loss_seqs[j].seq < loss_seqs[i].seq
  <2>1. /\ loss_seqs \in Seq(LossEntries)
        /\ \A i, j \in 1..Len(loss_seqs) : i < j => loss_seqs[j].seq < loss_seqs[i].seq
    BY DEF LossesFit
  <2> QED BY <2>1, LossListType
<1>9. \A i \in I : i \in 1..Len(loss_seqs) /\ loss_seqs[i].seq # n
  <2> TAKE i \in I
  <2>1. i \in 1..Len(loss_seqs)
    BY <1>8
  <2>2. \A j \in 1..(i - 1) : j \in 1..Len(loss_seqs) /\ j < i
    BY <1>8, <2>1
  <2> QED BY <1>2, <1>8, <2>1, <2>2
<1>10. /\ others \in Seq(LossEntries) /\ HasPicked(others, loss_seqs, I)
       /\ \A i, j \in 1..Len(others) : i < j =>
            \E k, l \in I \cap (1..Len(loss_seqs)) :
              k < l /\ others[i] = loss_seqs[k] /\ others[j] = loss_seqs[l]
  <2> HIDE DEF I
  <2> QED BY <1>8, PickedElements, PickedOrder
<1>11. LossAfterPut(SeqAt(n), list) = SupplementLossSeqs(others, list)
  BY <1>3 DEF LossAfterPut
<1> HIDE DEF I, others
<1>12. \A i, j \in 1..Len(others) : i < j => others[j].seq < others[i].seq
  BY <1>8, <1>10
<1>13. \A i \in 1..Len(others) : /\ others[i].seq # n
                                 /\ \E k \in 1..Len(loss_seqs) : loss_seqs[k].seq = others[i].seq
  <2> TAKE i \in 1..Len(others)
  <2>1. PICK k \in I : others[i] = loss_seqs[k]
    BY <1>10 DEF HasPicked
  <2> QED BY <1>9, <2>1
<1> DEFINE low == IF has_callback_packet THEN LowEnd(list) - HalfRange ELSE LowEnd(list) + 1
           S == {m \in Awaited(list) : \E i \in 1..Len(others) : others[i].seq = m}
<1>14. Placing([list |-> others, pos |-> 1], low, LowEnd(list), list[1].n, S)
  <2>1. AddsOne(list, cached_packets, n) /\ IsRest(others, n)
    BY <1>6, <1>10, <1>12, <1>13 DEF AddsOne, IsRest
  <2> QED BY <1>2, <1>7, <2>1, RestIsPlaced
<1>15. low \in Int
  BY <1>7, SightBounds
<1>16. S \in SUBSET Awaited(list)
  OBVIOUS
<1>17. low = IF has_callback_packet THEN LowEnd(list) - HalfRange ELSE LowEnd(list) + 1
  OBVIOUS
<1> HIDE DEF low, S
<1>18. ListsLosses(SupplementLossSeqs(others, list), Awaited(list))
  BY <1>7, <1>10, <1>14, <1>15, <1>16, <1>17, SupplementCorrect DEF InSight
<1>19. IsWithout(others, n)
  <2>1. \A k \in 1..Len(loss_seqs) : loss_seqs[k].seq # n => k \in I
    BY <1>2, <1>8 DEF I
  <2>2. \A i \in 1..Len(others) : \E k \in 1..Len(loss_seqs) : others[i] = loss_seqs[k]
    BY <1>10 DEF HasPicked
  <2>3. \A k \in I \cap (1..Len(loss_seqs)) : \E i \in 1..Len(others) : others[i] = loss_seqs[k]
    BY <1>10 DEF HasPicked
  <2> QED BY <1>10, <1>13, <2>1, <2>2, <2>3 DEF IsWithout
<1>20. AddsOne(list, cached_packets, n)
  BY <1>6 DEF AddsOne
<1> QED BY <1>7, <1>11, <1>18, <1>19, <1>20 DEF list

\* PutPacket keeps the losses fitting the cache.
LEMMA PutFits ==
  ASSUME DeliveryInv, StatsInv, NEW n \in Positions, WithinReach(n),
         \A m \in arrived \cup {n} : m < SeqSpace,
         LossesFit(loss_seqs, cached_packets, has_callback_packet, latest_callback_seq)
  PROVE  LET list == CacheAfterPut(n)
         IN  LossesFit(IF IsLate(SeqAt(n)) THEN loss_seqs ELSE LossAfterPut(SeqAt(n), list),
                       list, has_callback_packet, latest_callback_seq)
<1>1. CASE IsLate(SeqAt(n))
  BY <1>1 DEF CacheAfterPut
<1>2. CASE ~IsLate(SeqAt(n))
  BY <1>2, PutLists, ListedFits
<1> QED BY <1>1, <1>2

\* Delivery from the c-th packet on keeps the losses fitting.
LEMMA DeliverFits ==
  ASSUME NEW losses, NEW list, NEW called \in BOOLEAN, NEW last \in Int, WellOrdered(list),
         LossesFit(losses, list, called, last),
         called => \A k \in 1..Len(list) : last < list[k].n,
         NEW c \in 1..Len(list)
  PROVE  LossesFit(losses, SubSeq(list, 1, c - 1), TRUE, list[c].n)
<1> DEFINE rest == SubSeq(list, 1, c - 1)
<1>1. /\ list \in Seq(Packets) /\ Len(list) \in Nat /\ c \in 1..Len(list) /\ list # <<>>
      /\ \A k \in 1..Len(list) : list[k].n \in Int
      /\ \A i, j \in 1..Len(list) : i < j => list[j].n < list[i].n
  <2>1. list \in Seq(Packets) /\ \A i, j \in 1..Len(list) : i < j => list[j].n < list[i].n
    BY DEF WellOrdered
  <2> QED BY <2>1, PacketListType
<1>2. /\ Len(rest) = c - 1 /\ rest \in Seq(Packets)
      /\ \A k \in 1..(c - 1) : rest[k] = list[k] /\ k \in 1..Len(list)
  BY <1>1
<1> HIDE DEF rest
<1>3. /\ losses \in Seq(LossEntries)
      /\ \A i, j \in 1..Len(losses) : i < j => losses[j].seq < losses[i].seq
      /\ \A i \in 1..Len(losses), k \in 1..Len(list) : Within(losses[i].seq, list[k].n, HalfRange)
      /\ \A m \in Int : (called => last < m) =>
           ((\E i \in 1..Len(losses) : losses[i].seq = m)
              <=> /\ list # <<>> /\ m < list[1].n
                  /\ IF called THEN last < m ELSE list[Len(list)].n < m
                  /\ \A k \in 1..Len(list) : list[k].n # m)
  BY DEF LossesFit
<1>4. ASSUME NEW m \in Int, list[c].n < m
      PROVE  (\E i \in 1..Len(losses) : losses[i].seq = m)
               <=> rest # <<>> /\ m < rest[1].n /\ \A k \in 1..Len(rest) : rest[k].n # m
  <2>1. \A k \in c..Len(list) : list[k].n < m
    <3> TAKE k \in c..Len(list)
    <3>1. k \in 1..Len(list) /\ (k = c \/ list[k].n < list[c].n)
      BY <1>1
    <3> QED BY <3>1, <1>1, <1>4
  <2>2. called => last < m
    <3>1. called => last < list[c].n
      OBVIOUS
    <3> QED BY <3>1, <1>1, <1>4
  <2>3. list[Len(list)].n < m
    BY <1>1, <2>1
  <2>4. (\E i \in 1..Len(losses) : losses[i].seq = m)
          <=> m < list[1].n /\ \A k \in 1..Len(list) : list[k].n # m
    BY <1>1, <1>3, <2>2, <2>3
  <2>5. \A k \in 1..Len(list) : k \in 1..(c - 1) \/ k \in c..Len(list)
    BY <1>1
  <2>6. (\A k \in 1..Len(list) : list[k].n # m) <=> \A k \in 1..(c - 1) : list[k].n # m
    <3>1. \A k \in 1..Len(list) : k \in 1..(c - 1) \/ list[k].n # m
      <4> TAKE k \in 1..Len(list)
      <4>1. list[k].n \in Int /\ (k \in 1..(c - 1) \/ list[k].n < m)
        BY <1>1, <2>1, <2>5
      <4> QED BY <4>1
    <3> QED BY <1>2, <3>1
  <2>7. CASE c = 1
    <3>1. ~(m < list[1].n) /\ rest = <<>>
      BY <1>1, <1>2, <1>4, <2>7
    <3> QED BY <2>4, <3>1
  <2>8. CASE c # 1
    <3>1. rest # <<>> /\ rest[1] = list[1]
      BY <1>1, <1>2, <2>8
    <3> QED BY <1>2, <2>4, <2>6, <3>1
  <2> QED BY <2>7, <2>8
<1>5. \A i \in 1..Len(losses), k \in 1..Len(rest) : Within(losses[i].seq, rest[k].n, HalfRange)
  BY <1>2, <1>3
<1>6. \A i \in 1..Len(losses) : Within(losses[i].seq, list[c].n, HalfRange)
  BY <1>3
<1>7. LossesFit(losses, rest, TRUE, list[c].n)
  BY <1>3, <1>4, <1>5, <1>6 DEF LossesFit
<1> QED BY <1>7 DEF rest

\* Asking for the losses changes none of their numbers.
LEMMA NotifiedFits ==
  ASSUME NEW losses, NEW list, NEW called, NEW last, now \in Nat,
         LossesFit(losses, list, called, last)
  PROVE  LossesFit(MarkNotified(losses), list, called, last)
<1> DEFINE marked == MarkNotified(losses)
           entry(i) == IF IsNackDue(losses[i])
                       THEN [losses[i] EXCEPT !.notified = TRUE, !.last_notify = now]
                       ELSE losses[i]
<1>1. losses \in Seq(LossEntries)
  BY DEF LossesFit
<1>2. marked = [i \in 1..Len(losses) |-> entry(i)] /\ Len(losses) \in Nat
  BY <1>1 DEF MarkNotified
<1>3. \A i \in 1..Len(losses) : entry(i) \in LossEntries /\ entry(i).seq = losses[i].seq
  <2>1. \A e \in LossEntries : LET f == [e EXCEPT !.notified = TRUE, !.last_notify = now]
                               IN  f \in LossEntries /\ f.seq = e.seq
    BY DEF LossEntries
  <2>2. \A i \in 1..Len(losses) : losses[i] \in LossEntries
    BY <1>1
  <2> QED BY <2>1, <2>2
<1> HIDE DEF entry, marked
<1>4. /\ marked \in Seq(LossEntries) /\ Len(marked) = Len(losses)
      /\ \A i \in 1..Len(losses) : marked[i].seq = losses[i].seq
  BY <1>2, <1>3
<1>5. LossesFit(marked, list, called, last)
  BY <1>4 DEF LossesFit
<1> QED BY <1>5 DEF marked

\* The inductive invariant of the loss list.
LossInv ==
  InFirstCycle => LossesFit(loss_seqs, cached_packets, has_callback_packet, latest_callback_seq)

\* An arriving packet keeps the losses fitting.
LEMMA ArrivalKeepsLosses ==
  ASSUME DeliveryInv, StatsInv, LossInv,
         NEW n \in Positions, NEW kind, OnRtpPacket(n, kind)
  PROVE  LossInv'
<1> DEFINE list == CacheAfterPut(n)
           losses == IF IsLate(SeqAt(n)) THEN loss_seqs ELSE LossAfterPut(SeqAt(n), list)
           cut == CutOf(list)
<1> SUFFICES ASSUME InFirstCycle'
             PROVE  LossesFit(loss_seqs', cached_packets', has_callback_packet', latest_callback_seq')
  BY DEF LossInv, LossesFit
<1>1. /\ WithinReach(n) /\ GetPackets(list) /\ arrived' = arrived \cup {n}
      /\ loss_seqs' = MarkNotified(losses)
  BY DEF OnRtpPacket
<1>2. \A m \in arrived \cup {n} : m < SeqSpace
  BY <1>1 DEF InFirstCycle
<1>a. arrived \cup {n} \subseteq SeqNums
  <2>1. arrived \cup {n} \subseteq Nat
    BY ReceiverAssumption DEF DeliveryInv, CacheTypeOK
  <2> QED BY <1>2, <2>1, SeqSpaceAssumption DEF SeqNums
<1>3. LossesFit(loss_seqs, cached_packets, has_callback_packet, latest_callback_seq)
  <2>1. InFirstCycle
    BY <1>2 DEF InFirstCycle
  <2> QED BY <2>1 DEF LossInv
<1>4. LossesFit(losses, list, has_callback_packet, latest_callback_seq)
  BY <1>1, <1>2, <1>3, PutFits
<1>5. Deliverable(list, arrived \cup {n})
  BY <1>1, PutKeepsDeliverable
<1> HIDE DEF list, losses
<1>6. /\ WellOrdered(list) /\ list \in Seq(Packets) /\ Len(list) \in Nat
      /\ cut \in 1..(Len(list) + 1)
  <2>1. WellOrdered(list) /\ list \in Seq(Packets)
    BY <1>5 DEF Deliverable, WellOrdered
  <2> QED BY <2>1, CutOfRange
<1>7. /\ cached_packets' = SubSeq(list, 1, cut - 1)
      /\ IF cut <= Len(list)
         THEN latest_callback_seq' = SeqOfPacket(list[cut]) /\ has_callback_packet' = TRUE
         ELSE UNCHANGED <<latest_callback_seq, has_callback_packet>>
  BY <1>1 DEF GetPackets
<1> HIDE DEF cut
<1>8. LossesFit(losses, cached_packets', has_callback_packet', latest_callback_seq')
  <2>1. CASE cut = Len(list) + 1
    <3>1. cached_packets' = list
      BY <1>6, <1>7, <2>1, SubSeqFull
    <3>2. ~(cut <= Len(list))
      BY <1>6, <2>1
    <3>3. latest_callback_seq' = latest_callback_seq /\ has_callback_packet' = has_callback_packet
      BY <1>7, <3>2
    <3> QED BY <1>4, <3>1, <3>3
  <2>2. CASE cut \in 1..Len(list)
    <3>1. list[cut].n \in SeqNums
      <4>1. list[cut].n \in Int
        BY <1>6, <2>2, PacketListType
      <4>2. list[cut].n \in arrived \cup {n}
        BY <1>5, <2>2, <4>1 DEF Deliverable
      <4> QED BY <1>a, <4>2
    <3>2. latest_callback_seq' = list[cut].n /\ has_callback_packet' = TRUE
      BY <1>6, <1>7, <2>2, <3>1, SeqAtOfSeq DEF SeqOfPacket
    <3>3. /\ has_callback_packet \in BOOLEAN /\ latest_callback_seq \in Int
          /\ has_callback_packet => \A k \in 1..Len(list) : latest_callback_seq < list[k].n
      <4>1. has_callback_packet \in BOOLEAN /\ latest_callback_seq \in Int
        BY SeqSpaceAssumption DEF DeliveryInv, CacheTypeOK, SeqNums
      <4>2. ASSUME has_callback_packet
            PROVE  \A k \in 1..Len(list) : latest_callback_seq < list[k].n
        <5>1. delivered # <<>> /\ latest_callback_seq = SeqAt(Last(delivered))
          BY <4>2 DEF DeliveryInv, CacheInReach
        <5>2. Last(delivered) \in SeqNums
          <6>1. Last(delivered) \in arrived
            BY <5>1 DEF StatsInv
          <6> QED BY <1>a, <6>1
        <5>3. latest_callback_seq = Last(delivered)
          BY <5>1, <5>2, SeqAtOfSeq
        <5> QED BY <1>5, <5>1, <5>3 DEF Deliverable
      <4> QED BY <4>1, <4>2
    <3>4. LossesFit(losses, SubSeq(list, 1, cut - 1), TRUE, list[cut].n)
      BY <1>4, <1>6, <2>2, <3>3, DeliverFits
    <3> QED BY <1>7, <3>2, <3>4
  <2> QED BY <1>6, <2>1, <2>2
<1>9. now \in Nat
  BY ReceiverAssumption DEF DeliveryInv, CacheTypeOK
<1> QED BY <1>1, <1>8, <1>9, NotifiedFits

\* LossInv is an invariant, given the other two.
LEMMA LossHold == Spec => []LossInv
<1>1. Init => LossInv
  <2> SUFFICES ASSUME Init PROVE LossesFit(loss_seqs, cached_packets, FALSE, latest_callback_seq)
    BY DEF Init, LossInv
  <2>1. loss_seqs = <<>> /\ cached_packets = <<>>
    BY DEF Init
  <2> QED BY <2>1 DEF LossesFit
<1>2. DeliveryInv /\ StatsInv /\ LossInv /\ [Next]_vars => LossInv'
  <2> SUFFICES ASSUME DeliveryInv, StatsInv, LossInv, [Next]_vars PROVE LossInv'
    OBVIOUS
  <2>1. ASSUME NEW n \in Positions, NEW kind \in Kinds, OnRtpPacket(n, kind)
        PROVE  LossInv'
    BY <2>1, ArrivalKeepsLosses
  <2>2. CASE UNCHANGED <<cacheVars, arrived>>
    BY <2>2 DEF cacheVars, LossInv, LossesFit, InFirstCycle
  <2>3. \/ \E n \in Positions, kind \in Kinds : OnRtpPacket(n, kind)
        \/ UNCHANGED <<cacheVars, arrived>>
    BY DEF Next, Tick, RejectRtpPacket, vars
  <2> QED BY <2>1, <2>2, <2>3
<1> QED BY <1>1, <1>2, InvHolds, StatsHold, PTL DEF Spec

\* Until the counter wraps the loss list is exact, whatever is reordered, lost or
\* delayed: what NACK asks for is what the cache waits for.
THEOREM LossListExact == Spec => []LossListIsGaps
<1>1. DeliveryInv /\ StatsInv /\ LossInv => LossListIsGaps
  <2> SUFFICES ASSUME DeliveryInv, StatsInv, LossInv, InFirstCycle
               PROVE  ListedAsLost = {SeqAt(n) : n \in Gaps}
    BY DEF LossListIsGaps
  <2> DEFINE last == latest_callback_seq
             list == cached_packets
             held == {p.n : p \in ToSet(cached_packets)}
             Listed(m) == \E i \in 1..Len(loss_seqs) : loss_seqs[i].seq = m
  <2>1. LossesFit(loss_seqs, list, has_callback_packet, last)
    BY DEF LossInv
  <2>2. arrived \subseteq SeqNums /\ SeqNums \subseteq Int /\ SeqNums = 0..(SeqSpace - 1)
    <3>1. arrived \subseteq Nat
      BY ReceiverAssumption DEF DeliveryInv, CacheTypeOK
    <3> QED BY <3>1, SeqSpaceAssumption DEF SeqNums, InFirstCycle
  <2>3. /\ has_callback_packet <=> delivered # <<>>
        /\ has_callback_packet => last = Last(delivered) /\ last \in SeqNums
    <3>1. has_callback_packet <=> delivered # <<>>
      BY DEF DeliveryInv, CacheInReach
    <3>2. delivered # <<>> => Last(delivered) \in SeqNums /\ last = SeqAt(Last(delivered))
      BY <2>2 DEF StatsInv, DeliveryInv, CacheInReach
    <3> QED BY <3>1, <3>2, SeqAtOfSeq
  <2>4. /\ loss_seqs \in Seq(LossEntries) /\ Len(loss_seqs) \in Nat
        /\ \A i \in 1..Len(loss_seqs) : loss_seqs[i].seq \in SeqNums /\ loss_seqs[i].seq \in Int
    BY <2>1, LossListType DEF LossesFit
  <2>5. \A i \in 1..Len(loss_seqs) :
           ~IsLate(loss_seqs[i].seq) <=> (has_callback_packet => last < loss_seqs[i].seq)
    <3> TAKE i \in 1..Len(loss_seqs)
    <3> DEFINE e == loss_seqs[i].seq
    <3>1. e \in SeqNums /\ SeqAt(e) = e /\ e \in Int
      BY <2>4, SeqAtOfSeq
    <3>2. CASE has_callback_packet
      <4>1. SeqAt(last) = last /\ last \in Int
        BY <2>2, <2>3, <3>2, SeqAtOfSeq
      <4>2. Within(last, e, HalfRange)
        BY <2>1, <3>2 DEF LossesFit, Within
      <4>3. IsSeqAfter(SeqAt(last), SeqAt(e)) <=> last < e
        BY <3>1, <4>1, <4>2, SeqOrderIsStreamOrder
      <4> QED BY <3>1, <3>2, <4>1, <4>3 DEF IsLate
    <3>3. CASE ~has_callback_packet
      BY <3>3 DEF IsLate
    <3> QED BY <3>2, <3>3
  <2>6. ListedAsLost = {m \in Int : Listed(m) /\ (has_callback_packet => last < m)}
    <3>1. ToSet(loss_seqs) = {loss_seqs[i] : i \in 1..Len(loss_seqs)}
      BY <2>4 DEF ToSet
    <3> QED BY <2>4, <2>5, <3>1 DEF ListedAsLost
  <2>7. /\ list \in Seq(Packets) /\ Len(list) \in Nat
        /\ \A i \in 1..Len(list) : list[i].n \in SeqNums /\ list[i].n \in Int
        /\ \A i, j \in 1..Len(list) : i < j => list[j].n < list[i].n
        /\ has_callback_packet => \A i \in 1..Len(list) : last < list[i].n
        /\ held = {list[i].n : i \in 1..Len(list)}
    <3>1. Deliverable(list, arrived)
      BY InvGivesDeliverable
    <3>2. list \in Seq(Packets) /\ \A i, j \in 1..Len(list) : i < j => list[j].n < list[i].n
      BY <3>1 DEF Deliverable, WellOrdered
    <3>3. \A i \in 1..Len(list) : list[i].n \in Int
      BY <3>2, PacketListType
    <3>4. \A i \in 1..Len(list) : list[i].n \in SeqNums
      BY <2>2, <3>1, <3>3 DEF Deliverable
    <3>5. has_callback_packet => \A i \in 1..Len(list) : last < list[i].n
      BY <2>3, <3>1 DEF Deliverable
    <3>6. held = {list[i].n : i \in 1..Len(list)}
      BY <3>2 DEF ToSet
    <3>7. Len(list) \in Nat
      BY <3>2
    <3> HIDE DEF list, last, held
    <3> QED BY <3>2, <3>3, <3>4, <3>5, <3>6, <3>7
  <2> DEFINE Missing(m) == /\ list # <<>> /\ m < list[1].n
                           /\ IF has_callback_packet THEN last < m ELSE list[Len(list)].n < m
                           /\ \A k \in 1..Len(list) : list[k].n # m
  <2>8. ListedAsLost = {m \in Int : Missing(m)}
    <3>1. \A m \in Int : (has_callback_packet => last < m) => (Listed(m) <=> Missing(m))
      BY <2>1 DEF LossesFit
    <3>2. \A m \in Int : Missing(m) => (has_callback_packet => last < m)
      OBVIOUS
    <3> HIDE DEF Missing, Listed
    <3> QED BY <2>6, <3>1, <3>2
  <2> HIDE DEF held, last, list
  <2>9. Gaps = {m \in Int : Missing(m)}
    <3>1. CASE list = <<>>
      <4>1. held = {}
        BY <2>7, <3>1
      <4> QED BY <3>1, <4>1 DEF Gaps, held
    <3>2. CASE list # <<>>
      <4>1. Len(list) \in Nat \ {0} /\ 1 \in 1..Len(list) /\ Len(list) \in 1..Len(list)
        BY <2>7, <3>2
      <4>2. Spans(held, list[1].n, list[Len(list)].n)
        <5>1. \A i \in 1..Len(list) : list[Len(list)].n <= list[i].n /\ list[i].n <= list[1].n
          <6> TAKE i \in 1..Len(list)
          <6>1. (i = 1 \/ 1 < i) /\ (i = Len(list) \/ i < Len(list))
            BY <4>1
          <6>2. (i = 1 \/ list[i].n < list[1].n) /\ (i = Len(list) \/ list[Len(list)].n < list[i].n)
            BY <2>7, <4>1, <6>1
          <6> QED BY <2>7, <4>1, <6>2
        <5> QED BY <2>7, <4>1, <5>1 DEF Spans
      <4>3. held \in SUBSET Int /\ held # {}
        BY <2>7, <4>1
      <4>4. MaxOf(held) = list[1].n /\ MinOf(held) = list[Len(list)].n
        BY <4>2, <4>3, SpansAreBounds
      <4> DEFINE low == IF has_callback_packet THEN last ELSE list[Len(list)].n
      <4>5. Gaps = (low + 1)..(list[1].n - 1) \ held
        BY <2>3, <4>3, <4>4 DEF Gaps, held, last
      <4>6. low \in Int /\ list[1].n \in Int
        BY <2>2, <2>3, <2>7, <4>1
      <4>7. \A m \in Int : Missing(m) <=> low < m /\ m < list[1].n /\ m \notin held
        BY <2>7, <3>2
      <4> HIDE DEF low, Missing
      <4>8. \A m \in Int : m \in (low + 1)..(list[1].n - 1) <=> low < m /\ m < list[1].n
        BY <4>6
      <4>9. \A m \in (low + 1)..(list[1].n - 1) : m \in Int
        BY <4>6
      <4> QED BY <4>5, <4>7, <4>8, <4>9
    <3> QED BY <3>1, <3>2
  <2>10. \A m \in Gaps : SeqAt(m) = m
    <3> TAKE m \in Gaps
    <3>1. m \in Int /\ Missing(m)
      BY <2>9
    <3>2. 1 \in 1..Len(list) /\ Len(list) \in 1..Len(list) /\ m < list[1].n
      BY <2>7, <3>1
    <3>3. m \in SeqNums
      <4>1. \E l \in SeqNums : l <= m
        <5>1. CASE has_callback_packet
          BY <5>1, <2>2, <2>3, <3>1
        <5>2. CASE ~has_callback_packet
          BY <5>2, <2>2, <2>7, <3>1, <3>2
        <5> QED BY <5>1, <5>2
      <4>2. list[1].n \in SeqNums
        BY <2>7, <3>2
      <4> HIDE DEF Missing
      <4> QED BY <2>2, <3>1, <3>2, <4>1, <4>2, SeqSpaceAssumption
    <3> QED BY <3>3, SeqAtOfSeq
  <2> QED BY <2>8, <2>9, <2>10
<1> QED BY <1>1, InvHolds, StatsHold, LossHold, PTL

-----------------------------------------------------------------------------
(* What an arrival makes of the loss list *)

\* A list that has all entries of base and otherwise only new ones.
Grown(list, base) ==
  /\ list \in Seq(LossEntries)
  /\ \A k \in 1..Len(base) : \E i \in 1..Len(list) : list[i] = base[k]
  /\ \A i \in 1..Len(list) : \/ list[i] = NewEntry(list[i].seq)
                             \/ \E k \in 1..Len(base) : list[i] = base[k]

\* Placing a number keeps all entries as they are.
LEMMA PlaceGrows ==
  ASSUME NEW base, NEW acc \in Placings, NEW s \in SeqNums, Grown(acc.list, base)
  PROVE  Grown(PlaceLossSeq(acc, s).list, base)
<1>1. PICK p \in acc.pos..(Len(acc.list) + 1) :
        PlaceLossSeq(acc, s) =
                IF p <= Len(acc.list) /\ acc.list[p].seq = s
                THEN [list |-> acc.list, pos |-> p]
                ELSE [list |-> InsertAt(acc.list, p, NewEntry(s)), pos |-> p + 1]
  BY PlaceFacts
<1> DEFINE list == acc.list
           r == InsertAt(list, p, NewEntry(s))
<1>2. /\ list \in Seq(LossEntries) /\ Len(list) \in Nat
      /\ p \in 1..(Len(list) + 1)
      /\ NewEntry(s) \in LossEntries /\ NewEntry(s).seq = s
  BY DEF Placings, NewEntry, LossEntries
<1>3. /\ r \in Seq(LossEntries) /\ Len(r) = Len(list) + 1
      /\ \A i \in 1..(p - 1) : r[i] = list[i]
      /\ r[p] = NewEntry(s)
      /\ \A i \in p..Len(list) : r[i + 1] = list[i]
  <2> HIDE DEF list
  <2> QED BY <1>2, InsertAtFacts
<1>4. PlaceLossSeq(acc, s).list = list \/ PlaceLossSeq(acc, s).list = r
  BY <1>1
<1> HIDE DEF r, list
<1>5. ASSUME Grown(list, base) PROVE Grown(r, base)
  <2>1. ASSUME NEW k \in 1..Len(base) PROVE \E i \in 1..Len(r) : r[i] = base[k]
    <3>1. PICK i \in 1..Len(list) : list[i] = base[k]
      BY <1>5 DEF Grown
    <3>2. CASE i \in 1..(p - 1)
      BY <3>1, <3>2, <1>2, <1>3
    <3>3. CASE i \in p..Len(list)
      BY <3>1, <3>3, <1>2, <1>3
    <3> QED BY <3>2, <3>3, <1>2
  <2>2. ASSUME NEW i \in 1..Len(r)
        PROVE  r[i] = NewEntry(r[i].seq) \/ \E k \in 1..Len(base) : r[i] = base[k]
    <3>1. CASE i \in 1..(p - 1)
      <4>1. i \in 1..Len(list) /\ r[i] = list[i]
        BY <3>1, <1>2, <1>3
      <4> QED BY <4>1, <1>5 DEF Grown
    <3>2. CASE i = p
      BY <3>2, <1>2, <1>3
    <3>3. CASE i \in (p + 1)..Len(r)
      <4>1. i - 1 \in p..Len(list) /\ i - 1 \in 1..Len(list) /\ (i - 1) + 1 = i
        BY <3>3, <1>2, <1>3
      <4>2. r[i] = list[i - 1]
        BY <4>1, <1>3
      <4> QED BY <4>1, <4>2, <1>5 DEF Grown
    <3> QED BY <3>1, <3>2, <3>3, <1>2, <1>3
  <2> QED BY <2>1, <2>2, <1>3 DEF Grown
<1>6. Grown(list, base)
  BY DEF list
<1> QED BY <1>4, <1>5, <1>6

\* So does placing a gap.
LEMMA PlaceGapGrows ==
  ASSUME NEW base, NEW acc \in Placings, NEW gap \in Seq(SeqNums), Grown(acc.list, base)
  PROVE  Grown(PlaceGap(acc, gap).list, base)
<1> DEFINE len == Len(gap)
<1>1. PICK placed \in [0..len -> Placings] :
           /\ placed[0] = acc
           /\ \A k \in 1..len : placed[k] = PlaceLossSeq(placed[k - 1], gap[k])
           /\ PlaceGap(acc, gap) = placed[len]
  BY PlaceGapUnfolds
<1>2. len \in Nat /\ \A k \in 1..len : gap[k] \in SeqNums
  OBVIOUS
<1> HIDE DEF len
<1> DEFINE P == {k \in 0..len : Grown(placed[k].list, base)}
<1>3. 0 \in P
  BY <1>1, <1>2
<1>4. ASSUME NEW k \in 0..(len - 1), k \in P
      PROVE  k + 1 \in P
  <2>1. k + 1 \in 1..len /\ k + 1 \in 0..len /\ (k + 1) - 1 = k /\ k \in 0..len
    BY <1>2
  <2>2. placed[k + 1] = PlaceLossSeq(placed[k], gap[k + 1]) /\ placed[k] \in Placings
    BY <2>1, <1>1
  <2>3. Grown(placed[k].list, base) /\ gap[k + 1] \in SeqNums
    BY <2>1, <1>2, <1>4
  <2>4. Grown(placed[k + 1].list, base)
    BY <2>2, <2>3, PlaceGrows
  <2> QED BY <2>1, <2>4
<1>5. len \in P
  <2> HIDE DEF P
  <2>1. \A k \in 0..(len - 1) : k \in P => k + 1 \in P
    BY <1>4
  <2>2. len \in 0..len
    BY <1>2
  <2> QED BY <1>2, <1>3, <2>1, <2>2, InductionUpTo
<1> QED BY <1>1, <1>5

\* And placing all gaps between descending numbers.
LEMMA PlaceGapsGrows ==
  ASSUME NEW losses \in Seq(LossEntries), NEW seqs \in Seq(SeqNums),
         seqs # <<>>, Descends(seqs)
  PROVE  Grown(PlaceGaps(losses, seqs), losses)
<1> DEFINE len == Len(seqs) - 1
<1>1. PICK walked \in [0..len -> Placings] :
           /\ walked[0] = [list |-> losses, pos |-> 1]
           /\ \A i \in 1..len :
                walked[i] = PlaceGap(walked[i - 1], Down(seqs[i] - 1, seqs[i + 1] + 1))
           /\ PlaceGaps(losses, seqs) = walked[len].list
  <2>1. \E walked \in [0..(Len(seqs) - 1) -> Placings] :
           /\ walked[0] = [list |-> losses, pos |-> 1]
           /\ \A i \in 1..(Len(seqs) - 1) :
                walked[i] = PlaceGap(walked[i - 1], Down(seqs[i] - 1, seqs[i + 1] + 1))
           /\ PlaceGaps(losses, seqs) = walked[Len(seqs) - 1].list
    BY PlaceGapsUnfolds
  <2> QED BY <2>1
<1>2. len \in Nat /\ \A i \in 1..len : Down(seqs[i] - 1, seqs[i + 1] + 1) \in Seq(SeqNums)
  <2>1. Len(seqs) \in Nat \ {0} /\ \A i \in 1..Len(seqs) : seqs[i] \in SeqNums
    OBVIOUS
  <2>2. \A i \in 1..len : i \in 1..Len(seqs) /\ i + 1 \in 1..Len(seqs) /\ i < i + 1
    BY <2>1
  <2>3. \A i \in 1..len : /\ seqs[i] \in SeqNums /\ seqs[i + 1] \in SeqNums
                          /\ seqs[i + 1] < seqs[i]
    <3> HIDE DEF len
    <3> QED BY <2>1, <2>2 DEF Descends
  <2>4. len \in Nat
    BY <2>1
  <2> HIDE DEF len
  <2>5. \A i \in 1..len : Down(seqs[i] - 1, seqs[i + 1] + 1) \in Seq(SeqNums)
    <3> TAKE i \in 1..len
    <3> DEFINE a == seqs[i]
               b == seqs[i + 1]
    <3>1. a \in SeqNums /\ b \in SeqNums /\ b < a
      BY <2>3
    <3> HIDE DEF a, b
    <3>2. Down(a - 1, b + 1) \in Seq(SeqNums)
      BY <3>1, GapIsBetween
    <3> QED BY <3>2 DEF a, b
  <2> QED BY <2>4, <2>5
<1> HIDE DEF len
<1> DEFINE P == {i \in 0..len : Grown(walked[i].list, losses)}
<1>3. 0 \in P
  <2>1. Grown(losses, losses)
    BY DEF Grown
  <2> QED BY <2>1, <1>1, <1>2
<1>4. ASSUME NEW i \in 0..(len - 1), i \in P
      PROVE  i + 1 \in P
  <2> DEFINE gap == Down(seqs[i + 1] - 1, seqs[i + 1 + 1] + 1)
  <2>1. i + 1 \in 1..len /\ i + 1 \in 0..len /\ (i + 1) - 1 = i /\ i \in 0..len
    BY <1>2
  <2>2. walked[i + 1] = PlaceGap(walked[i], gap) /\ walked[i] \in Placings
        /\ gap \in Seq(SeqNums)
    BY <2>1, <1>1, <1>2
  <2>3. Grown(walked[i].list, losses)
    BY <1>4
  <2> HIDE DEF gap
  <2>4. Grown(walked[i + 1].list, losses)
    BY <2>2, <2>3, PlaceGapGrows
  <2> QED BY <2>1, <2>4
<1>5. len \in P
  <2> HIDE DEF P
  <2>1. \A i \in 0..(len - 1) : i \in P => i + 1 \in P
    BY <1>4
  <2>2. len \in 0..len
    BY <1>2
  <2> QED BY <1>2, <1>3, <2>1, <2>2, InductionUpTo
<1> QED BY <1>1, <1>5

\* Supplementing keeps the entries of numbers that stay listed as they are.
LEMMA SupplementKeeps ==
  ASSUME NEW list, InSight(list), NEW losses \in Seq(LossEntries),
         NEW T, ListsLosses(SupplementLossSeqs(losses, list), T)
  PROVE  LET r == SupplementLossSeqs(losses, list)
         IN  \A i \in 1..Len(r) :
               /\ \/ r[i] = NewEntry(r[i].seq)
                  \/ \E k \in 1..Len(losses) : r[i] = losses[k]
               /\ \A k \in 1..Len(losses) : losses[k].seq = r[i].seq => r[i] = losses[k]
<1> DEFINE seqs == Visited(list)
           placed == PlaceGaps(losses, seqs)
           I == {i \in DOMAIN placed : IsSeqBefore(latest_callback_seq, placed[i].seq)}
           r == SupplementLossSeqs(losses, list)
<1>1. Grown(placed, losses)
  <2>1. seqs \in Seq(SeqNums) /\ seqs # <<>> /\ Descends(seqs)
    BY VisitedDescend
  <2> HIDE DEF seqs
  <2> QED BY <2>1, PlaceGapsGrows
<1>2. r = IF has_callback_packet THEN Picked(placed, I) ELSE placed
  BY DEF SupplementLossSeqs, Visited
<1>3. /\ placed \in Seq(LossEntries) /\ DOMAIN placed = 1..Len(placed)
      /\ \A k \in 1..Len(losses) : \E i \in 1..Len(placed) : placed[i] = losses[k]
      /\ \A i \in 1..Len(placed) : \/ placed[i] = NewEntry(placed[i].seq)
                                   \/ \E k \in 1..Len(losses) : placed[i] = losses[k]
  <2> HIDE DEF placed
  <2> QED BY <1>1 DEF Grown
<1>4. /\ Len(r) \in Nat
      /\ \A i \in 1..Len(r) : r[i].seq \in Int
      /\ \A i, j \in 1..Len(r) : i < j => r[j].seq < r[i].seq
  <2>1. r \in Seq(LossEntries) /\ \A i, j \in 1..Len(r) : i < j => r[j].seq < r[i].seq
    BY DEF ListsLosses
  <2> HIDE DEF r
  <2> QED BY <2>1, LossListType
<1>5. \A i \in 1..Len(r) : \E j \in 1..Len(placed) :
         /\ r[i] = placed[j]
         /\ has_callback_packet => j \in I
  <2>1. CASE has_callback_packet
    <3>1. HasPicked(Picked(placed, I), placed, I)
      <4> HIDE DEF placed, I
      <4> QED BY <1>3, PickedElements
    <3>2. r = Picked(placed, I)
      BY <1>2, <2>1
    <3> HIDE DEF placed, r, I
    <3> QED BY <2>1, <3>1, <3>2 DEF HasPicked
  <2>2. CASE ~has_callback_packet
    BY <1>2, <2>2
  <2> QED BY <2>1, <2>2
<1>6. \A j \in 1..Len(placed) : (has_callback_packet => j \in I)
         => \E i \in 1..Len(r) : r[i] = placed[j]
  <2>1. CASE has_callback_packet
    <3>1. HasPicked(Picked(placed, I), placed, I)
      <4> HIDE DEF placed, I
      <4> QED BY <1>3, PickedElements
    <3>2. r = Picked(placed, I)
      BY <1>2, <2>1
    <3> HIDE DEF placed, r, I
    <3> QED BY <2>1, <3>1, <3>2 DEF HasPicked
  <2>2. CASE ~has_callback_packet
    BY <1>2, <2>2
  <2> QED BY <2>1, <2>2
<1>7. \A i, j \in 1..Len(placed) : placed[i].seq = placed[j].seq => (i \in I <=> j \in I)
  BY <1>3
<1> HIDE DEF placed, r, I
<1>8. ASSUME NEW i \in 1..Len(r)
      PROVE  /\ \/ r[i] = NewEntry(r[i].seq)
                \/ \E k \in 1..Len(losses) : r[i] = losses[k]
             /\ \A k \in 1..Len(losses) : losses[k].seq = r[i].seq => r[i] = losses[k]
  <2>1. PICK j \in 1..Len(placed) : r[i] = placed[j] /\ (has_callback_packet => j \in I)
    BY <1>5
  <2>2. ASSUME NEW k \in 1..Len(losses), losses[k].seq = r[i].seq
        PROVE  r[i] = losses[k]
    <3>1. PICK m \in 1..Len(placed) : placed[m] = losses[k]
      BY <1>3
    <3>2. has_callback_packet => m \in I
      BY <1>7, <2>1, <2>2, <3>1
    <3>3. PICK l \in 1..Len(r) : r[l] = placed[m]
      BY <1>6, <3>2
    <3>4. r[l].seq = r[i].seq
      BY <2>2, <3>1, <3>3
    <3>5. l = i
      BY <1>4, <3>4
    <3> QED BY <3>1, <3>3, <3>5
  <2> QED BY <1>3, <2>1, <2>2
<1> QED BY <1>8 DEF r

\* What an arrival makes of the loss list before the request is composed: it
\* drops nothing but the number that came and what lies behind the last packet
\* called back, and adds only numbers nobody knew of.
IsUpdated(losses, n) ==
  /\ losses \in Seq(LossEntries)
  /\ \A i, j \in 1..Len(losses) : i < j => losses[j].seq < losses[i].seq
  /\ \A i \in 1..Len(losses) :
       \/ \E k \in 1..Len(loss_seqs) : losses[i] = loss_seqs[k]
       \/ /\ losses[i] = NewEntry(losses[i].seq)
          /\ losses[i].seq \notin arrived \cup {n}
          /\ \A k \in 1..Len(loss_seqs) : loss_seqs[k].seq # losses[i].seq
          /\ has_callback_packet => latest_callback_seq < losses[i].seq
          /\ \E a, b \in arrived \cup {n} : a < losses[i].seq /\ losses[i].seq < b
  /\ \A k \in 1..Len(loss_seqs) :
       \/ \E i \in 1..Len(losses) : losses[i] = loss_seqs[k]
       \/ loss_seqs[k].seq = n
       \/ has_callback_packet /\ loss_seqs[k].seq <= latest_callback_seq
  /\ IF IsLate(SeqAt(n)) THEN losses = loss_seqs
     ELSE \A i \in 1..Len(losses) : losses[i].seq \notin arrived \cup {n}

\* The numbers a list of packets waits for, and those of its packets, as
\* arrivals.
LEMMA AwaitedIsNew ==
  ASSUME NEW list, InSight(list), NEW S \in SUBSET Int, Deliverable(list, S),
         has_callback_packet => /\ delivered # <<>>
                                /\ latest_callback_seq = Last(delivered)
                                /\ Last(delivered) \in S,
         ~has_callback_packet => delivered = <<>>,
         NEW m \in Awaited(list)
  PROVE  /\ m \in Int /\ m \notin S
         /\ has_callback_packet => latest_callback_seq < m
         /\ \E a, b \in S : a < m /\ m < b
<1>1. /\ 1 \in 1..Len(list) /\ Len(list) \in 1..Len(list) /\ LowEnd(list) \in Int
      /\ \A i \in 1..Len(list) : list[i].n \in Int
  BY SightBounds
<1>2. /\ m \in Int /\ LowEnd(list) < m /\ m < list[1].n
      /\ \A i \in 1..Len(list) : list[i].n # m
  BY <1>1 DEF Awaited
<1>3. \A i \in 1..Len(list) : list[i].n \in S
  BY <1>1 DEF Deliverable
<1>4. has_callback_packet => LowEnd(list) = latest_callback_seq
  BY DEF LowEnd
<1>5. ~has_callback_packet => LowEnd(list) = list[Len(list)].n
  BY DEF LowEnd
<1>6. LowEnd(list) \in S
  BY <1>1, <1>3, <1>4, <1>5
<1>7. list[1].n \in S
  BY <1>1, <1>3
<1>8. IsUndelivered(m)
  BY <1>2, <1>4 DEF IsUndelivered
<1>9. m \notin S
  BY <1>2, <1>8 DEF Deliverable
<1> QED BY <1>2, <1>4, <1>6, <1>7, <1>9

\* PutPacket makes just that of the list.
LEMMA PutUpdates ==
  ASSUME DeliveryInv, StatsInv, NEW n \in Positions, WithinReach(n),
         \A m \in arrived \cup {n} : m < SeqSpace,
         LossesFit(loss_seqs, cached_packets, has_callback_packet, latest_callback_seq)
  PROVE  IsUpdated(IF IsLate(SeqAt(n)) THEN loss_seqs
                   ELSE LossAfterPut(SeqAt(n), CacheAfterPut(n)), n)
<1>0. /\ loss_seqs \in Seq(LossEntries)
      /\ \A i, j \in 1..Len(loss_seqs) : i < j => loss_seqs[j].seq < loss_seqs[i].seq
      /\ \A k \in 1..Len(loss_seqs) : loss_seqs[k].seq \in Int
  <2>1. /\ loss_seqs \in Seq(LossEntries)
        /\ \A i, j \in 1..Len(loss_seqs) : i < j => loss_seqs[j].seq < loss_seqs[i].seq
    BY DEF LossesFit
  <2> QED BY <2>1, LossListType
<1>1. CASE IsLate(SeqAt(n))
  BY <1>0, <1>1 DEF IsUpdated
<1>2. CASE ~IsLate(SeqAt(n))
  <2> DEFINE list == CacheAfterPut(n)
             r == LossAfterPut(SeqAt(n), list)
             S == arrived \cup {n}
  <2>1. /\ InSight(list) /\ AddsOne(list, cached_packets, n)
        /\ cached_packets # <<>> => InSight(cached_packets)
        /\ ListsLosses(r, Awaited(list))
        /\ \E others : IsWithout(others, n) /\ r = SupplementLossSeqs(others, list)
    BY <1>2, PutLists
  <2>2. PICK others : IsWithout(others, n) /\ r = SupplementLossSeqs(others, list)
    BY <2>1
  <2>3. Deliverable(list, S)
    BY PutKeepsDeliverable
  <2> HIDE DEF list, r
  <2>4. /\ n \in Int /\ S \in SUBSET Int
        /\ has_callback_packet => /\ delivered # <<>>
                                  /\ latest_callback_seq = Last(delivered)
                                  /\ Last(delivered) \in S
        /\ ~has_callback_packet => delivered = <<>>
        /\ has_callback_packet => latest_callback_seq \in Int
    <3>1. n \in SeqNums /\ arrived \subseteq SeqNums /\ SeqNums \subseteq Int
      BY ReceiverAssumption, SeqSpaceAssumption DEF DeliveryInv, CacheTypeOK, SeqNums
    <3>2. has_callback_packet <=> delivered # <<>>
      BY DEF DeliveryInv, CacheInReach
    <3>3. delivered # <<>> => Last(delivered) \in SeqNums /\ latest_callback_seq = SeqAt(Last(delivered))
      BY <3>1 DEF StatsInv, DeliveryInv, CacheInReach
    <3>4. delivered # <<>> => latest_callback_seq = Last(delivered)
      BY <3>3, SeqAtOfSeq
    <3> QED BY <3>1, <3>2, <3>3, <3>4 DEF StatsInv
  <2>5. /\ r \in Seq(LossEntries)
        /\ \A i, j \in 1..Len(r) : i < j => r[j].seq < r[i].seq
        /\ \A i \in 1..Len(r) : r[i].seq \in Awaited(list)
        /\ \A m \in Awaited(list) : \E i \in 1..Len(r) : r[i].seq = m
    BY <2>1 DEF ListsLosses
  <2>6. /\ others \in Seq(LossEntries)
        /\ \A i \in 1..Len(others) : \E k \in 1..Len(loss_seqs) : others[i] = loss_seqs[k]
        /\ \A k \in 1..Len(loss_seqs) : loss_seqs[k].seq # n
                                          => \E i \in 1..Len(others) : others[i] = loss_seqs[k]
    BY <2>2 DEF IsWithout
  <2>7. \A i \in 1..Len(r) :
          /\ r[i] = NewEntry(r[i].seq) \/ \E k \in 1..Len(others) : r[i] = others[k]
          /\ \A k \in 1..Len(others) : others[k].seq = r[i].seq => r[i] = others[k]
    BY <2>1, <2>2, <2>6, SupplementKeeps
  <2>8. \A m \in Awaited(list) : /\ m \in Int /\ m \notin S
                                 /\ has_callback_packet => latest_callback_seq < m
                                 /\ \E a, b \in S : a < m /\ m < b
    BY <2>1, <2>3, <2>4, AwaitedIsNew
  <2>9. ASSUME NEW i \in 1..Len(r)
        PROVE  \/ \E k \in 1..Len(loss_seqs) : r[i] = loss_seqs[k]
               \/ /\ r[i] = NewEntry(r[i].seq)
                  /\ r[i].seq \notin S
                  /\ \A k \in 1..Len(loss_seqs) : loss_seqs[k].seq # r[i].seq
                  /\ has_callback_packet => latest_callback_seq < r[i].seq
                  /\ \E a, b \in S : a < r[i].seq /\ r[i].seq < b
    <3>1. r[i].seq \in Awaited(list)
      BY <2>5
    <3>2. r[i].seq \notin S /\ (has_callback_packet => latest_callback_seq < r[i].seq)
            /\ \E a, b \in S : a < r[i].seq /\ r[i].seq < b
      BY <2>8, <3>1
    <3>3. CASE \E k \in 1..Len(others) : r[i] = others[k]
      BY <2>6, <3>3
    <3>4. CASE r[i] = NewEntry(r[i].seq) /\ ~\E k \in 1..Len(others) : r[i] = others[k]
      <4>1. ASSUME NEW k \in 1..Len(loss_seqs), loss_seqs[k].seq = r[i].seq
            PROVE  FALSE
        <5>1. loss_seqs[k].seq # n
          BY <3>2, <4>1
        <5>2. PICK j \in 1..Len(others) : others[j] = loss_seqs[k]
          BY <2>6, <5>1
        <5>3. r[i] = others[j]
          BY <2>7, <4>1, <5>2
        <5> QED BY <3>4, <5>3
      <4> QED BY <3>2, <3>4, <4>1
    <3> QED BY <2>7, <3>3, <3>4
  <2>10. ASSUME NEW k \in 1..Len(loss_seqs), loss_seqs[k].seq # n,
                ~(has_callback_packet /\ loss_seqs[k].seq <= latest_callback_seq)
         PROVE  \E i \in 1..Len(r) : r[i] = loss_seqs[k]
    <3> DEFINE e == loss_seqs[k].seq
    <3>1. e \in Int /\ e # n /\ (has_callback_packet => latest_callback_seq < e)
      BY <1>0, <2>4, <2>10
    <3>2. \E j \in 1..Len(loss_seqs) : loss_seqs[j].seq = e
      OBVIOUS
    <3>3. has_callback_packet => LowEnd(list) < e
      BY <3>1 DEF LowEnd
    <3> HIDE DEF e
    <3>4. e \in Awaited(list)
      BY <2>1, <2>4, <3>1, <3>2, <3>3, RestIsAwaited
    <3>5. PICK i \in 1..Len(r) : r[i].seq = e
      BY <2>5, <3>4
    <3>6. PICK j \in 1..Len(others) : others[j] = loss_seqs[k]
      BY <2>6, <2>10
    <3>7. r[i] = others[j]
      BY <2>7, <3>5, <3>6 DEF e
    <3> QED BY <3>6, <3>7
  <2>11. IsUpdated(r, n)
    <3> HIDE DEF S
    <3>1. \A i \in 1..Len(r) :
             \/ \E k \in 1..Len(loss_seqs) : r[i] = loss_seqs[k]
             \/ /\ r[i] = NewEntry(r[i].seq)
                /\ r[i].seq \notin S
                /\ \A k \in 1..Len(loss_seqs) : loss_seqs[k].seq # r[i].seq
                /\ has_callback_packet => latest_callback_seq < r[i].seq
                /\ \E a, b \in S : a < r[i].seq /\ r[i].seq < b
      BY <2>9
    <3>2. \A k \in 1..Len(loss_seqs) :
             \/ \E i \in 1..Len(r) : r[i] = loss_seqs[k]
             \/ loss_seqs[k].seq = n
             \/ has_callback_packet /\ loss_seqs[k].seq <= latest_callback_seq
      BY <2>10
    <3>3. \A i \in 1..Len(r) : r[i].seq \notin S
      BY <2>5, <2>8
    <3> QED BY <1>2, <2>5, <3>1, <3>2, <3>3 DEF IsUpdated, S
  <2> QED BY <1>2, <2>11 DEF r, list
<1> QED BY <1>1, <1>2

\* asks names entries of losses that are due, none of them twice.
IsRequest(asks, losses) ==
  /\ asks \in Seq(SeqNums)
  /\ \A i, j \in 1..Len(asks) : i # j => asks[i] # asks[j]
  /\ \A i \in 1..Len(asks) :
       \E k \in 1..Len(losses) : IsNackDue(losses[k]) /\ asks[i] = losses[k].seq

\* GetLossPacketSeqsForNack asks for what is due.
LEMMA NackSeqsFacts ==
  ASSUME NEW losses \in Seq(LossEntries),
         \A i, j \in 1..Len(losses) : i < j => losses[j].seq < losses[i].seq
  PROVE  IsRequest(NackSeqs(losses), losses)
<1> DEFINE I == {i \in DOMAIN losses : IsNackDue(losses[i])}
           picked == Picked(losses, I)
           due == Reverse(picked)
           r == NackSeqs(losses)
<1>1. /\ picked \in Seq(LossEntries) /\ HasPicked(picked, losses, I)
      /\ \A i, j \in 1..Len(picked) : i < j =>
           \E k, l \in I \cap (1..Len(losses)) :
             k < l /\ picked[i] = losses[k] /\ picked[j] = losses[l]
  <2> HIDE DEF I
  <2> QED BY PickedElements, PickedOrder
<1>2. r = [i \in DOMAIN due |-> due[i].seq]
  BY DEF NackSeqs
<1>3. \A i \in I : IsNackDue(losses[i])
  OBVIOUS
<1>4. \A k \in 1..Len(losses) : losses[k].seq \in Int
  BY LossListType
<1> HIDE DEF I, picked
<1>5. /\ due = [i \in 1..Len(picked) |-> picked[(Len(picked) - i) + 1]]
      /\ Len(picked) \in Nat
  BY <1>1 DEF Reverse
<1>6. \A i \in 1..Len(picked) : picked[i] \in LossEntries /\ picked[i].seq \in SeqNums
  <2>1. \A i \in 1..Len(picked) : picked[i] \in LossEntries
    BY <1>1
  <2> QED BY <2>1 DEF LossEntries
<1> HIDE DEF due, r
<1>7. r = [i \in 1..Len(picked) |-> picked[(Len(picked) - i) + 1].seq]
  BY <1>2, <1>5
<1>8. r \in Seq(SeqNums) /\ Len(r) = Len(picked)
  <2>1. \A i \in 1..Len(picked) : (Len(picked) - i) + 1 \in 1..Len(picked)
    BY <1>5
  <2>2. \A i \in 1..Len(picked) : picked[(Len(picked) - i) + 1].seq \in SeqNums
    BY <1>6, <2>1
  <2> QED BY <1>5, <1>7, <2>2
<1>9. \A i, j \in 1..Len(picked) : i < j => picked[i].seq # picked[j].seq
  <2> TAKE i, j \in 1..Len(picked)
  <2> HAVE i < j
  <2>1. PICK k \in I \cap (1..Len(losses)), l \in I \cap (1..Len(losses)) :
           k < l /\ picked[i] = losses[k] /\ picked[j] = losses[l]
    BY <1>1
  <2>2. losses[l].seq < losses[k].seq /\ losses[l].seq \in Int /\ losses[k].seq \in Int
    BY <2>1, <1>4
  <2> QED BY <2>1, <2>2
<1>10. \A i, j \in 1..Len(r) : i # j => r[i] # r[j]
  <2> TAKE i, j \in 1..Len(r)
  <2> HAVE i # j
  <2> DEFINE a == (Len(picked) - i) + 1
             b == (Len(picked) - j) + 1
  <2>1. a \in 1..Len(picked) /\ b \in 1..Len(picked) /\ (a < b \/ b < a)
    BY <1>5, <1>8
  <2>2. r[i] = picked[a].seq /\ r[j] = picked[b].seq
    BY <1>7, <1>8
  <2> HIDE DEF a, b
  <2> QED BY <1>9, <2>1, <2>2
<1>11. ASSUME NEW i \in 1..Len(r)
       PROVE  \E k \in 1..Len(losses) : IsNackDue(losses[k]) /\ r[i] = losses[k].seq
  <2> DEFINE a == (Len(picked) - i) + 1
  <2>1. a \in 1..Len(picked) /\ r[i] = picked[a].seq
    BY <1>5, <1>7, <1>8
  <2> HIDE DEF a
  <2>2. PICK k \in I \cap (1..Len(losses)) : picked[a] = losses[k]
    BY <1>1, <2>1 DEF HasPicked
  <2> QED BY <1>3, <2>1, <2>2
<1>12. IsRequest(r, losses)
  BY <1>8, <1>10, <1>11 DEF IsRequest
<1> QED BY <1>12 DEF r

\* And marks what it asked for with the time.
LEMMA MarkedFacts ==
  ASSUME NEW losses \in Seq(LossEntries), now \in Nat
  PROVE  LET marked == MarkNotified(losses)
         IN  /\ marked \in Seq(LossEntries) /\ Len(marked) = Len(losses)
             /\ \A i \in 1..Len(losses) :
                  /\ marked[i].seq = losses[i].seq /\ marked[i].notified
                  /\ IF IsNackDue(losses[i]) THEN marked[i].last_notify = now
                     ELSE marked[i] = losses[i]
<1> DEFINE marked == MarkNotified(losses)
           entry(i) == IF IsNackDue(losses[i])
                       THEN [losses[i] EXCEPT !.notified = TRUE, !.last_notify = now]
                       ELSE losses[i]
<1>1. marked = [i \in 1..Len(losses) |-> entry(i)] /\ Len(losses) \in Nat
  BY DEF MarkNotified
<1>2. \A i \in 1..Len(losses) :
        /\ entry(i) \in LossEntries
        /\ entry(i).seq = losses[i].seq /\ entry(i).notified
        /\ IF IsNackDue(losses[i]) THEN entry(i).last_notify = now ELSE entry(i) = losses[i]
  <2>1. \A e \in LossEntries : LET f == [e EXCEPT !.notified = TRUE, !.last_notify = now]
                               IN  /\ f \in LossEntries /\ f.seq = e.seq
                                   /\ f.notified /\ f.last_notify = now
    BY DEF LossEntries
  <2>2. \A i \in 1..Len(losses) : losses[i] \in LossEntries
    OBVIOUS
  <2>3. \A e \in LossEntries : ~IsNackDue(e) => e.notified
    BY DEF IsNackDue
  <2> QED BY <2>1, <2>2, <2>3
<1> HIDE DEF entry, marked
<1>3. /\ marked \in Seq(LossEntries) /\ Len(marked) = Len(losses)
      /\ \A i \in 1..Len(losses) : marked[i] = entry(i)
  BY <1>1, <1>2
<1> QED BY <1>2, <1>3 DEF marked

\* How the listed losses and the request for them come out of an arrival, before
\* the counter wraps. Each entry is as it was and not asked for; or it was due
\* and is asked for now; or it is a number that has not arrived, is above the
\* last packet called back and between two arrivals, and is asked for now.
Asks(n, old, new, asks) ==
  /\ new \in Seq(LossEntries)
  /\ asks \in Seq(SeqNums)
  /\ \A i, j \in 1..Len(asks) : i # j => asks[i] # asks[j]
  /\ \A i \in 1..Len(asks) :
       \E j \in 1..Len(new) : new[j].seq = asks[i] /\ new[j].last_notify = now
  /\ \A j \in 1..Len(new) :
       /\ new[j].notified
       /\ \/ /\ \E k \in 1..Len(old) : new[j] = old[k]
             /\ \A i \in 1..Len(asks) : asks[i] # new[j].seq
          \/ /\ new[j].last_notify = now
             /\ \E k \in 1..Len(old) : new[j].seq = old[k].seq /\ IsNackDue(old[k])
          \/ /\ new[j].last_notify = now
             /\ new[j].seq \notin arrived \cup {n}
             /\ \A k \in 1..Len(old) : old[k].seq # new[j].seq
             /\ has_callback_packet => latest_callback_seq < new[j].seq
             /\ \E a, b \in arrived \cup {n} : a < new[j].seq /\ new[j].seq < b
  /\ \A k \in 1..Len(old) :
       \/ \E j \in 1..Len(new) : new[j].seq = old[k].seq
       \/ old[k].seq = n
       \/ has_callback_packet /\ old[k].seq <= latest_callback_seq
  /\ IF IsLate(SeqAt(n))
     THEN \A j \in 1..Len(new) : \E k \in 1..Len(old) : new[j].seq = old[k].seq
     ELSE \A j \in 1..Len(new) : new[j].seq \notin arrived \cup {n}

\* What GetLossPacketSeqsForNack makes of the list.
LEMMA UpdatedAsks ==
  ASSUME NEW n, NEW losses, IsUpdated(losses, n), now \in Nat
  PROVE  Asks(n, loss_seqs, MarkNotified(losses), NackSeqs(losses))
<1> DEFINE new == MarkNotified(losses)
           asks == NackSeqs(losses)
           old == loss_seqs
<1>1. /\ losses \in Seq(LossEntries)
      /\ \A i, j \in 1..Len(losses) : i < j => losses[j].seq < losses[i].seq
      /\ \A i \in 1..Len(losses) :
           \/ \E k \in 1..Len(old) : losses[i] = old[k]
           \/ /\ losses[i] = NewEntry(losses[i].seq)
              /\ losses[i].seq \notin arrived \cup {n}
              /\ \A k \in 1..Len(old) : old[k].seq # losses[i].seq
              /\ has_callback_packet => latest_callback_seq < losses[i].seq
              /\ \E a, b \in arrived \cup {n} : a < losses[i].seq /\ losses[i].seq < b
      /\ \A k \in 1..Len(old) :
           \/ \E i \in 1..Len(losses) : losses[i] = old[k]
           \/ old[k].seq = n
           \/ has_callback_packet /\ old[k].seq <= latest_callback_seq
  BY DEF IsUpdated
<1>2. /\ asks \in Seq(SeqNums)
      /\ \A i, j \in 1..Len(asks) : i # j => asks[i] # asks[j]
      /\ \A i \in 1..Len(asks) :
           \E k \in 1..Len(losses) : IsNackDue(losses[k]) /\ asks[i] = losses[k].seq
  <2>1. IsRequest(asks, losses)
    BY <1>1, NackSeqsFacts
  <2> HIDE DEF asks
  <2> QED BY <2>1 DEF IsRequest
<1>3. /\ new \in Seq(LossEntries) /\ Len(new) = Len(losses)
      /\ \A i \in 1..Len(losses) :
           /\ new[i].seq = losses[i].seq /\ new[i].notified
           /\ IF IsNackDue(losses[i]) THEN new[i].last_notify = now
              ELSE new[i] = losses[i]
  BY <1>1, MarkedFacts
<1> HIDE DEF new, asks, old
<1>4. \A i, j \in 1..Len(losses) : losses[i].seq = losses[j].seq => i = j
  <2>1. Len(losses) \in Nat /\ \A i \in 1..Len(losses) : losses[i].seq \in Int
    BY <1>1, LossListType
  <2>2. \A i, j \in 1..Len(losses) : i = j \/ i < j \/ j < i
    BY <2>1
  <2> QED BY <1>1, <2>1, <2>2
<1>5. \A i \in 1..Len(asks) :
        \E j \in 1..Len(new) : new[j].seq = asks[i] /\ new[j].last_notify = now
  BY <1>2, <1>3
<1>6. ASSUME NEW j \in 1..Len(new)
      PROVE  \/ /\ \E k \in 1..Len(old) : new[j] = old[k]
                /\ \A i \in 1..Len(asks) : asks[i] # new[j].seq
             \/ /\ new[j].last_notify = now
                /\ \E k \in 1..Len(old) : new[j].seq = old[k].seq /\ IsNackDue(old[k])
             \/ /\ new[j].last_notify = now
                /\ new[j].seq \notin arrived \cup {n}
                /\ \A k \in 1..Len(old) : old[k].seq # new[j].seq
                /\ has_callback_packet => latest_callback_seq < new[j].seq
                /\ \E a, b \in arrived \cup {n} : a < new[j].seq /\ new[j].seq < b
  <2>1. j \in 1..Len(losses)
    BY <1>3
  <2>2. CASE ~IsNackDue(losses[j])
    <3>1. new[j] = losses[j]
      BY <2>1, <2>2, <1>3
    <3>2. losses[j] # NewEntry(losses[j].seq)
      BY <2>2 DEF IsNackDue, NewEntry
    <3>3. \A i \in 1..Len(asks) : asks[i] # new[j].seq
      BY <2>1, <2>2, <1>2, <1>4, <3>1
    <3> QED BY <2>1, <1>1, <3>1, <3>2, <3>3
  <2>3. CASE IsNackDue(losses[j])
    <3>1. new[j].seq = losses[j].seq /\ new[j].last_notify = now
      BY <2>1, <2>3, <1>3
    <3>2. CASE \E k \in 1..Len(old) : losses[j] = old[k]
      <4>1. PICK k \in 1..Len(old) : losses[j] = old[k]
        BY <3>2
      <4>2. IsNackDue(old[k]) /\ new[j].seq = old[k].seq
        BY <2>3, <3>1, <4>1
      <4> QED BY <3>1, <4>2
    <3> QED BY <1>1, <2>1, <3>1, <3>2
  <2> QED BY <2>2, <2>3
<1>7. \A k \in 1..Len(old) :
        \/ \E j \in 1..Len(new) : new[j].seq = old[k].seq
        \/ old[k].seq = n
        \/ has_callback_packet /\ old[k].seq <= latest_callback_seq
  <2> TAKE k \in 1..Len(old)
  <2>1. CASE \E i \in 1..Len(losses) : losses[i] = old[k]
    <3>1. PICK i \in 1..Len(losses) : losses[i] = old[k]
      BY <2>1
    <3>2. i \in 1..Len(new) /\ new[i].seq = old[k].seq
      BY <3>1, <1>3
    <3> QED BY <3>2
  <2> QED BY <2>1, <1>1
<1>8. \A j \in 1..Len(new) : new[j].notified
  BY <1>3
<1>9. IF IsLate(SeqAt(n))
      THEN \A j \in 1..Len(new) : \E k \in 1..Len(old) : new[j].seq = old[k].seq
      ELSE \A j \in 1..Len(new) : new[j].seq \notin arrived \cup {n}
  <2>1. CASE IsLate(SeqAt(n))
    <3>1. losses = old
      BY <2>1 DEF IsUpdated, old
    <3> QED BY <1>3, <2>1, <3>1
  <2>2. CASE ~IsLate(SeqAt(n))
    <3>1. \A i \in 1..Len(losses) : losses[i].seq \notin arrived \cup {n}
      BY <2>2 DEF IsUpdated
    <3> QED BY <1>3, <2>2, <3>1
  <2> QED BY <2>1, <2>2
<1>10. Asks(n, old, new, asks)
  BY <1>2, <1>3, <1>5, <1>6, <1>7, <1>8, <1>9 DEF Asks
<1> QED BY <1>10 DEF new, asks, old

\* So it is with every packet that arrives before the counter wraps, and the last
\* packet called back never moves down.
LEMMA ArrivalAsks ==
  ASSUME DeliveryInv, StatsInv, LossInv,
         NEW n \in Positions, NEW kind, OnRtpPacket(n, kind), InFirstCycle'
  PROVE  /\ Asks(n, loss_seqs, loss_seqs', loss_packet_seqs')
         /\ arrived' = arrived \cup {n} /\ now' = now /\ now \in Nat
         /\ loss_seqs \in Seq(LossEntries)
         /\ has_callback_packet =>
              /\ has_callback_packet'
              /\ latest_callback_seq \in Int /\ latest_callback_seq' \in Int
              /\ latest_callback_seq <= latest_callback_seq'
<1> DEFINE list == CacheAfterPut(n)
           losses == IF IsLate(SeqAt(n)) THEN loss_seqs ELSE LossAfterPut(SeqAt(n), list)
           cut == CutOf(list)
<1>1. /\ WithinReach(n) /\ GetPackets(list) /\ arrived' = arrived \cup {n}
      /\ loss_seqs' = MarkNotified(losses) /\ loss_packet_seqs' = NackSeqs(losses)
      /\ now' = now
  BY DEF OnRtpPacket
<1>2. \A m \in arrived \cup {n} : m < SeqSpace
  BY <1>1 DEF InFirstCycle
<1>3. LossesFit(loss_seqs, cached_packets, has_callback_packet, latest_callback_seq)
  <2>1. InFirstCycle
    BY <1>2 DEF InFirstCycle
  <2> QED BY <2>1 DEF LossInv
<1>4. now \in Nat
  BY ReceiverAssumption DEF DeliveryInv, CacheTypeOK
<1>5. IsUpdated(losses, n)
  BY <1>1, <1>2, <1>3, PutUpdates
<1>6. Deliverable(list, arrived \cup {n})
  BY <1>1, PutKeepsDeliverable
<1> HIDE DEF list, losses
<1>7. Asks(n, loss_seqs, MarkNotified(losses), NackSeqs(losses))
  BY <1>4, <1>5, UpdatedAsks
<1>8. ASSUME has_callback_packet
      PROVE  /\ has_callback_packet'
             /\ latest_callback_seq \in Int /\ latest_callback_seq' \in Int
             /\ latest_callback_seq <= latest_callback_seq'
  <2>1. arrived \cup {n} \subseteq SeqNums /\ SeqNums \subseteq Int
    <3>1. arrived \cup {n} \subseteq Nat
      BY ReceiverAssumption DEF DeliveryInv, CacheTypeOK
    <3> QED BY <1>2, <3>1, SeqSpaceAssumption DEF SeqNums
  <2>2. list \in Seq(Packets) /\ Len(list) \in Nat /\ cut \in 1..(Len(list) + 1)
    <3>1. list \in Seq(Packets)
      BY <1>6 DEF Deliverable, WellOrdered
    <3> QED BY <3>1, CutOfRange
  <2>3. IF cut <= Len(list)
        THEN latest_callback_seq' = SeqOfPacket(list[cut]) /\ has_callback_packet' = TRUE
        ELSE UNCHANGED <<latest_callback_seq, has_callback_packet>>
    BY <1>1 DEF GetPackets
  <2> HIDE DEF cut
  <2>4. delivered # <<>> /\ latest_callback_seq = Last(delivered) /\ latest_callback_seq \in Int
    <3>1. delivered # <<>> /\ latest_callback_seq = SeqAt(Last(delivered))
      BY <1>8 DEF DeliveryInv, CacheInReach
    <3>2. Last(delivered) \in SeqNums
      BY <2>1, <3>1 DEF StatsInv
    <3> QED BY <2>1, <3>1, <3>2, SeqAtOfSeq
  <2>5. CASE cut <= Len(list)
    <3>1. cut \in 1..Len(list)
      BY <2>2, <2>5
    <3>2. list[cut].n \in Int
      BY <2>2, <3>1, PacketListType
    <3>3. list[cut].n \in SeqNums
      <4>1. list[cut].n \in arrived \cup {n}
        BY <1>6, <3>1, <3>2 DEF Deliverable
      <4> QED BY <2>1, <4>1
    <3>4. latest_callback_seq' = list[cut].n
      BY <2>3, <2>5, <3>3, SeqAtOfSeq DEF SeqOfPacket
    <3>5. Last(delivered) < list[cut].n
      BY <1>6, <2>4, <3>1 DEF Deliverable
    <3> QED BY <2>3, <2>4, <2>5, <3>2, <3>4, <3>5
  <2>6. CASE ~(cut <= Len(list))
    BY <1>8, <2>3, <2>4, <2>6
  <2> QED BY <2>5, <2>6
<1>9. loss_seqs \in Seq(LossEntries)
  BY <1>3 DEF LossesFit
<1> QED BY <1>1, <1>4, <1>7, <1>8, <1>9

\* The positions the receiver keeps or has given to the user.
KeptOrGiven == {p.n : p \in ToSet(cached_packets)} \cup ToSet(delivered)

\* What was given to the user has arrived, and until the counter wraps nothing
\* that is listed as lost is kept or was given to the user.
MissingInv ==
  /\ ToSet(delivered) \subseteq arrived
  /\ InFirstCycle => \A k \in 1..Len(loss_seqs) : loss_seqs[k].seq \notin KeptOrGiven

\* An arriving packet keeps it so: a late one changes neither the list nor the
\* cache, and the losses are listed anew with any other.
LEMMA ArrivalKeepsMissing ==
  ASSUME DeliveryInv, StatsInv, LossInv, MissingInv,
         NEW n \in Positions, NEW kind, OnRtpPacket(n, kind)
  PROVE  MissingInv'
<1> DEFINE list == CacheAfterPut(n)
           cut == CutOf(list)
           S == arrived \cup {n}
           Listed == {list[i].n : i \in 1..Len(list)}
<1>1. /\ WithinReach(n) /\ GetPackets(list) /\ arrived' = S
  BY DEF OnRtpPacket
<1>2. Deliverable(list, S)
  BY <1>1, PutKeepsDeliverable
<1>3. IsLate(SeqAt(n)) => list = cached_packets
  BY DEF CacheAfterPut
<1> HIDE DEF list
<1>4. /\ WellOrdered(list) /\ list \in Seq(Packets) /\ Len(list) \in Nat
      /\ cut \in 1..(Len(list) + 1) /\ Listed \subseteq S
  <2>1. WellOrdered(list) /\ list \in Seq(Packets)
    BY <1>2 DEF Deliverable, WellOrdered
  <2>2. Listed \subseteq S
    BY <1>2, <2>1, PacketListType DEF Deliverable
  <2> QED BY <2>1, <2>2, CutOfRange
<1>5. /\ cached_packets' = SubSeq(list, 1, cut - 1)
      /\ delivered' = delivered \o Outgoing(list, cut)
  BY <1>1 DEF GetPackets
<1>6. delivered \in Seq(Positions)
  BY DEF DeliveryInv, CacheTypeOK
<1> HIDE DEF cut
<1>7. {p.n : p \in ToSet(cached_packets')} \subseteq Listed
  <2>1. \A i \in 1..(cut - 1) : i \in 1..Len(list)
    BY <1>4
  <2>2. DOMAIN SubSeq(list, 1, cut - 1) = 1..(cut - 1)
    BY <1>4, SubSeqProperties
  <2>3. \A i \in 1..(cut - 1) : SubSeq(list, 1, cut - 1)[i] = list[i]
    BY <1>4, SubSeqProperties
  <2> QED BY <1>5, <2>1, <2>2, <2>3 DEF ToSet
<1>8. ToSet(delivered') \subseteq ToSet(delivered) \cup Listed
  <2> DEFINE o == Outgoing(list, cut)
  <2>1. o \in Seq(Positions) /\ \A i \in 1..Len(o) : o[i] \in Listed
    <3>1. CASE cut = Len(list) + 1
      <4>1. o = <<>>
        BY <1>4, <3>1 DEF Outgoing
      <4> QED BY <4>1
    <3>2. CASE cut \in 1..Len(list)
      <4>1. /\ o \in Seq(Positions)
            /\ \A i \in 1..Len(o) : \E k \in cut..Len(list) : o[i] = list[k].n
        BY <1>4, <3>2, OutgoingFacts
      <4>2. \A k \in cut..Len(list) : k \in 1..Len(list)
        BY <1>4, <3>2
      <4> HIDE DEF o
      <4> QED BY <4>1, <4>2
    <3> QED BY <1>4, <3>1, <3>2
  <2> HIDE DEF o, Listed
  <2>2. /\ Len(delivered) \in Nat /\ Len(o) \in Nat
        /\ Len(delivered \o o) = Len(delivered) + Len(o)
        /\ \A i \in 1..(Len(delivered) + Len(o)) :
             (delivered \o o)[i] = IF i <= Len(delivered) THEN delivered[i]
                                   ELSE o[i - Len(delivered)]
    BY <1>6, <2>1, ConcatProperties
  <2>3. \A i \in 1..(Len(delivered) + Len(o)) :
          (delivered \o o)[i] \in ToSet(delivered) \cup Listed
    <3> TAKE i \in 1..(Len(delivered) + Len(o))
    <3>1. CASE i <= Len(delivered)
      <4>1. i \in DOMAIN delivered
        BY <1>6, <2>2, <3>1
      <4> QED BY <2>2, <3>1, <4>1 DEF ToSet
    <3>2. CASE ~(i <= Len(delivered))
      <4>1. i - Len(delivered) \in 1..Len(o)
        BY <2>2, <3>2
      <4> QED BY <2>1, <2>2, <3>2, <4>1
    <3> QED BY <3>1, <3>2
  <2>4. DOMAIN (delivered \o o) = 1..(Len(delivered) + Len(o))
    BY <1>6, <2>1, <2>2
  <2> QED BY <1>5, <2>3, <2>4 DEF ToSet, o
<1>9. ToSet(delivered') \subseteq arrived'
  BY <1>1, <1>4, <1>8 DEF MissingInv
<1>10. ASSUME InFirstCycle', NEW k \in 1..Len(loss_seqs')
       PROVE  loss_seqs'[k].seq \notin KeptOrGiven'
  <2>1. InFirstCycle
    BY <1>1, <1>10 DEF InFirstCycle
  <2>2. Asks(n, loss_seqs, loss_seqs', loss_packet_seqs')
    BY <1>10, ArrivalAsks
  <2>3. CASE IsLate(SeqAt(n))
    <3>1. PICK j \in 1..Len(loss_seqs) : loss_seqs'[k].seq = loss_seqs[j].seq
      BY <2>2, <2>3 DEF Asks
    <3>2. Listed \subseteq {p.n : p \in ToSet(cached_packets)}
      <4>1. \A i \in 1..Len(list) : list[i] \in ToSet(cached_packets)
        BY <1>3, <1>4, <2>3 DEF ToSet
      <4> QED BY <4>1
    <3>3. KeptOrGiven' \subseteq KeptOrGiven
      BY <1>7, <1>8, <3>2 DEF KeptOrGiven
    <3> QED BY <2>1, <3>1, <3>3 DEF MissingInv
  <2>4. CASE ~IsLate(SeqAt(n))
    <3>1. loss_seqs'[k].seq \notin S
      BY <2>2, <2>4 DEF Asks
    <3>2. KeptOrGiven' \subseteq S
      BY <1>4, <1>7, <1>8 DEF KeptOrGiven, MissingInv
    <3> QED BY <3>1, <3>2
  <2> QED BY <2>3, <2>4
<1> QED BY <1>9, <1>10 DEF MissingInv

\* MissingInv is an invariant, given the others.
LEMMA MissingHold == Spec => []MissingInv
<1>1. Init => MissingInv
  <2> SUFFICES ASSUME Init PROVE MissingInv
    OBVIOUS
  <2>1. delivered = <<>> /\ loss_seqs = <<>>
    BY DEF Init
  <2>2. ToSet(delivered) = {}
    BY <2>1 DEF ToSet
  <2> QED BY <2>1, <2>2 DEF MissingInv
<1>2. DeliveryInv /\ StatsInv /\ LossInv /\ MissingInv /\ [Next]_vars => MissingInv'
  <2> SUFFICES ASSUME DeliveryInv, StatsInv, LossInv, MissingInv, [Next]_vars PROVE MissingInv'
    OBVIOUS
  <2>1. ASSUME NEW n \in Positions, NEW kind \in Kinds, OnRtpPacket(n, kind)
        PROVE  MissingInv'
    BY <2>1, ArrivalKeepsMissing
  <2>2. CASE UNCHANGED <<cacheVars, arrived, delivered>>
    BY <2>2 DEF cacheVars, MissingInv, KeptOrGiven, InFirstCycle
  <2>3. \/ \E n \in Positions, kind \in Kinds : OnRtpPacket(n, kind)
        \/ UNCHANGED <<cacheVars, arrived, delivered>>
    BY DEF Next, Tick, RejectRtpPacket, vars
  <2> QED BY <2>1, <2>2, <2>3
<1> QED BY <1>1, <1>2, InvHolds, StatsHold, LossHold, PTL DEF Spec

-----------------------------------------------------------------------------
(* The loss list over a wrap of the counter: its type *)

\* Supplementing leaves a list of losses.
LEMMA SupplementType ==
  ASSUME NEW losses \in Seq(LossEntries), NEW list \in Seq(Packets), list # <<>>,
         latest_callback_seq \in SeqNums
  PROVE  SupplementLossSeqs(losses, list) \in Seq(LossEntries)
<1> DEFINE front == [i \in DOMAIN list |-> SeqOfPacket(list[i])]
           seqs == Visited(list)
           placed == PlaceGaps(losses, seqs)
           I == {i \in DOMAIN placed : IsSeqBefore(latest_callback_seq, placed[i].seq)}
<1>1. /\ Len(list) \in Nat \ {0} /\ DOMAIN list = 1..Len(list)
      /\ \A i \in 1..Len(list) : SeqOfPacket(list[i]) \in SeqNums
  <2>1. \A i \in 1..Len(list) : list[i].n \in Int
    BY PacketListType
  <2> QED BY <2>1, SeqAtType DEF SeqOfPacket
<1>2. front \in Seq(SeqNums) /\ Len(front) = Len(list)
  BY <1>1
<1>3. seqs = front \o (IF has_callback_packet THEN <<latest_callback_seq>> ELSE <<>>)
  BY DEF Visited
<1> HIDE DEF front, seqs
<1>4. seqs \in Seq(SeqNums) /\ seqs # <<>>
  <2>1. CASE has_callback_packet
    <3>1. seqs = front \o <<latest_callback_seq>> /\ <<latest_callback_seq>> \in Seq(SeqNums)
      BY <1>3, <2>1
    <3> QED BY <1>1, <1>2, <3>1
  <2>2. CASE ~has_callback_packet
    <3>1. seqs = front \o <<>>
      BY <1>3, <2>2
    <3> QED BY <1>1, <1>2, <3>1
  <2> QED BY <2>1, <2>2
<1>5. placed \in Seq(LossEntries)
  <2>1. PICK walked \in [0..(Len(seqs) - 1) -> Placings] : placed = walked[Len(seqs) - 1].list
    BY <1>4, PlaceGapsWalks
  <2>2. Len(seqs) - 1 \in 0..(Len(seqs) - 1)
    BY <1>4
  <2>3. walked[Len(seqs) - 1] \in Placings
    BY <2>1, <2>2
  <2> QED BY <2>1, <2>3 DEF Placings
<1>6. Picked(placed, I) \in Seq(LossEntries)
  <2> HIDE DEF placed, I
  <2> QED BY <1>5, PickedElements
<1>7. SupplementLossSeqs(losses, list) = IF has_callback_packet THEN Picked(placed, I) ELSE placed
  BY DEF SupplementLossSeqs, Visited, seqs
<1> QED BY <1>5, <1>6, <1>7

\* The request names sequence numbers.
LEMMA NackSeqsType ==
  ASSUME NEW losses \in Seq(LossEntries)
  PROVE  NackSeqs(losses) \in Seq(SeqNums)
<1> DEFINE I == {i \in DOMAIN losses : IsNackDue(losses[i])}
           picked == Picked(losses, I)
           due == Reverse(picked)
<1>1. picked \in Seq(LossEntries)
  <2> HIDE DEF I
  <2> QED BY PickedElements
<1>2. NackSeqs(losses) = [i \in DOMAIN due |-> due[i].seq]
  BY DEF NackSeqs
<1> HIDE DEF picked
<1>3. due = [i \in 1..Len(picked) |-> picked[(Len(picked) - i) + 1]] /\ Len(picked) \in Nat
  BY <1>1 DEF Reverse
<1>4. \A i \in 1..Len(picked) : picked[i].seq \in SeqNums
  BY <1>1, LossListType
<1>5. \A i \in 1..Len(picked) : (Len(picked) - i) + 1 \in 1..Len(picked)
  BY <1>3
<1> HIDE DEF due
<1>6. NackSeqs(losses) = [i \in 1..Len(picked) |-> picked[(Len(picked) - i) + 1].seq]
  BY <1>2, <1>3
<1> QED BY <1>3, <1>4, <1>5, <1>6

\* An arrival leaves a list of losses and asks for sequence numbers.
LEMMA ArrivalKeepsType ==
  ASSUME DeliveryInv, loss_seqs \in Seq(LossEntries),
         NEW n \in Positions, NEW kind, OnRtpPacket(n, kind)
  PROVE  loss_seqs' \in Seq(LossEntries) /\ loss_packet_seqs' \in Seq(SeqNums)
<1> DEFINE s == SeqAt(n)
           list == CacheAfterPut(n)
           I == {i \in DOMAIN loss_seqs :
                   loss_seqs[i].seq = s => \E j \in 1..(i - 1) : loss_seqs[j].seq = s}
           others == Picked(loss_seqs, I)
           losses == IF IsLate(s) THEN loss_seqs ELSE LossAfterPut(s, list)
<1>1. /\ loss_seqs' = MarkNotified(losses) /\ loss_packet_seqs' = NackSeqs(losses)
      /\ WithinReach(n)
  BY DEF OnRtpPacket
<1>2. losses \in Seq(LossEntries)
  <2>1. CASE IsLate(s)
    BY <2>1
  <2>2. CASE ~IsLate(s)
    <3> DEFINE p == [n |-> n, timeout |-> now + MaxCacheDuration]
    <3>1. others \in Seq(LossEntries)
      <4> HIDE DEF I
      <4> QED BY PickedElements
    <3>2. LossAfterPut(s, list) = SupplementLossSeqs(others, list)
      BY DEF LossAfterPut
    <3>3. list = InsertPacket(cached_packets, p)
      BY <2>2 DEF CacheAfterPut
    <3>4. WellOrdered(cached_packets) /\ InReachOf(p.n, cached_packets)
      BY <1>1, InvGivesDeliverable DEF Deliverable, WithinReach, InReachOf, Within, DeliveryInv, CacheTypeOK
    <3>5. p \in Packets /\ p.n = n
      BY ReceiverAssumption DEF DeliveryInv, CacheTypeOK, Packets
    <3>6. latest_callback_seq \in SeqNums
      BY DEF DeliveryInv, CacheTypeOK
    <3> HIDE DEF others, list, p, losses
    <3>7. list \in Seq(Packets) /\ list # <<>>
      <4> DEFINE r == InsertPacket(cached_packets, p)
      <4>1. WellOrdered(r) /\ Len(r) >= 1
        BY <3>4, <3>5, InsertPacketCorrect
      <4>2. r \in Seq(Packets) /\ r # <<>>
        BY <4>1 DEF WellOrdered
      <4> QED BY <3>3, <4>2
    <3>8. SupplementLossSeqs(others, list) \in Seq(LossEntries)
      BY <3>1, <3>6, <3>7, SupplementType
    <3> QED BY <2>2, <3>2, <3>8 DEF losses
  <2> QED BY <2>1, <2>2
<1>3. now \in Nat
  BY ReceiverAssumption DEF DeliveryInv, CacheTypeOK
<1> HIDE DEF losses
<1> QED BY <1>1, <1>2, <1>3, MarkedFacts, NackSeqsType

\* The list holds loss entries, in every cycle of the counter.
LossTypeOK == loss_seqs \in Seq(LossEntries)

\* However often the counter wraps, the list of losses keeps its type.
LEMMA NextKeepsType == DeliveryInv /\ LossTypeOK /\ [Next]_vars => LossTypeOK'
<1> SUFFICES ASSUME DeliveryInv, loss_seqs \in Seq(LossEntries), [Next]_vars
             PROVE  loss_seqs' \in Seq(LossEntries)
  BY DEF LossTypeOK
<1>1. ASSUME NEW n \in Positions, NEW kind \in Kinds, OnRtpPacket(n, kind)
      PROVE  loss_seqs' \in Seq(LossEntries)
  BY <1>1, ArrivalKeepsType
<1>2. CASE UNCHANGED loss_seqs
  BY <1>2
<1> QED BY <1>1, <1>2 DEF Next, Tick, RejectRtpPacket, vars, cacheVars
=============================================================================
