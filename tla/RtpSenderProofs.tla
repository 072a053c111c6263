--------------------------- MODULE RtpSenderProofs ---------------------------
(* Proofs about RtpSender: the cache of a sender whose payload types all have *)
(* an rtx type is a window on the newest packets, for every modulus and every *)
(* max_cache_seq_difference a 16-bit configuration can hold.                  *)
EXTENDS RtpSender, SeqNumProofs, SequenceTheorems

\* The cache after the packet at position n, the first having been at f.
Span(f, n) == IF n - f < MaxCacheSeqDifference THEN n - f ELSE MaxCacheSeqDifference

IsWindowOf(list, f, n) ==
  /\ list \in Seq(Nat)
  /\ Len(list) = Span(f, n) + 1
  /\ \A i \in 1..Len(list) : list[i] = n - Len(list) + i

\* Every accepted packet goes through PutPacket.
AllCached == RtxEnabled /\ PayloadKinds \cap {"unmapped"} = {}

WindowInv ==
  /\ has_sent \in BOOLEAN /\ last_seq \in SeqNums
  /\ first_n \in Nat /\ last_n \in Nat
  /\ ~has_sent => cached_rtp_packets = <<>>
  /\ has_sent => /\ first_n <= last_n
                 /\ last_seq = SeqAt(last_n)
                 /\ IsWindowOf(cached_rtp_packets, first_n, last_n)

\* A cached packet stays exactly as long as its position is in range.
LEMMA StaysCachedMeaning ==
  ASSUME NEW m \in Nat, NEW k \in 1..SeqSpace
  PROVE  StaysCached(m, m + k) <=> k <= MaxCacheSeqDifference
BY InRangeIsStreamDistance, SenderAssumption DEF StaysCached, IsSeqBeforeInRange

\* The next position has the next sequence number.
LEMMA NextSeqIsNextPosition ==
  ASSUME NEW n \in Nat, NEW s \in SeqNums, s = NextSeq(SeqAt(n))
  PROVE  s = SeqAt(n + 1)
<1>1. /\ SeqAt(n) \in 0..(SeqSpace - 1) /\ SeqAt(n + 1) \in 0..(SeqSpace - 1)
      /\ SeqSpace \in Nat /\ SeqSpace >= 2
  BY SeqAtType, SeqSpaceAssumption DEF SeqNums
<1>2. \/ SeqAt(n + 1) - SeqAt(n) = (n + 1) - n
      \/ SeqAt(n + 1) - SeqAt(n) = (n + 1) - n - SeqSpace
  BY <1>1, NeighbourCycles
<1>3. QED BY <1>1, <1>2 DEF NextSeq

\* The three parts of a window, for citing.
LEMMA WindowIntro ==
  ASSUME NEW f, NEW n, NEW list \in Seq(Nat),
         Len(list) = Span(f, n) + 1,
         \A i \in 1..Len(list) : list[i] = n - Len(list) + i
  PROVE  IsWindowOf(list, f, n)
BY DEF IsWindowOf

\* A window of one packet.
LEMMA SingletonWindow ==
  ASSUME NEW f \in Nat, NEW n \in Nat, Span(f, n) = 0
  PROVE  IsWindowOf(<<n>>, f, n)
<1>1. <<n>> \in Seq(Nat) /\ Len(<<n>>) = 1 /\ <<n>>[1] = n
  OBVIOUS
<1>2. ASSUME NEW i \in 1..1
      PROVE  i = 1 /\ n - 1 + i = n
  OBVIOUS
<1>3. \A i \in 1..Len(<<n>>) : <<n>>[i] = n - Len(<<n>>) + i
  BY <1>1, <1>2
<1>4. Len(<<n>>) = Span(f, n) + 1
  BY <1>1
<1>5. QED BY <1>1, <1>3, <1>4 DEF IsWindowOf

\* PutPacket moves the window on by one packet.
LEMMA PutPacketMovesWindow ==
  ASSUME NEW f \in Nat, NEW n \in Nat, f <= n,
         NEW list, IsWindowOf(list, f, n)
  PROVE  IsWindowOf(PutPacket(list, n + 1), f, n + 1)
<1> DEFINE D == MaxCacheSeqDifference
           len == Len(list)
           Stays(i) == StaysCached(list[i], n + 1)
<1>1. /\ D \in Nat /\ D < SeqSpace /\ SeqSpace \in Nat
      /\ len \in Nat /\ len = Span(f, n) + 1 /\ DOMAIN list = 1..len
  BY SenderAssumption, SeqSpaceAssumption DEF IsWindowOf, SeqNums
<1>2. len >= 1 /\ len <= D + 1 /\ len <= n - f + 1
  BY <1>1 DEF Span
<1>3. ASSUME NEW i \in 1..len
      PROVE  Stays(i) <=> len + 1 - i <= D
  <2>1. list[i] = n - len + i /\ list[i] \in Nat
    BY DEF IsWindowOf
  <2>2. len + 1 - i \in 1..SeqSpace /\ n + 1 = list[i] + (len + 1 - i)
    BY <1>1, <1>2, <2>1
  <2>3. StaysCached(list[i], list[i] + (len + 1 - i)) <=> len + 1 - i <= D
    BY <2>1, <2>2, StaysCachedMeaning
  <2>4. QED BY <2>2, <2>3
<1>4. CASE D = 0
  <2>1. ~ \E i \in DOMAIN list : Stays(i)
    BY <1>1, <1>2, <1>3, <1>4
  <2>2. PutPacket(list, n + 1) = <<n + 1>>
    BY <2>1 DEF PutPacket
  <2>3. Span(f, n + 1) = 0
    BY <1>4, <1>1 DEF Span
  <2>4. n + 1 \in Nat
    OBVIOUS
  <2>5. QED BY <2>2, <2>3, <2>4, SingletonWindow
<1>5. CASE D > 0
  \* The first packet that stays: the second of a full window, else the first.
  <2> DEFINE first == IF len = D + 1 THEN 2 ELSE 1
             IsFirst(i) == Stays(i) /\ \A j \in 1..(i - 1) : ~Stays(j)
  <2>1. first \in 1..len /\ IsFirst(first)
    <3>1. CASE len = D + 1
      <4>1. first = 2 /\ 2 \in 1..len /\ 1 \in 1..len
        BY <3>1, <1>5, <1>1
      <4>2. Stays(2) /\ ~Stays(1)
        BY <4>1, <1>3, <3>1, <1>1
      <4>3. \A j \in 1..(2 - 1) : ~Stays(j)
        BY <4>2
      <4>4. QED BY <4>1, <4>2, <4>3
    <3>2. CASE len # D + 1
      <4>1. first = 1 /\ 1 \in 1..len /\ 1..(1 - 1) = {}
        BY <3>2, <1>2, <1>1
      <4>2. Stays(1)
        BY <4>1, <1>3, <3>2, <1>1, <1>2
      <4>3. QED BY <4>1, <4>2
    <3>3. QED BY <3>1, <3>2
  <2>2. ASSUME NEW i \in DOMAIN list, IsFirst(i)
        PROVE  i = first
    <3>1. i \in 1..len /\ first \in 1..len /\ i \in Int /\ first \in Int
      BY <1>1, <2>1
    <3>2. ~(first < i)
      BY <2>1, <2>2, <3>1
    <3>3. ~(i < first)
      BY <2>1, <2>2, <3>1
    <3>4. QED BY <3>1, <3>2, <3>3
  <2> HIDE DEF first
  <2>3. PutPacket(list, n + 1) = Append(SubSeq(list, first, len), n + 1)
    <3>1. \E i \in DOMAIN list : Stays(i)
      BY <2>1, <1>1
    <3>2. first = CHOOSE i \in DOMAIN list : IsFirst(i)
      BY <2>1, <2>2, <1>1
    <3>3. QED BY <3>1, <3>2 DEF PutPacket
  <2> DEFINE kept == SubSeq(list, first, len)
             new == Append(kept, n + 1)
  <2>4. list \in Seq(Nat) /\ first \in Int /\ first <= len
    BY <2>1, <1>1 DEF IsWindowOf
  <2>5. /\ kept \in Seq(Nat) /\ Len(kept) = len - first + 1
        /\ \A i \in 1..(len - first + 1) : kept[i] = list[first + i - 1]
    BY <2>1, <2>4, <1>1
  <2> HIDE DEF kept
  <2>6. /\ new \in Seq(Nat) /\ Len(new) = len - first + 2
        /\ \A i \in 1..(len - first + 1) : new[i] = kept[i]
        /\ new[len - first + 2] = n + 1
    BY <2>4, <2>5, <1>1
  <2> HIDE DEF new
  <2>7. Len(new) = Span(f, n + 1) + 1
    <3>1. CASE len = D + 1
      BY <3>1, <2>6, <1>1 DEF Span, first
    <3>2. CASE len # D + 1
      BY <3>2, <2>6, <1>1 DEF Span, first
    <3>3. QED BY <3>1, <3>2
  <2>8. ASSUME NEW i \in 1..Len(new)
        PROVE  new[i] = n + 1 - Len(new) + i
    <3>1. CASE i = Len(new)
      BY <3>1, <2>6, <2>4, <1>1
    <3>2. CASE i # Len(new)
      <4>1. i \in 1..(len - first + 1) /\ first + i - 1 \in 1..len
        <5>1. first \in Int /\ 1 <= first /\ first <= len /\ len \in Nat
          BY <2>1, <1>1
        <5>2. Len(new) = len - first + 2
          BY <2>6
        <5> HIDE DEF len
        <5>3. i \in Int /\ 1 <= i /\ i <= len - first + 1
          BY <5>1, <5>2, <3>2
        <5>4. QED BY <5>1, <5>3
      <4>2. new[i] = list[first + i - 1]
        BY <4>1, <2>5, <2>6
      <4>3. list[first + i - 1] = n - len + (first + i - 1)
        BY <4>1 DEF IsWindowOf
      <4>4. Len(new) = len - first + 2 /\ first \in Int /\ len \in Int /\ n \in Int
        BY <2>6, <2>4, <1>1
      <4>5. i \in Int
        BY <4>1
      <4> HIDE DEF len
      <4>6. n - len + (first + i - 1) = n + 1 - Len(new) + i
        BY <4>4, <4>5
      <4>7. QED BY <4>2, <4>3, <4>6
    <3>3. QED BY <3>1, <3>2
  <2>9. IsWindowOf(new, f, n + 1)
    <3>1. new \in Seq(Nat)
      BY <2>6
    <3>2. \A i \in 1..Len(new) : new[i] = n + 1 - Len(new) + i
      BY <2>8
    <3>3. QED BY <3>1, <3>2, <2>7, WindowIntro
  <2>10. PutPacket(list, n + 1) = new
    BY <2>3 DEF new, kept
  <2>11. QED BY <2>9, <2>10
<1>6. QED BY <1>1, <1>4, <1>5

\* The first packet fills the empty cache.
LEMMA PutPacketStartsWindow ==
  ASSUME NEW n \in Nat
  PROVE  IsWindowOf(PutPacket(<<>>, n), n, n)
<1>1. PutPacket(<<>>, n) = <<n>>
  BY DEF PutPacket
<1>2. Span(n, n) = 0
  BY SenderAssumption, SeqSpaceAssumption DEF Span, SeqNums
<1>3. QED BY <1>1, <1>2, SingletonWindow

\* WindowInv is inductive when every accepted packet is cached.
LEMMA WindowStep ==
  ASSUME AllCached, WindowInv, [Next]_vars
  PROVE  WindowInv'
<1>1. ASSUME NEW s \in SeqNums, NEW payload \in PayloadKinds, SendRtp(s, payload)
      PROVE  WindowInv'
  <2>0. payload = "mapped" /\ RtxEnabled
    BY <1>1, SenderAssumption DEF SendRtp, IsAccepted, AllCached, PacketPayloads
  <2>1. CASE has_sent
    <3>1. /\ s = NextSeq(last_seq) /\ last_n \in Nat /\ first_n \in Nat
          /\ first_n <= last_n /\ last_seq = SeqAt(last_n)
          /\ IsWindowOf(cached_rtp_packets, first_n, last_n)
      BY <1>1, <2>1 DEF SendRtp, IsAccepted, WindowInv
    <3>2. s = SeqAt(last_n + 1)
      BY <3>1, NextSeqIsNextPosition
    <3>3. /\ cached_rtp_packets' = PutPacket(cached_rtp_packets, last_n + 1)
          /\ last_seq' = s /\ has_sent' = TRUE
          /\ last_n' = last_n + 1 /\ first_n' = first_n
      BY <1>1, <2>0, <2>1 DEF SendRtp
    <3>4. IsWindowOf(cached_rtp_packets', first_n, last_n + 1)
      BY <3>1, <3>3, PutPacketMovesWindow
    <3>5. last_n' \in Nat /\ first_n <= last_n + 1
      BY <3>1, <3>3
    <3>6. QED BY <3>1, <3>2, <3>3, <3>4, <3>5 DEF WindowInv
  <2>2. CASE ~has_sent
    <3>1. /\ cached_rtp_packets' = PutPacket(<<>>, s)
          /\ last_seq' = s /\ has_sent' = TRUE /\ last_n' = s /\ first_n' = s
      BY <1>1, <2>0, <2>2 DEF SendRtp, WindowInv
    <3>2. s \in Nat /\ s < SeqSpace
      BY SeqSpaceAssumption DEF SeqNums
    <3>3. s = SeqAt(s)
      BY <3>2, SeqSpaceAssumption DEF SeqAt
    <3>4. IsWindowOf(cached_rtp_packets', s, s)
      BY <3>1, <3>2, PutPacketStartsWindow
    <3>5. QED BY <3>1, <3>2, <3>3, <3>4 DEF WindowInv
  <2>3. QED BY <2>1, <2>2
<1>2. ASSUME NEW packet_seqs \in Requests, SendRtx(packet_seqs)
      PROVE  WindowInv'
  BY <1>2 DEF SendRtx, WindowInv
<1>3. CASE UNCHANGED vars
  BY <1>3 DEF vars, WindowInv
<1>4. QED BY <1>1, <1>2, <1>3 DEF Next, RejectRtp, IgnoreRtx

\* The invariant says what CacheIsWindow says.
LEMMA WindowInvGives == WindowInv => CacheIsWindow
<1> SUFFICES ASSUME WindowInv, AllCached
             PROVE  /\ \A i, j \in DOMAIN cached_rtp_packets :
                         j - i = cached_rtp_packets[j] - cached_rtp_packets[i]
                    /\ {cached_rtp_packets[i] : i \in DOMAIN cached_rtp_packets} = Window
  BY DEF CacheIsWindow, AllCached
<1>1. CASE ~has_sent
  <2>1. cached_rtp_packets = <<>> /\ Window = {}
    BY <1>1 DEF WindowInv, Window
  <2>2. QED BY <2>1
<1>2. CASE has_sent
  <2> DEFINE list == cached_rtp_packets
             len == Len(list)
  <2>1. /\ list \in Seq(Nat) /\ DOMAIN list = 1..len /\ len \in Nat
        /\ len = Span(first_n, last_n) + 1
        /\ first_n \in Nat /\ last_n \in Nat /\ first_n <= last_n
        /\ MaxCacheSeqDifference \in Nat
    BY <1>2, SenderAssumption, SeqSpaceAssumption DEF WindowInv, IsWindowOf, SeqNums
  <2>2. \A i \in 1..len : list[i] = last_n - len + i
    BY <1>2 DEF WindowInv, IsWindowOf
  <2> HIDE DEF list
  <2>3. \A i, j \in DOMAIN list : j - i = list[j] - list[i]
    BY <2>1, <2>2
  <2>4. ASSUME NEW i \in DOMAIN list
        PROVE  list[i] \in Window
    BY <1>2, <2>1, <2>2 DEF Span, Window
  <2>5. ASSUME NEW n \in Window
        PROVE  \E i \in DOMAIN list : list[i] = n
    <3>1. n \in Int /\ first_n <= n /\ n <= last_n /\ last_n - n <= MaxCacheSeqDifference
      BY <2>1 DEF Window
    <3>2. n - last_n + len \in 1..len
      BY <3>1, <2>1 DEF Span
    <3>3. list[n - last_n + len] = n
      BY <3>1, <3>2, <2>1, <2>2
    <3>4. QED BY <3>2, <3>3, <2>1
  <2>6. {list[i] : i \in DOMAIN list} = Window
    BY <2>4, <2>5
  <2>7. QED BY <2>3, <2>6 DEF list
<1>3. QED BY <1>1, <1>2 DEF WindowInv

\* When every payload type has an rtx type the retransmission cache is exactly
\* the window of the newest packets, however often the counter has wrapped.
THEOREM CacheWindow == Spec => []CacheIsWindow
<1>1. CASE AllCached
  <2>1. Init => WindowInv
    <3>1. 0 \in SeqNums /\ 0 \in Nat
      BY SeqSpaceAssumption DEF SeqNums
    <3>2. QED BY <3>1, Zenon DEF Init, WindowInv
  <2>2. WindowInv /\ [Next]_vars => WindowInv'
    BY <1>1, WindowStep
  <2>3. WindowInv => CacheIsWindow
    BY WindowInvGives
  <2>4. QED BY <2>1, <2>2, <2>3, PTL DEF Spec
<1>2. CASE ~AllCached
  <2>1. CacheIsWindow
    BY <1>2 DEF AllCached, CacheIsWindow
  <2>2. QED BY <2>1, PTL
<1>3. QED BY <1>1, <1>2

-----------------------------------------------------------------------------
(* The answer to a NACK *)

\* No two packets of the cache have the same sequence number.
LEMMA CachedOnce ==
  ASSUME WindowInv, NEW i \in DOMAIN cached_rtp_packets,
         NEW j \in DOMAIN cached_rtp_packets,
         SeqAt(cached_rtp_packets[i]) = SeqAt(cached_rtp_packets[j])
  PROVE  i = j
<1> DEFINE list == cached_rtp_packets
<1>1. has_sent
  BY DEF WindowInv
<1>2. /\ Len(list) \in Nat /\ Len(list) <= SeqSpace /\ DOMAIN list = 1..Len(list)
      /\ \A k \in 1..Len(list) : list[k] = last_n - Len(list) + k
      /\ last_n \in Nat /\ SeqSpace \in Nat
  BY <1>1, SenderAssumption, SeqSpaceAssumption DEF WindowInv, IsWindowOf, Span, SeqNums
<1>3. \A k, m \in 1..Len(list) :
         SeqAt(list[k]) = SeqAt(list[m]) => ~(k < m)
  <2>1. TAKE k, m \in 1..Len(list)
  <2>2. HAVE SeqAt(list[k]) = SeqAt(list[m])
  <2>3. SUFFICES ASSUME k < m PROVE FALSE
    OBVIOUS
  <2>4. /\ list[k] \in Int /\ list[m] \in Int /\ list[m] - list[k] = m - k
        /\ 0 <= m - k /\ m - k < SeqSpace /\ m - k # 0
    BY <1>2, <2>3
  <2>5. \/ SeqAt(list[m]) - SeqAt(list[k]) = m - k
        \/ SeqAt(list[m]) - SeqAt(list[k]) = m - k - SeqSpace
    BY <2>4, NeighbourCycles
  <2>7. k \in Int /\ m \in Int
    OBVIOUS
  <2> HIDE DEF list
  <2>6. SeqAt(list[k]) \in Int /\ SeqAt(list[m]) \in Int
    <3>1. SeqAt(list[k]) \in SeqNums /\ SeqAt(list[m]) \in SeqNums
      BY <2>4, SeqAtType
    <3>2. SeqNums \subseteq Int
      BY SeqSpaceAssumption DEF SeqNums
    <3>3. QED BY <3>1, <3>2
  <2>8. QED BY <2>2, <2>4, <2>5, <2>6, <2>7, <1>2
<1>4. i \in 1..Len(list) /\ j \in 1..Len(list) /\ SeqAt(list[i]) = SeqAt(list[j])
  BY <1>2
<1> HIDE DEF list
<1>5. ~(i < j) /\ ~(j < i)
  BY <1>3, <1>4
<1>6. QED BY <1>4, <1>5

\* What GetPackets finds for one number is the packet of the window that has it.
LEMMA FirstCachedFacts ==
  ASSUME AllCached, WindowInv
  PROVE  /\ \A s : IsCached(s) => /\ FirstCached(s) \in Window
                                  /\ SeqAt(FirstCached(s)) = s
         /\ \A n \in Window : IsCached(SeqAt(n)) /\ FirstCached(SeqAt(n)) = n
<1> DEFINE list == cached_rtp_packets
           IsFirst(s, i) == /\ SeqAt(list[i]) = s
                            /\ \A j \in 1..(i - 1) : SeqAt(list[j]) # s
<1>1. {list[i] : i \in DOMAIN list} = Window
  BY WindowInvGives DEF CacheIsWindow, AllCached
<1>2. DOMAIN list = 1..Len(list) /\ Len(list) \in Nat
  BY DEF WindowInv, IsWindowOf
<1>3. \A i, j \in DOMAIN list : SeqAt(list[i]) = SeqAt(list[j]) => i = j
  BY CachedOnce
<1>4. ASSUME NEW i \in DOMAIN list
      PROVE  IsCached(SeqAt(list[i])) /\ FirstCached(SeqAt(list[i])) = list[i]
  <2> DEFINE s == SeqAt(list[i])
  <2>1. IsFirst(s, i)
    <3>1. ASSUME NEW j \in 1..(i - 1)
          PROVE  SeqAt(list[j]) # s
      <4>1. j \in DOMAIN list /\ j # i
        BY <1>2
      <4>2. QED BY <4>1, <1>3
    <3>2. QED BY <3>1
  <2>2. ASSUME NEW k \in DOMAIN list, IsFirst(s, k)
        PROVE  k = i
    BY <2>2, <1>3
  <2>3. i = CHOOSE k \in DOMAIN list : IsFirst(s, k)
    BY <2>1, <2>2
  <2>4. FirstCached(s) = list[i]
    BY <2>3 DEF FirstCached
  <2>5. QED BY <2>4 DEF IsCached
<1>5. ASSUME NEW s, IsCached(s)
      PROVE  FirstCached(s) \in Window /\ SeqAt(FirstCached(s)) = s
  <2>1. PICK i \in DOMAIN list : SeqAt(list[i]) = s
    BY <1>5 DEF IsCached
  <2>2. FirstCached(s) = list[i]
    BY <2>1, <1>4
  <2>3. QED BY <2>1, <2>2, <1>1
<1>6. ASSUME NEW n \in Window
      PROVE  IsCached(SeqAt(n)) /\ FirstCached(SeqAt(n)) = n
  <2>1. PICK i \in DOMAIN list : list[i] = n
    BY <1>1
  <2>2. QED BY <2>1, <1>4
<1>7. QED BY <1>5, <1>6

\* The domain and the elements of what GetPackets returns.
LEMMA GetPacketsFacts ==
  ASSUME NEW packet_seqs \in Seq(SeqNums), NEW packets, packets = GetPackets(packet_seqs)
  PROVE  /\ Len(packets) \in Nat /\ DOMAIN packets = 1..Len(packets)
         /\ packets \in Seq({packets[k] : k \in DOMAIN packets})
         /\ {packets[k] : k \in DOMAIN packets} =
               {FirstCached(s) : s \in {s \in ToSet(packet_seqs) : IsCached(s)}}
<1> DEFINE I == {k \in DOMAIN packet_seqs : IsCached(packet_seqs[k])}
           found == Picked(packet_seqs, I)
           S == {packets[k] : k \in DOMAIN packets}
<1>1. packets = [k \in DOMAIN found |-> FirstCached(found[k])]
  BY DEF GetPackets
<1>2. /\ found \in Seq(SeqNums)
      /\ \A i \in 1..Len(found) : \E k \in I \cap (1..Len(packet_seqs)) : found[i] = packet_seqs[k]
      /\ \A k \in I \cap (1..Len(packet_seqs)) : \E i \in 1..Len(found) : found[i] = packet_seqs[k]
  <2> HIDE DEF I
  <2>1. found \in Seq(SeqNums) /\ HasPicked(found, packet_seqs, I)
    BY PickedElements
  <2> HIDE DEF found
  <2>2. QED BY <2>1 DEF HasPicked
<1> HIDE DEF found
<1>3. DOMAIN packets = 1..Len(found) /\ Len(found) \in Nat
  BY <1>1, <1>2
<1>4. packets \in [1..Len(found) -> S]
  BY <1>1, <1>3
<1>5. packets \in Seq(S)
  BY <1>3, <1>4
<1>6. Len(packets) \in Nat /\ DOMAIN packets = 1..Len(packets)
  BY <1>5
<1>7. ASSUME NEW k \in DOMAIN packets
      PROVE  \E s \in ToSet(packet_seqs) : IsCached(s) /\ packets[k] = FirstCached(s)
  <2>1. packets[k] = FirstCached(found[k]) /\ k \in 1..Len(found)
    BY <1>1, <1>3
  <2>2. PICK m \in I : found[k] = packet_seqs[m]
    BY <1>2, <2>1
  <2>3. packet_seqs[m] \in ToSet(packet_seqs) /\ IsCached(packet_seqs[m])
    BY DEF ToSet
  <2>4. QED BY <2>1, <2>2, <2>3
<1>8. ASSUME NEW s \in ToSet(packet_seqs), IsCached(s)
      PROVE  \E k \in DOMAIN packets : packets[k] = FirstCached(s)
  <2>1. PICK m \in DOMAIN packet_seqs : s = packet_seqs[m]
    BY DEF ToSet
  <2>2. m \in I \cap (1..Len(packet_seqs))
    BY <2>1, <1>8
  <2>3. PICK k \in 1..Len(found) : found[k] = s
    BY <2>1, <2>2, <1>2
  <2>4. QED BY <2>3, <1>1, <1>3
<1>9. S = {FirstCached(s) : s \in {s \in ToSet(packet_seqs) : IsCached(s)}}
  BY <1>7, <1>8
<1>10. QED BY <1>5, <1>6, <1>9

\* Asked for numbers that all differ, GetPackets returns no packet twice.
LEMMA GetPacketsOnce ==
  ASSUME AllCached, WindowInv, NEW packet_seqs \in Seq(SeqNums),
         \A i, j \in 1..Len(packet_seqs) : i # j => packet_seqs[i] # packet_seqs[j],
         NEW packets, packets = GetPackets(packet_seqs)
  PROVE  \A i, j \in DOMAIN packets : i # j => packets[i] # packets[j]
<1> DEFINE I == {k \in DOMAIN packet_seqs : IsCached(packet_seqs[k])}
           found == Picked(packet_seqs, I)
<1>1. packets = [k \in DOMAIN found |-> FirstCached(found[k])]
  BY DEF GetPackets
<1>2. /\ found \in Seq(SeqNums)
      /\ \A i, j \in 1..Len(found) : i < j =>
           \E k, l \in I \cap (1..Len(packet_seqs)) :
             k < l /\ found[i] = packet_seqs[k] /\ found[j] = packet_seqs[l]
  <2> HIDE DEF I
  <2> QED BY PickedElements, PickedOrder
<1>3. \A i \in 1..Len(found) : IsCached(found[i])
  <2>1. HasPicked(found, packet_seqs, I)
    <3> HIDE DEF I
    <3> QED BY PickedElements
  <2>2. \A k \in I : IsCached(packet_seqs[k])
    OBVIOUS
  <2> HIDE DEF I, found
  <2> QED BY <2>1, <2>2 DEF HasPicked
<1> HIDE DEF found, I
<1>4. \A i, j \in 1..Len(found) : i < j => found[i] # found[j]
  <2> TAKE i, j \in 1..Len(found)
  <2> HAVE i < j
  <2>1. PICK k \in I \cap (1..Len(packet_seqs)), l \in I \cap (1..Len(packet_seqs)) :
          k < l /\ found[i] = packet_seqs[k] /\ found[j] = packet_seqs[l]
    BY <1>2
  <2> QED BY <2>1
<1>5. \A i, j \in 1..Len(found) : found[i] = found[j] => i = j
  <2>1. Len(found) \in Nat
    BY <1>2
  <2>2. \A i, j \in 1..Len(found) : i = j \/ i < j \/ j < i
    BY <2>1
  <2> QED BY <1>4, <2>2
<1>6. \A i \in 1..Len(found) : SeqAt(FirstCached(found[i])) = found[i]
  BY <1>3, FirstCachedFacts
<1>7. DOMAIN packets = 1..Len(found)
  BY <1>1, <1>2
<1> QED BY <1>1, <1>5, <1>6, <1>7

\* SendRtx answers with exactly the packets of the window that were asked for.
LEMMA SendRtxAnswers ==
  ASSUME AllCached, WindowInv, NEW packet_seqs \in Requests, SendRtx(packet_seqs)
  PROVE  RtxAnswersRequest'
<1> DEFINE packets == GetPackets(packet_seqs)
           answer == {n \in Window : SeqAt(n) \in ToSet(packet_seqs)}
<1>1. packet_seqs \in Seq(SeqNums)
  BY SenderAssumption
<1>2. {packets[k] : k \in DOMAIN packets} =
        {FirstCached(s) : s \in {s \in ToSet(packet_seqs) : IsCached(s)}}
  BY <1>1, GetPacketsFacts
<1>3. {FirstCached(s) : s \in {s \in ToSet(packet_seqs) : IsCached(s)}} = answer
  <2>1. ASSUME NEW s \in ToSet(packet_seqs), IsCached(s)
        PROVE  FirstCached(s) \in answer
    BY <2>1, FirstCachedFacts
  <2>2. ASSUME NEW n \in answer
        PROVE  \E s \in ToSet(packet_seqs) : IsCached(s) /\ FirstCached(s) = n
    BY FirstCachedFacts
  <2> HIDE DEF answer
  <2>3. QED BY <2>1, <2>2
<1>4. PICK seq : out' = [k \in DOMAIN packets |->
                          [ssrc |-> "rtx", seq |-> SeqAt(seq + k), n |-> packets[k]]]
  BY DEF SendRtx
<1>5. asked' = packet_seqs /\ Window' = Window
  BY DEF SendRtx, Window
<1> HIDE DEF packets
<1>6. {p.n : p \in {out'[k] : k \in DOMAIN out'}} = {packets[k] : k \in DOMAIN packets}
  <2>1. DOMAIN out' = DOMAIN packets
    BY <1>4
  <2>2. \A k \in DOMAIN packets : out'[k].n = packets[k]
    BY <1>4
  <2>3. QED BY <2>1, <2>2
<1>7. {p.n : p \in ToSet(out')} = answer
  BY <1>2, <1>3, <1>6 DEF ToSet
<1>8. RtxAnswersRequest' <=>
        (asked' # <<>> => {p.n : p \in ToSet(out')} = {n \in Window' : SeqAt(n) \in ToSet(asked')})
  BY DEF RtxAnswersRequest
<1>9. QED BY <1>5, <1>7, <1>8

\* Every step keeps the answer right: a later packet starts a new question.
LEMMA AnswerStep ==
  ASSUME AllCached, WindowInv, RtxAnswersRequest, [Next]_vars
  PROVE  RtxAnswersRequest'
<1>1. ASSUME NEW s \in SeqNums, NEW payload \in PayloadKinds, SendRtp(s, payload)
      PROVE  RtxAnswersRequest'
  BY <1>1 DEF SendRtp, RtxAnswersRequest
<1>2. ASSUME NEW packet_seqs \in Requests, SendRtx(packet_seqs)
      PROVE  RtxAnswersRequest'
  BY <1>2, SendRtxAnswers
<1>3. CASE UNCHANGED vars
  BY <1>3 DEF vars, RtxAnswersRequest, Window
<1>4. QED BY <1>1, <1>2, <1>3 DEF Next, RejectRtp, IgnoreRtx

\* When every payload type has an rtx type, a NACK is answered with all it asks
\* for that is in the window and with nothing of an earlier cycle. Without rtx
\* no NACK is answered at all.
THEOREM RtxAnswers ==
  PayloadKinds \cap {"unmapped"} = {} /\ Spec => []RtxAnswersRequest
<1>1. CASE AllCached
  <2>1. Init => WindowInv /\ RtxAnswersRequest
    <3>1. 0 \in SeqNums /\ 0 \in Nat
      BY SeqSpaceAssumption DEF SeqNums
    <3>2. Init => WindowInv
      BY <3>1, Zenon DEF Init, WindowInv
    <3>3. Init => RtxAnswersRequest
      BY DEF Init, RtxAnswersRequest
    <3>4. QED BY <3>2, <3>3
  <2>2. WindowInv /\ RtxAnswersRequest /\ [Next]_vars => WindowInv' /\ RtxAnswersRequest'
    BY <1>1, WindowStep, AnswerStep
  <2>3. QED BY <2>1, <2>2, PTL DEF Spec
<1>2. CASE PayloadKinds \cap {"unmapped"} = {} /\ ~RtxEnabled
  <2> DEFINE NoneAsked == asked = <<>>
  <2>1. Init => NoneAsked
    BY DEF Init
  <2>2. NoneAsked /\ [Next]_vars => NoneAsked'
    BY <1>2 DEF Next, SendRtp, SendRtx, RejectRtp, IgnoreRtx, vars
  <2>3. NoneAsked => RtxAnswersRequest
    BY DEF RtxAnswersRequest
  <2> HIDE DEF NoneAsked
  <2>4. QED BY <2>1, <2>2, <2>3, PTL DEF Spec
<1>3. QED BY <1>1, <1>2 DEF AllCached
=============================================================================
