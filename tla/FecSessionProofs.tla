-------------------------- MODULE FecSessionProofs --------------------------
(* Proofs about FecSession: what the decoder gives back, for every stream,  *)
(* every loss and every batch.                                              *)
EXTENDS FecSession, SeqNumProofs, FiniteSetTheorems

\* How many packets of the stream come before the one with number s.
Place(first, s) == DiffSeq(first, s)

Packets == [seq : SeqNums, fec : BOOLEAN, payload : SUBSET SeqNums,
            protected : SUBSET SeqNums, received : SUBSET SeqNums, invalid : BOOLEAN]

\* The number of a media packet that was sent.
IsMedia(first, sent, s) ==
  Place(first, s) + 1 \in 1..Len(sent) /\ ~sent[Place(first, s) + 1].fec

\* p is, but for the marks of the decoder, the packet sent under its number.
IsCopy(first, sent, p) ==
  /\ p \in Packets
  /\ Place(first, p.seq) + 1 \in 1..Len(sent)
  /\ p.fec = sent[Place(first, p.seq) + 1].fec
  /\ ~p.fec => p.payload = {p.seq}
  /\ p.fec => p.payload = p.protected
  /\ \A s \in p.protected : IsMedia(first, sent, s)
  /\ p.received \subseteq p.protected

InStreamOrder(first, c) ==
  \A i, j \in 1..Len(c) : i < j => Place(first, c[i].seq) < Place(first, c[j].seq)

\* Packets of the stream in its order.
IsCache(first, sent, c) ==
  /\ c \in Seq(Packets)
  /\ \A i \in 1..Len(c) : IsCopy(first, sent, c[i])
  /\ InStreamOrder(first, c)

StreamOK ==
  /\ first_seq \in SeqNums /\ stream \in Seq(Packets) /\ Len(stream) <= MaxSent
  /\ passed \in 0..Len(stream)
  /\ \A i \in 1..Len(stream) :
       /\ Place(first_seq, stream[i].seq) = i - 1
       /\ IsCopy(first_seq, stream, stream[i]) /\ stream[i].received = {}

\* The numbers a packet has found are in the cache or come before its output.
FoundOrGiven(c) ==
  \A i \in 1..Len(c) : \A s \in c[i].received : s \in SeqsOf(c) \/ AlreadyOutput(s)

HeldInv ==
  /\ IsCache(first_seq, stream, cached_packets)
  /\ \A i \in 1..Len(cached_packets) : Place(first_seq, cached_packets[i].seq) < passed
  /\ FoundOrGiven(cached_packets)
  /\ \A s \in SeqsOf(cached_packets) : AlreadyOutput(s) => s \in SeqsOf(output)
  /\ \A i \in 1..Len(cached_packets) :
       Place(first_seq, cached_packets[Len(cached_packets)].seq)
         - Place(first_seq, cached_packets[i].seq) <= MaxCacheSeqDifference

\* Nothing more can be sent or delivered.
StreamEnded == passed = Len(stream) /\ nb_blocks = Len(Calls) /\ block = NoBlock

GivenInv ==
  /\ output \in Seq(Packets) /\ has_output \in BOOLEAN /\ seq_last_output \in SeqNums
  /\ \A i \in 1..Len(output) : IsCopy(first_seq, stream, output[i])
  /\ has_output <=> output # <<>>
  /\ has_output => /\ seq_last_output = output[Len(output)].seq
                   /\ Place(first_seq, seq_last_output) < passed
  /\ arrived \subseteq SeqsOf(output) \cup SeqsOf(cached_packets)
  /\ StreamEnded \/ InStreamOrder(first_seq, output)

BlockOK ==
  \/ block = NoBlock
  \/ block.media \in 1..48 /\ block.groups \in Seq(SUBSET (0..47))

FecInv == StreamOK /\ BlockOK /\ nb_blocks \in Nat /\ HeldInv /\ GivenInv

-----------------------------------------------------------------------------
(* Numbers and places *)

\* A number and its place determine each other.
LEMMA PlaceType ==
  ASSUME NEW first \in SeqNums, NEW a \in SeqNums
  PROVE  /\ Place(first, a) \in 0..(SeqSpace - 1)
         /\ \A b \in SeqNums : Place(first, a) = Place(first, b) => a = b
  BY SeqSpaceAssumption DEF Place, DiffSeq, SeqNums

\* Within half of the number space the order of the numbers is that of the stream.
LEMMA PlaceOrder ==
  ASSUME NEW first \in SeqNums, NEW a \in SeqNums, NEW b \in SeqNums,
         Place(first, a) < MaxSent, Place(first, b) < MaxSent
  PROVE  /\ IsSeqAfter(a, b) <=> Place(first, a) < Place(first, b)
         /\ IsSeqBefore(a, b) <=> Place(first, a) < Place(first, b)
         /\ IsSeqBeforeInRange(a, b, MaxCacheSeqDifference)
              <=> /\ Place(first, a) < Place(first, b)
                  /\ Place(first, b) - Place(first, a) <= MaxCacheSeqDifference
         /\ IsNextSeq(a, b) => Place(first, a) < Place(first, b)
<1>1. /\ HalfRange \in Nat /\ 2 * HalfRange < SeqSpace
      /\ MaxCacheSeqDifference \in Nat /\ MaxCacheSeqDifference >= 1
      /\ MaxSent \in Nat /\ MaxSent + MaxCacheSeqDifference <= HalfRange
  BY HalfRangeBounds, DifferenceAssumption, SessionAssumption
<1>2. PICK h \in Nat : h = HalfRange
  BY <1>1
<1>3. \A r \in 1..HalfRange : MaxSent + r <= HalfRange =>
        (IsSeqAfterInRange(a, b, r)
           <=> Place(first, a) < Place(first, b) /\ Place(first, b) - Place(first, a) <= r)
  BY <1>1, SeqSpaceAssumption DEF IsSeqAfterInRange, Place, DiffSeq, SeqNums
<1>4. IsSeqAfterInRange(a, b, h) <=> Place(first, a) < Place(first, b)
  BY <1>1, <1>2, SeqSpaceAssumption DEF IsSeqAfterInRange, Place, DiffSeq, SeqNums
<1>5. IsSeqAfter(a, b) <=> Place(first, a) < Place(first, b)
  BY <1>2, <1>4 DEF IsSeqAfter
<1>6. IsSeqAfterInRange(a, b, 1) => Place(first, a) < Place(first, b)
  BY <1>1, <1>3
<1> QED BY <1>1, <1>3, <1>5, <1>6 DEF IsSeqBefore, IsSeqBeforeInRange, IsNextSeq

\* The k-th number after the first is at place k.
LEMMA PlaceOfPosition ==
  ASSUME NEW first \in SeqNums, NEW k \in Nat, k < SeqSpace
  PROVE  /\ SeqAt(first + k) \in SeqNums
         /\ Place(first, SeqAt(first + k)) = k
<1>1. first \in Int /\ first + k \in Int /\ first \in 0..(SeqSpace - 1)
  BY SeqSpaceAssumption DEF SeqNums
<1>2. CASE first + k < SeqSpace
  <2>1. first + k \in SeqNums
    BY <1>1, <1>2, SeqSpaceAssumption DEF SeqNums
  <2>2. SeqAt(first + k) = first + k
    BY <2>1, SeqAtOfSeq
  <2> QED BY <1>1, <2>1, <2>2, SeqSpaceAssumption DEF Place, DiffSeq, SeqNums
<1>3. CASE first + k >= SeqSpace
  <2>1. PICK m \in Int : m = first + k - SeqSpace
    BY <1>1, SeqSpaceAssumption
  <2>2. m \in SeqNums /\ m < first
    BY <1>1, <1>3, <2>1, SeqSpaceAssumption DEF SeqNums
  <2>3. m + SeqSpace = first + k
    BY <1>1, <2>1, SeqSpaceAssumption
  <2>4. SeqAt(first + k) = m
    BY <2>1, <2>2, <2>3, SeqAtPeriodic, SeqAtOfSeq
  <2> QED BY <1>1, <2>1, <2>2, <2>4, SeqSpaceAssumption DEF Place, DiffSeq, SeqNums
<1> QED BY <1>1, <1>2, <1>3, SeqSpaceAssumption

\* Steps can be counted from a number as from its position.
LEMMA SeqAtOfSum ==
  ASSUME NEW n \in Int, NEW k \in Int
  PROVE  SeqAt(SeqAt(n) + k) = SeqAt(n + k)
<1>1. PICK s \in SeqNums : s = SeqAt(n)
  BY SeqAtType
<1>2. s \in Int /\ SeqAt(s) = SeqAt(n)
  BY <1>1, SeqAtOfSeq, SeqSpaceAssumption DEF SeqNums
<1>3. SeqAt((n + k) - (n - s)) = SeqAt(n + k)
  BY <1>2, ShiftKeepsSeq
<1>4. (n + k) - (n - s) = s + k
  BY <1>2
<1> QED BY <1>1, <1>3, <1>4

\* What is known of the packets of a cache.
LEMMA CacheFacts ==
  ASSUME NEW first \in SeqNums, NEW sent \in Seq(Packets), Len(sent) <= MaxSent,
         NEW c, IsCache(first, sent, c)
  PROVE  /\ Len(c) \in Nat
         /\ \A i \in 1..Len(c) :
              /\ c[i] \in Packets /\ c[i].seq \in SeqNums
              /\ Place(first, c[i].seq) \in 0..(Len(sent) - 1)
              /\ Place(first, c[i].seq) < MaxSent
              /\ c[i].seq \in SeqsOf(c)
         /\ \A s \in SeqsOf(c) : \E i \in 1..Len(c) : s = c[i].seq
         /\ \A i, j \in 1..Len(c) : c[i].seq = c[j].seq => i = j
         /\ c # <<>> => Last(c) = c[Len(c)] /\ Len(c) >= 1
<1>1. c \in Seq(Packets) /\ Len(c) \in Nat /\ DOMAIN c = 1..Len(c)
  BY DEF IsCache
<1>2. MaxSent \in Nat /\ Len(sent) \in Nat
  BY SessionAssumption
<1>3. \A i \in 1..Len(c) : c[i] \in Packets /\ c[i].seq \in SeqNums
  <2>1. \A p \in Packets : p.seq \in SeqNums
    BY DEF Packets
  <2>2. \A i \in 1..Len(c) : c[i] \in Packets
    BY <1>1, ElementOfSeq
  <2> QED BY <2>1, <2>2
<1>4. \A i \in 1..Len(c) : Place(first, c[i].seq) + 1 \in 1..Len(sent)
  BY DEF IsCache, IsCopy
<1>5. \A i \in 1..Len(c) : Place(first, c[i].seq) \in Int
  BY <1>3, PlaceType, SeqSpaceAssumption
<1>6. \A i, j \in 1..Len(c) : i < j => Place(first, c[i].seq) < Place(first, c[j].seq)
  BY DEF IsCache, InStreamOrder
<1>7. \A i, j \in 1..Len(c) : c[i].seq = c[j].seq => i = j
  <2> TAKE i, j \in 1..Len(c)
  <2> HAVE c[i].seq = c[j].seq
  <2>1. Place(first, c[i].seq) = Place(first, c[j].seq)
    OBVIOUS
  <2>2. ~(i < j) /\ ~(j < i)
    BY <2>1, <1>5, <1>6
  <2> QED BY <1>1, <2>2
<1>8. c # <<>> => Last(c) = c[Len(c)] /\ Len(c) >= 1
  BY <1>1 DEF Last
<1>9. \A i \in 1..Len(c) : Place(first, c[i].seq) \in 0..(Len(sent) - 1)
                           /\ Place(first, c[i].seq) < MaxSent
  BY <1>2, <1>4, <1>5
<1>10. (\A i \in 1..Len(c) : c[i].seq \in SeqsOf(c))
       /\ (\A s \in SeqsOf(c) : \E i \in 1..Len(c) : s = c[i].seq)
  BY <1>1 DEF SeqsOf
<1> QED BY <1>1, <1>3, <1>7, <1>8, <1>9, <1>10
-----------------------------------------------------------------------------
(* Insertion *)

\* The least of a set of numbers.
LEMMA MinFacts ==
  ASSUME NEW S \in SUBSET Nat, S # {}
  PROVE  Min(S) \in S /\ \A k \in S : Min(S) <= k
  BY LeastOf DEF Min

\* Where a packet is inserted.
InsertionPlace(c, p) ==
  LET later == {i \in DOMAIN c : IsSeqBefore(p.seq, c[i].seq)}
  IN  IF later = {} THEN Len(c) + 1 ELSE Min(later)

\* Before that place are the packets that are not later, from it on the later ones.
LEMMA InsertionPlaceFacts ==
  ASSUME NEW first \in SeqNums, NEW sent \in Seq(Packets), Len(sent) <= MaxSent,
         NEW c, IsCache(first, sent, c), NEW p, IsCopy(first, sent, p)
  PROVE  LET pos == InsertionPlace(c, p)
         IN  /\ pos \in 1..(Len(c) + 1)
             /\ \A i \in 1..(pos - 1) : Place(first, c[i].seq) <= Place(first, p.seq)
             /\ \A i \in pos..Len(c) : Place(first, p.seq) < Place(first, c[i].seq)
<1> DEFINE later == {i \in DOMAIN c : IsSeqBefore(p.seq, c[i].seq)}
           pos == InsertionPlace(c, p)
<1>1. /\ Len(c) \in Nat /\ DOMAIN c = 1..Len(c)
      /\ \A i \in 1..Len(c) : /\ c[i].seq \in SeqNums
                              /\ Place(first, c[i].seq) \in Int
                              /\ Place(first, c[i].seq) < MaxSent
  <2>1. Len(sent) \in Nat
    OBVIOUS
  <2> QED BY <2>1, CacheFacts DEF IsCache
<1>2. p.seq \in SeqNums /\ Place(first, p.seq) \in Int /\ Place(first, p.seq) < MaxSent
  <2>1. p.seq \in SeqNums /\ Place(first, p.seq) + 1 \in 1..Len(sent)
    BY DEF IsCopy, Packets
  <2>2. Place(first, p.seq) \in 0..(SeqSpace - 1) /\ Len(sent) \in Nat
    BY <2>1, PlaceType
  <2> QED BY <2>1, <2>2, SeqSpaceAssumption, SessionAssumption
<1>3. later = {i \in 1..Len(c) : Place(first, p.seq) < Place(first, c[i].seq)}
  <2>1. \A i \in 1..Len(c) :
          IsSeqBefore(p.seq, c[i].seq) <=> Place(first, p.seq) < Place(first, c[i].seq)
    BY <1>1, <1>2, PlaceOrder
  <2> QED BY <1>1, <2>1
<1>4. pos = IF later = {} THEN Len(c) + 1 ELSE Min(later)
  BY DEF InsertionPlace
<1> HIDE DEF later, pos
<1>5. CASE later = {}
  <2>1. pos = Len(c) + 1 /\ pos \in 1..(Len(c) + 1) /\ pos..Len(c) = {}
    BY <1>1, <1>4, <1>5
  <2>2. \A i \in 1..(pos - 1) : Place(first, c[i].seq) <= Place(first, p.seq)
    <3> TAKE i \in 1..(pos - 1)
    <3>1. i \in 1..Len(c) /\ i \notin later
      BY <1>1, <1>5, <2>1
    <3>2. ~(Place(first, p.seq) < Place(first, c[i].seq))
      BY <1>3, <3>1
    <3> QED BY <1>1, <1>2, <3>1, <3>2
  <2> QED BY <2>1, <2>2 DEF pos
<1>6. CASE later # {}
  <2>1. later \in SUBSET Nat /\ later \subseteq 1..Len(c)
    BY <1>1, <1>3
  <2>2. pos \in later /\ \A i \in later : pos <= i
    BY <1>4, <1>6, <2>1, MinFacts
  <2>3. pos \in 1..Len(c) /\ Place(first, p.seq) < Place(first, c[pos].seq)
    BY <1>3, <2>2
  <2>4. \A i \in 1..(pos - 1) : Place(first, c[i].seq) <= Place(first, p.seq)
    <3> TAKE i \in 1..(pos - 1)
    <3>1. i \in 1..Len(c) /\ i \notin later
      BY <1>1, <2>2, <2>3
    <3> QED BY <1>1, <1>2, <1>3, <3>1
  <2>5. \A i \in pos..Len(c) : Place(first, p.seq) < Place(first, c[i].seq)
    <3> TAKE i \in pos..Len(c)
    <3>1. i \in 1..Len(c) /\ (i = pos \/ pos < i)
      BY <1>1, <2>3
    <3>2. pos < i => Place(first, c[pos].seq) < Place(first, c[i].seq)
      BY <2>3, <3>1 DEF IsCache, InStreamOrder
    <3> QED BY <1>1, <1>2, <2>3, <3>1, <3>2
  <2> QED BY <1>1, <2>3, <2>4, <2>5 DEF pos
<1> QED BY <1>5, <1>6

\* r is the cache c with the packet p in it.
HoldsToo(first, sent, c, p, r) ==
  /\ IsCache(first, sent, r)
  /\ SeqsOf(r) = SeqsOf(c) \cup {p.seq}
  /\ \A i \in 1..Len(r) : r[i] = p \/ \E j \in 1..Len(c) : r[i] = c[j]
  /\ c # <<>> /\ Place(first, p.seq) <= Place(first, c[Len(c)].seq)
       => r # <<>> /\ r[Len(r)].seq = c[Len(c)].seq

\* A packet is inserted unless one with its number is there, and nothing else changes.
LEMMA InsertedFacts ==
  ASSUME NEW first \in SeqNums, NEW sent \in Seq(Packets), Len(sent) <= MaxSent,
         NEW c, IsCache(first, sent, c), NEW p, IsCopy(first, sent, p)
  PROVE  HoldsToo(first, sent, c, p, Inserted(c, p))
<1> DEFINE pos == InsertionPlace(c, p)
           r == Inserted(c, p)
<1>1. /\ Len(c) \in Nat /\ c \in Seq(Packets) /\ DOMAIN c = 1..Len(c)
      /\ p \in Packets /\ p.seq \in SeqNums /\ Place(first, p.seq) \in Int
      /\ \A i \in 1..Len(c) : c[i].seq \in SeqNums /\ Place(first, c[i].seq) \in Int
      /\ c # <<>> => Len(c) >= 1
      /\ SeqsOf(c) = {c[i].seq : i \in 1..Len(c)}
  <2>1. Len(sent) \in Nat
    OBVIOUS
  <2>2. p \in Packets /\ p.seq \in SeqNums
    BY DEF IsCopy, Packets
  <2>3. Place(first, p.seq) \in Int
    BY <2>2, PlaceType, SeqSpaceAssumption
  <2>4. c \in Seq(Packets) /\ DOMAIN c = 1..Len(c)
    BY DEF IsCache
  <2>5. \A i \in 1..Len(c) : c[i].seq \in SeqNums /\ Place(first, c[i].seq) \in Int
    BY <2>1, CacheFacts
  <2>6. Len(c) \in Nat /\ (c # <<>> => Len(c) >= 1)
    BY <2>4
  <2> QED BY <2>2, <2>3, <2>4, <2>5, <2>6 DEF SeqsOf
<1>2. /\ pos \in 1..(Len(c) + 1)
      /\ \A i \in 1..(pos - 1) : Place(first, c[i].seq) <= Place(first, p.seq)
      /\ \A i \in pos..Len(c) : Place(first, p.seq) < Place(first, c[i].seq)
  BY InsertionPlaceFacts
<1>3. r = IF \E i \in 1..Len(c) : i < pos /\ c[i].seq = p.seq THEN c ELSE InsertAt(c, pos, p)
  BY DEF Inserted, InsertionPlace
<1> HIDE DEF r, pos
<1>4. CASE \E i \in 1..Len(c) : i < pos /\ c[i].seq = p.seq
  <2>1. r = c /\ p.seq \in SeqsOf(c)
    BY <1>1, <1>3, <1>4
  <2>2. IsCache(first, sent, r) /\ SeqsOf(r) = SeqsOf(c) \cup {p.seq}
    BY <2>1
  <2>3. HoldsToo(first, sent, c, p, r)
    BY <1>1, <2>1, <2>2 DEF HoldsToo
  <2> QED BY <2>3 DEF r
<1>5. CASE ~\E i \in 1..Len(c) : i < pos /\ c[i].seq = p.seq
  <2>1. /\ r \in Seq(Packets) /\ Len(r) = Len(c) + 1
        /\ \A i \in 1..(pos - 1) : r[i] = c[i]
        /\ r[pos] = p
        /\ \A i \in pos..Len(c) : r[i + 1] = c[i]
    <3>1. r = SubSeq(c, 1, pos - 1) \o <<p>> \o SubSeq(c, pos, Len(c))
      BY <1>3, <1>5 DEF InsertAt
    <3>2. IsInsertion(r, Packets, c, p, pos)
      BY <1>1, <1>2, <3>1, InsertionFacts
    <3> QED BY <3>2 DEF IsInsertion
  <2>2. \A i \in (pos + 1)..Len(r) : r[i] = c[i - 1] /\ i - 1 \in pos..Len(c)
    <3> TAKE i \in (pos + 1)..Len(r)
    <3>1. PICK k \in pos..Len(c) : i = k + 1
      BY <1>1, <1>2, <2>1
    <3> QED BY <1>1, <1>2, <2>1, <3>1
  <2>3. \A i \in 1..(pos - 1) : Place(first, c[i].seq) < Place(first, p.seq)
    <3> TAKE i \in 1..(pos - 1)
    <3>1. i \in 1..Len(c) /\ c[i].seq # p.seq
      BY <1>1, <1>2, <1>5
    <3>2. Place(first, c[i].seq) # Place(first, p.seq)
      BY <1>1, <3>1, PlaceType
    <3> QED BY <1>1, <1>2, <3>1, <3>2
  <2>4. \A i \in 1..Len(r) : \/ i \in 1..(pos - 1) /\ i \in 1..Len(c) /\ r[i] = c[i]
                             \/ i = pos /\ r[i] = p
                             \/ /\ i \in (pos + 1)..Len(r) /\ r[i] = c[i - 1]
                                /\ i - 1 \in pos..Len(c) /\ i - 1 \in 1..Len(c)
    BY <1>1, <1>2, <2>1, <2>2
  <2>5. \A i \in 1..Len(r) : IsCopy(first, sent, r[i])
    BY <2>4 DEF IsCache
  <2>6. InStreamOrder(first, r)
    <3> SUFFICES ASSUME NEW i \in 1..Len(r), NEW j \in 1..Len(r), i < j
                 PROVE  Place(first, r[i].seq) < Place(first, r[j].seq)
      BY DEF InStreamOrder
    <3>1. \A k, l \in 1..Len(c) : k < l => Place(first, c[k].seq) < Place(first, c[l].seq)
      BY DEF IsCache, InStreamOrder
    <3>2. CASE j \in 1..(pos - 1)
      <4>1. i \in 1..(pos - 1) /\ r[i] = c[i] /\ r[j] = c[j] /\ i \in 1..Len(c) /\ j \in 1..Len(c)
        BY <1>1, <1>2, <2>1, <3>2
      <4> QED BY <3>1, <4>1
    <3>3. CASE j = pos
      <4>1. i \in 1..(pos - 1) /\ r[i] = c[i] /\ r[j] = p
        BY <1>1, <1>2, <2>1, <3>3
      <4> QED BY <2>3, <4>1
    <3>4. CASE j \in (pos + 1)..Len(r)
      <4>1. r[j] = c[j - 1] /\ j - 1 \in pos..Len(c) /\ j - 1 \in 1..Len(c)
        BY <1>1, <1>2, <2>2, <3>4
      <4>2. CASE i \in 1..(pos - 1)
        <5>1. r[i] = c[i] /\ i \in 1..Len(c) /\ i < j - 1
          BY <1>1, <1>2, <2>1, <4>1, <4>2
        <5> QED BY <3>1, <4>1, <5>1
      <4>3. CASE i = pos
        BY <1>2, <2>1, <4>1, <4>3
      <4>4. CASE i \in (pos + 1)..Len(r)
        <5>1. r[i] = c[i - 1] /\ i - 1 \in 1..Len(c) /\ i - 1 < j - 1
          BY <1>1, <1>2, <2>2, <4>4, <4>1
        <5> QED BY <3>1, <4>1, <5>1
      <4> QED BY <2>4, <4>2, <4>3, <4>4
    <3> QED BY <2>4, <3>2, <3>3, <3>4
  <2>7. SeqsOf(r) = SeqsOf(c) \cup {p.seq}
    <3>1. SeqsOf(r) = {r[i].seq : i \in 1..Len(r)}
      BY <2>1 DEF SeqsOf
    <3>2. \A i \in 1..Len(c) : \E k \in 1..Len(r) : r[k] = c[i]
      <4> TAKE i \in 1..Len(c)
      <4>1. CASE i \in 1..(pos - 1)
        BY <1>1, <1>2, <2>1, <4>1
      <4>2. CASE i \in pos..Len(c)
        <5>1. r[i + 1] = c[i] /\ i + 1 \in 1..Len(r)
          BY <1>1, <1>2, <2>1, <4>2
        <5> QED BY <5>1
      <4> QED BY <1>1, <1>2, <4>1, <4>2
    <3>3. pos \in 1..Len(r) /\ r[pos] = p
      BY <1>1, <1>2, <2>1
    <3>4. \A x \in SeqsOf(r) : x \in SeqsOf(c) \cup {p.seq}
      BY <1>1, <2>4, <3>1
    <3>5. \A x \in SeqsOf(c) : x \in SeqsOf(r)
      BY <1>1, <3>1, <3>2
    <3> QED BY <3>1, <3>3, <3>4, <3>5
  <2>8. ASSUME c # <<>>, Place(first, p.seq) <= Place(first, c[Len(c)].seq)
        PROVE  r # <<>> /\ r[Len(r)].seq = c[Len(c)].seq
    <3>1. Len(c) \in 1..Len(c)
      BY <1>1, <2>8
    <3>2. pos \in 1..Len(c)
      <4>1. CASE pos = Len(c) + 1
        <5>1. Len(c) \in 1..(pos - 1)
          BY <1>1, <3>1, <4>1
        <5> QED BY <1>1, <2>3, <2>8, <3>1, <5>1
      <4> QED BY <1>1, <1>2, <4>1
    <3>3. Len(c) \in pos..Len(c) /\ r[Len(r)] = c[Len(c)]
      BY <1>1, <2>1, <3>2
    <3> QED BY <1>1, <2>1, <3>3
  <2>9. IsCache(first, sent, r)
    BY <2>1, <2>5, <2>6 DEF IsCache
  <2>10. \A i \in 1..Len(r) : r[i] = p \/ \E j \in 1..Len(c) : r[i] = c[j]
    BY <2>4
  <2>11. HoldsToo(first, sent, c, p, r)
    BY <2>7, <2>8, <2>9, <2>10 DEF HoldsToo
  <2> QED BY <2>11 DEF r
<1> QED BY <1>4, <1>5
-----------------------------------------------------------------------------
(* Recovery *)

\* All the packets that fec protects are in the cache but for the one with the
\* number lost; sources says where.
HasAllBut(first, sent, c, fec, lost, sources) ==
  /\ IsCache(first, sent, c) /\ IsCopy(first, sent, fec) /\ fec.fec
  /\ lost \in fec.protected
  /\ \A s \in fec.protected : s = lost \/ s \in SeqsOf(c)
  /\ sources \subseteq 1..Len(c)
  /\ \A i \in 1..Len(c) : i \in sources <=> c[i].seq \in fec.protected /\ c[i].seq # lost

\* The exclusive or of a FEC payload with all but one of the packets it protects
\* is the payload of the one that is missing.
LEMMA XorRecovers ==
  ASSUME NEW first \in SeqNums, NEW sent \in Seq(Packets), Len(sent) <= MaxSent,
         NEW c, NEW fec, NEW lost, NEW sources, HasAllBut(first, sent, c, fec, lost, sources)
  PROVE  Xor(fec.payload, c, sources) = {lost}
<1>0. /\ IsCache(first, sent, c) /\ IsCopy(first, sent, fec) /\ fec.fec
      /\ lost \in fec.protected
      /\ \A s \in fec.protected : s = lost \/ s \in SeqsOf(c)
      /\ sources \subseteq 1..Len(c)
      /\ \A i \in 1..Len(c) : i \in sources <=> c[i].seq \in fec.protected /\ c[i].seq # lost
  BY DEF HasAllBut
<1> DEFINE with(x) == {i \in sources : x \in c[i].payload}
<1>1. /\ Len(c) \in Nat /\ DOMAIN c = 1..Len(c)
      /\ \A i, j \in 1..Len(c) : c[i].seq = c[j].seq => i = j
      /\ \A s \in SeqsOf(c) : \E i \in 1..Len(c) : s = c[i].seq
  BY <1>0, CacheFacts DEF IsCache
<1>2. ASSUME NEW i \in sources
      PROVE  /\ i \in 1..Len(c) /\ c[i].payload = {c[i].seq}
             /\ c[i].seq \in fec.protected /\ c[i].seq # lost
  <2>1. i \in 1..Len(c) /\ c[i].seq \in fec.protected /\ c[i].seq # lost
    BY <1>0
  <2>2. IsMedia(first, sent, c[i].seq) /\ IsCopy(first, sent, c[i])
    BY <1>0, <2>1 DEF IsCopy, IsCache
  <2>3. ~c[i].fec
    BY <2>2 DEF IsMedia, IsCopy
  <2> QED BY <2>1, <2>2, <2>3 DEF IsCopy
<1>3. fec.payload = fec.protected
  BY <1>0 DEF IsCopy
<1>4. ASSUME NEW x \in fec.protected, x # lost
      PROVE  Cardinality(with(x)) = 1
  <2>1. x \in SeqsOf(c)
    BY <1>0, <1>4
  <2>2. PICK i \in 1..Len(c) : x = c[i].seq
    BY <1>1, <2>1
  <2>3. i \in sources
    BY <1>0, <1>4, <2>2
  <2>4. with(x) = {i}
    <3>1. i \in with(x)
      BY <1>2, <2>2, <2>3
    <3>2. \A j \in with(x) : j = i
      BY <1>1, <1>2, <2>2
    <3> QED BY <3>1, <3>2
  <2> QED BY <2>4, FS_Singleton
<1>5. Cardinality(with(lost)) = 0
  <2>1. with(lost) = {}
    BY <1>2
  <2> QED BY <2>1, FS_EmptySet
<1>6. fec.payload \cup UNION {c[i].payload : i \in sources} = fec.protected
  <2>1. \A x \in UNION {c[i].payload : i \in sources} : x \in fec.protected
    BY <1>2
  <2> QED BY <1>3, <2>1
<1>7. Xor(fec.payload, c, sources)
        = {x \in fec.protected :
             (Cardinality(with(x)) + (IF x \in fec.protected THEN 1 ELSE 0)) % 2 = 1}
  BY <1>3, <1>6 DEF Xor
<1> HIDE DEF with
<1>8. \A x \in fec.protected :
        (Cardinality(with(x)) + (IF x \in fec.protected THEN 1 ELSE 0)) % 2 = 1 <=> x = lost
  <2> TAKE x \in fec.protected
  <2>1. CASE x = lost
    <3>1. Cardinality(with(x)) + (IF x \in fec.protected THEN 1 ELSE 0) = 1
      BY <1>5, <2>1
    <3>2. 1 % 2 = 1
      OBVIOUS
    <3> QED BY <2>1, <3>1, <3>2
  <2>2. CASE x # lost
    <3>1. Cardinality(with(x)) + (IF x \in fec.protected THEN 1 ELSE 0) = 2
      BY <1>4, <2>2
    <3>2. 2 % 2 = 0
      OBVIOUS
    <3> QED BY <2>2, <3>1, <3>2
  <2> QED BY <2>1, <2>2
<1> QED BY <1>0, <1>7, <1>8

\* The marks of the decoder leave a packet the copy it is.
LEMMA MarkedIsCopy ==
  ASSUME NEW first, NEW sent, NEW p, IsCopy(first, sent, p),
         NEW q \in Packets, q.seq = p.seq, q.fec = p.fec, q.payload = p.payload,
         q.protected = p.protected, q.received \subseteq p.protected
  PROVE  IsCopy(first, sent, q)
  BY DEF IsCopy

\* A packet of a cache is replaced by its marked copy.
LEMMA ReplacedFacts ==
  ASSUME NEW first \in SeqNums, NEW sent \in Seq(Packets), Len(sent) <= MaxSent,
         NEW c, IsCache(first, sent, c), NEW p, NEW q, IsCopy(first, sent, q), q.seq = p.seq,
         NEW m, m = [i \in DOMAIN c |-> IF c[i] = p THEN q ELSE c[i]]
  PROVE  /\ IsCache(first, sent, m) /\ Len(m) = Len(c) /\ SeqsOf(m) = SeqsOf(c)
         /\ \A i \in 1..Len(c) : m[i].seq = c[i].seq /\ (m[i] = q \/ m[i] = c[i])
<1>1. Len(c) \in Nat /\ DOMAIN c = 1..Len(c) /\ c \in [1..Len(c) -> Packets] /\ q \in Packets
  BY DEF IsCache, IsCopy
<1>2. m \in [1..Len(c) -> Packets]
  BY <1>1
<1>3. m \in Seq(Packets) /\ Len(m) = Len(c) /\ DOMAIN m = 1..Len(c)
  BY <1>1, <1>2
<1>4. \A i \in 1..Len(c) : m[i].seq = c[i].seq /\ (m[i] = q \/ m[i] = c[i])
  BY <1>1
<1>5. IsCache(first, sent, m)
  <2>1. \A i \in 1..Len(m) : IsCopy(first, sent, m[i])
    BY <1>3, <1>4 DEF IsCache
  <2>2. InStreamOrder(first, m)
    BY <1>3, <1>4 DEF IsCache, InStreamOrder
  <2> QED BY <1>3, <2>1, <2>2 DEF IsCache
<1>6. SeqsOf(m) = SeqsOf(c)
  BY <1>1, <1>3, <1>4 DEF SeqsOf
<1> QED BY <1>3, <1>4, <1>5, <1>6

\* What a step of the recovery may do to the cache c.
RecoversTo(c, r) ==
  /\ IsCache(first_seq, stream, r) /\ FoundOrGiven(r)
  /\ r # <<>> /\ r[Len(r)].seq = c[Len(c)].seq
  /\ SeqsOf(c) \subseteq SeqsOf(r)
  /\ \A s \in SeqsOf(r) : s \in SeqsOf(c) \/ ~AlreadyOutput(s)

\* The look at one FEC packet keeps the cache and adds at most the packet that
\* is missing, as it was sent.
LEMMA RecoverOneFacts ==
  ASSUME first_seq \in SeqNums, stream \in Seq(Packets), Len(stream) <= MaxSent,
         NEW c, IsCache(first_seq, stream, c), FoundOrGiven(c), c # <<>>,
         NEW fec, IsCopy(first_seq, stream, fec), fec.fec,
         \A s \in fec.received : s \in SeqsOf(c) \/ AlreadyOutput(s)
  PROVE  RecoversTo(c, RecoverOne(c, fec))
<1> DEFINE last_seq == Last(c).seq
           ends == {s \in fec.protected : AlreadyOutput(s) \/ IsSeqAfter(last_seq, s)}
           scanned == {s \in fec.protected : \A e \in ends : s < e}
           found == fec.received \cup (scanned \cap SeqsOf(c))
           no_received == scanned \ found
           lost == CHOOSE s \in no_received : TRUE
           sources == {i \in DOMAIN c : c[i].seq \in found}
           recovers == ends = {} /\ Cardinality(no_received) = 1 /\ MayRecover(lost, last_seq)
           mark == recovers \/ (ends # {} /\ AlreadyOutput(Min(ends)))
           used == [fec EXCEPT !.received = found, !.invalid = mark]
           marked == [i \in DOMAIN c |-> IF c[i] = fec THEN used ELSE c[i]]
           again == [seq |-> lost, fec |-> FALSE, payload |-> Xor(fec.payload, c, sources),
                     protected |-> {}, received |-> {}, invalid |-> FALSE]
           r == RecoverOne(c, fec)
<1>1. r = IF recovers THEN Inserted(marked, again) ELSE marked
  BY DEF RecoverOne
<1>2. found \in SUBSET fec.protected /\ \A s \in found : s \in SeqsOf(c) \/ AlreadyOutput(s)
  BY DEF IsCopy
<1>3. mark \in BOOLEAN
  OBVIOUS
<1>4. /\ \A s \in ends : AlreadyOutput(s) \/ IsSeqAfter(last_seq, s)
      /\ \A s \in fec.protected : AlreadyOutput(s) \/ IsSeqAfter(last_seq, s) => s \in ends
      /\ ends = {} => scanned = fec.protected
      /\ last_seq = c[Len(c)].seq
  BY DEF Last
<1> HIDE DEF mark, found
<1>5. IsCopy(first_seq, stream, used) /\ used.seq = fec.seq /\ used.received = found
  <2>1. fec \in Packets /\ fec.protected \subseteq SeqNums
    BY DEF IsCopy, Packets
  <2>2. used \in Packets
    BY <1>2, <1>3, <2>1 DEF Packets
  <2>3. /\ used.seq = fec.seq /\ used.fec = fec.fec /\ used.payload = fec.payload
        /\ used.protected = fec.protected /\ used.received = found
    BY <2>1 DEF Packets
  <2> HIDE DEF used, marked, again, r
  <2> QED BY <1>2, <2>2, <2>3, MarkedIsCopy
<1> USE DEF found
<1> HIDE DEF used
<1>6. /\ IsCache(first_seq, stream, marked) /\ Len(marked) = Len(c)
      /\ SeqsOf(marked) = SeqsOf(c)
      /\ \A i \in 1..Len(c) : marked[i].seq = c[i].seq /\ (marked[i] = used \/ marked[i] = c[i])
  BY <1>5, ReplacedFacts
<1> HIDE DEF marked
<1>7. FoundOrGiven(marked)
  BY <1>2, <1>5, <1>6 DEF FoundOrGiven
<1>8. Len(c) \in Nat /\ Len(c) \in 1..Len(c) /\ c[Len(c)].seq \in SeqNums
      /\ Place(first_seq, c[Len(c)].seq) < MaxSent
  <2>1. Len(c) \in Nat /\ Len(c) >= 1
    BY CacheFacts
  <2> QED BY <2>1, CacheFacts
<1>9. marked # <<>> /\ marked[Len(marked)].seq = c[Len(c)].seq
  <2>1. Len(marked) >= 1
    BY <1>6, <1>8
  <2> QED BY <1>6, <1>8, <2>1
<1>10. CASE ~recovers
  <2>1. r = marked
    BY <1>1, <1>10
  <2> HIDE DEF r
  <2>2. RecoversTo(c, r)
    BY <1>6, <1>7, <1>9, <2>1 DEF RecoversTo
  <2> QED BY <2>2 DEF r
<1>11. CASE recovers
  <2>1. scanned = fec.protected /\ \A s \in fec.protected : ~AlreadyOutput(s) /\ ~IsSeqAfter(last_seq, s)
    BY <1>4, <1>11
  <2>2. IsFiniteSet(no_received) /\ Cardinality(no_received) = 1
    <3>1. no_received \subseteq SeqNums
      BY DEF IsCopy, Packets
    <3>2. IsFiniteSet(SeqNums)
      BY FS_Interval, SeqSpaceAssumption DEF SeqNums
    <3> QED BY <1>11, <3>1, <3>2, FS_Subset
  <2>3. no_received = {lost}
    <3>1. PICK x : no_received = {x}
      BY <2>2, FS_Singleton
    <3> QED BY <3>1
  <2>4. lost \in fec.protected /\ found = fec.protected \ {lost} /\ found \subseteq SeqsOf(c)
    BY <1>2, <2>1, <2>3
  <2> HIDE DEF lost, found, no_received, recovers
  <2>5. Xor(fec.payload, c, sources) = {lost}
    <3>1. DOMAIN c = 1..Len(c)
      BY DEF IsCache
    <3>2. HasAllBut(first_seq, stream, c, fec, lost, sources)
      BY <2>4, <3>1 DEF HasAllBut
    <3> HIDE DEF sources, again, r, ends, scanned, last_seq
    <3>3. \A f, t : f = first_seq /\ t = stream => Xor(fec.payload, c, sources) = {lost}
      <4> TAKE f, t
      <4> HAVE f = first_seq /\ t = stream
      <4>1. f \in SeqNums /\ t \in Seq(Packets) /\ Len(t) <= MaxSent
            /\ HasAllBut(f, t, c, fec, lost, sources)
        BY <3>2
      <4> QED BY <4>1, XorRecovers, SMTT(40)
    <3> QED BY <3>3
  <2>6. ~AlreadyOutput(lost) /\ ~IsSeqAfter(c[Len(c)].seq, lost)
    BY <1>4, <2>1, <2>4
  <2>7. lost \in SeqNums /\ IsMedia(first_seq, stream, lost)
    BY <2>4 DEF IsCopy, Packets
  <2>8. IsCopy(first_seq, stream, again) /\ again.seq = lost /\ again.received = {}
    <3>1. again = [seq |-> lost, fec |-> FALSE, payload |-> {lost},
                   protected |-> {}, received |-> {}, invalid |-> FALSE]
      BY <2>5
    <3> HIDE DEF again
    <3>2. again \in Packets
      BY <2>7, <3>1 DEF Packets
    <3>3. \A s \in SeqNums : IsMedia(first_seq, stream, s) =>
            stream[Place(first_seq, s) + 1].fec = FALSE
      <4> TAKE s \in SeqNums
      <4> HAVE IsMedia(first_seq, stream, s)
      <4>1. stream[Place(first_seq, s) + 1] \in Packets
        BY ElementOfSeq DEF IsMedia
      <4> QED BY <4>1 DEF IsMedia, Packets
    <3> QED BY <2>7, <3>1, <3>2, <3>3 DEF IsCopy, IsMedia
  <2>9. Place(first_seq, lost) <= Place(first_seq, c[Len(c)].seq)
    <3>1. Place(first_seq, lost) + 1 \in 1..Len(stream) /\ Len(stream) \in Nat
      BY <2>7 DEF IsMedia
    <3>2. Place(first_seq, lost) \in 0..(SeqSpace - 1)
          /\ Place(first_seq, c[Len(c)].seq) \in 0..(SeqSpace - 1)
      BY <1>8, <2>7, PlaceType
    <3>3. Place(first_seq, lost) < MaxSent
      BY <3>1, <3>2, SessionAssumption, SeqSpaceAssumption
    <3>4. ~(Place(first_seq, c[Len(c)].seq) < Place(first_seq, lost))
      BY <1>8, <2>6, <2>7, <3>3, PlaceOrder
    <3> QED BY <3>2, <3>4, SeqSpaceAssumption
  <2> HIDE DEF again
  <2>10. r = Inserted(marked, again)
    BY <1>1, <1>11
  <2> HIDE DEF r
  <2>11. /\ IsCache(first_seq, stream, r)
         /\ SeqsOf(r) = SeqsOf(marked) \cup {again.seq}
         /\ \A i \in 1..Len(r) : r[i] = again \/ \E j \in 1..Len(marked) : r[i] = marked[j]
         /\ marked # <<>> /\ Place(first_seq, again.seq) <= Place(first_seq, marked[Len(marked)].seq)
              => r # <<>> /\ r[Len(r)].seq = marked[Len(marked)].seq
    <3>1. HoldsToo(first_seq, stream, marked, again, r)
      BY <1>6, <2>8, <2>10, InsertedFacts
    <3> QED BY <3>1 DEF HoldsToo
  <2>12. FoundOrGiven(r)
    BY <1>7, <2>8, <2>11 DEF FoundOrGiven
  <2>13. r # <<>> /\ r[Len(r)].seq = c[Len(c)].seq
    BY <1>9, <2>8, <2>9, <2>11
  <2>14. RecoversTo(c, r)
    BY <1>6, <2>6, <2>8, <2>11, <2>12, <2>13 DEF RecoversTo
  <2> QED BY <2>14 DEF r
<1> QED BY <1>10, <1>11

\* The look at all the FEC packets does what its steps do.
LEMMA RcoverPacketsFacts ==
  ASSUME first_seq \in SeqNums, stream \in Seq(Packets), Len(stream) <= MaxSent,
         NEW c, IsCache(first_seq, stream, c), FoundOrGiven(c), c # <<>>
  PROVE  RecoversTo(c, RcoverPackets(c))
<1> DEFINE len == Len(c)
           A == {x \in Seq(Packets) : RecoversTo(c, x)}
           looked == CHOOSE f : f = [k \in 0..len |->
                       IF k = 0 THEN c
                       ELSE IF c[k].fec /\ ~c[k].invalid THEN RecoverOne(f[k - 1], c[k])
                       ELSE f[k - 1]]
           step == [k \in 1..len |-> [x \in A |->
                       IF c[k].fec /\ ~c[k].invalid THEN RecoverOne(x, c[k]) ELSE x]]
           P == {k \in 0..len : looked[k] \in A}
<1>1. len \in Nat /\ c \in Seq(Packets)
  BY DEF IsCache
<1>2. c \in A
  BY <1>1 DEF RecoversTo
<1>3. ASSUME NEW k \in 1..len, c[k].fec, NEW x \in A
      PROVE  RecoverOne(x, c[k]) \in A
  <2> DEFINE r == RecoverOne(x, c[k])
  <2>1. RecoversTo(c, x)
    OBVIOUS
  <2>2. /\ IsCache(first_seq, stream, x) /\ FoundOrGiven(x) /\ x # <<>>
        /\ x[Len(x)].seq = c[len].seq /\ SeqsOf(c) \subseteq SeqsOf(x)
        /\ \A s \in SeqsOf(x) : s \in SeqsOf(c) \/ ~AlreadyOutput(s)
    BY <2>1 DEF RecoversTo
  <2>3. IsCopy(first_seq, stream, c[k])
    BY DEF IsCache
  <2>4. \A s \in c[k].received : s \in SeqsOf(x) \/ AlreadyOutput(s)
    BY <2>2 DEF FoundOrGiven
  <2>5. RecoversTo(x, r)
    BY <1>3, <2>2, <2>3, <2>4, RecoverOneFacts
  <2> HIDE DEF r
  <2>6. RecoversTo(c, r) /\ r \in Seq(Packets)
    BY <2>2, <2>5 DEF RecoversTo, IsCache
  <2> QED BY <2>6 DEF r
<1>4. step \in [1..len -> [A -> A]]
  <2> HIDE DEF A, len
  <2> QED BY <1>3
<1>5. PICK f \in [0..len -> A] : IsIteration(f, len, c, step)
  <2> HIDE DEF step, len, A
  <2> QED BY <1>1, <1>2, <1>4, IterationExists
<1>6. f = [k \in 0..len |-> IF k = 0 THEN c
                            ELSE IF c[k].fec /\ ~c[k].invalid THEN RecoverOne(f[k - 1], c[k])
                            ELSE f[k - 1]]
  <2>1. \A k \in 1..len : f[k - 1] \in A
    <3> HIDE DEF len, step, A
    <3>1. \A k \in 1..len : k - 1 \in 0..len
      BY <1>1
    <3> QED BY <3>1, <1>5
  <2> HIDE DEF A
  <2>2. \A k \in 1..len : step[k][f[k - 1]]
          = IF c[k].fec /\ ~c[k].invalid THEN RecoverOne(f[k - 1], c[k]) ELSE f[k - 1]
    BY <2>1
  <2> HIDE DEF step, len
  <2>3. f = [k \in 0..len |-> IF k = 0 THEN c ELSE step[k][f[k - 1]]]
    BY <1>5 DEF IsIteration
  <2>4. \A k \in 0..len : (IF k = 0 THEN c ELSE step[k][f[k - 1]])
          = IF k = 0 THEN c
            ELSE IF c[k].fec /\ ~c[k].invalid THEN RecoverOne(f[k - 1], c[k]) ELSE f[k - 1]
    BY <1>1, <2>2
  <2> QED BY <2>3, <2>4
<1>7. looked = [k \in 0..len |-> IF k = 0 THEN c
                 ELSE IF c[k].fec /\ ~c[k].invalid THEN RecoverOne(looked[k - 1], c[k])
                 ELSE looked[k - 1]]
  <2> HIDE DEF len
  <2> QED BY <1>6
<1>8. RcoverPackets(c) = looked[len]
  BY DEF RcoverPackets
<1> HIDE DEF looked, step, len, A
<1>9. 0 \in P
  BY <1>1, <1>2, <1>7
<1>10. ASSUME NEW k \in 0..(len - 1), k \in P
       PROVE  k + 1 \in P
  <2>1. k + 1 \in 1..len /\ (k + 1) - 1 = k /\ k + 1 # 0 /\ k + 1 \in 0..len
    BY <1>1
  <2>2. looked[k + 1] = IF c[k + 1].fec /\ ~c[k + 1].invalid
                        THEN RecoverOne(looked[k], c[k + 1]) ELSE looked[k]
    BY <1>7, <2>1
  <2>3. looked[k] \in A
    BY <1>10
  <2>4. looked[k + 1] \in A
    BY <1>3, <2>1, <2>2, <2>3
  <2> QED BY <2>1, <2>4
<1> HIDE DEF P
<1>11. \A k \in 0..(len - 1) : k \in P => k + 1 \in P
  BY <1>10
<1>12. len \in P
  <2>1. len \in 0..len
    BY <1>1
  <2> QED BY <2>1, <1>1, <1>9, <1>11, InductionUpTo
<1> QED BY <1>8, <1>12 DEF P, A
-----------------------------------------------------------------------------
(* Arrival *)

\* A batch of packets that were not delivered before.
IsBatch(batch) ==
  /\ batch \in Seq(Packets)
  /\ \A k \in 1..Len(batch) :
       IsCopy(first_seq, stream, batch[k]) /\ passed <= Place(first_seq, batch[k].seq)

\* A packet that was not delivered before comes after all that was output.
LEMMA BatchIsNew ==
  ASSUME StreamOK, GivenInv, NEW p, IsCopy(first_seq, stream, p),
         passed <= Place(first_seq, p.seq)
  PROVE  ~AlreadyOutput(p.seq) /\ ~(has_output /\ IsSeqBefore(p.seq, seq_last_output))
<1>1. /\ first_seq \in SeqNums /\ Len(stream) <= MaxSent
      /\ Len(stream) \in Nat /\ passed \in 0..Len(stream)
  BY DEF StreamOK
<1>2. p.seq \in SeqNums /\ Place(first_seq, p.seq) + 1 \in 1..Len(stream)
  BY DEF IsCopy, Packets
<1>3. Place(first_seq, p.seq) \in 0..(SeqSpace - 1)
  BY <1>1, <1>2, PlaceType
<1>4. CASE has_output
  <2>1. seq_last_output \in SeqNums /\ Place(first_seq, seq_last_output) < passed
    BY <1>4 DEF GivenInv
  <2>2. Place(first_seq, seq_last_output) \in 0..(SeqSpace - 1)
    BY <1>1, <2>1, PlaceType
  <2>3. /\ Place(first_seq, seq_last_output) < Place(first_seq, p.seq)
        /\ Place(first_seq, seq_last_output) < MaxSent
        /\ Place(first_seq, p.seq) < MaxSent
    BY <1>1, <1>2, <1>3, <2>1, <2>2, SeqSpaceAssumption, SessionAssumption
  <2>4. ~(Place(first_seq, p.seq) < Place(first_seq, seq_last_output))
    BY <1>3, <2>2, <2>3, SeqSpaceAssumption
  <2> QED BY <1>1, <1>2, <2>1, <2>3, <2>4, PlaceOrder DEF AlreadyOutput
<1> QED BY <1>4 DEF AlreadyOutput

\* x is the cache with the first k packets of the batch.
HoldsBatch(batch, k, x) ==
  /\ IsCache(first_seq, stream, x)
  /\ SeqsOf(x) = SeqsOf(cached_packets) \cup {batch[j].seq : j \in 1..k}
  /\ \A i \in 1..Len(x) : \/ \E j \in 1..Len(cached_packets) : x[i] = cached_packets[j]
                          \/ \E j \in 1..Len(batch) : x[i] = batch[j]

\* The packets of a batch all enter the cache.
LEMMA CachePacketsFacts ==
  ASSUME StreamOK, HeldInv, GivenInv, NEW batch, IsBatch(batch)
  PROVE  HoldsBatch(batch, Len(batch), CachePackets(batch))
<1> DEFINE len == Len(batch)
           A == {x \in Seq(Packets) : IsCache(first_seq, stream, x)}
           late(k) == has_output /\ IsSeqBefore(batch[k].seq, seq_last_output)
           cached == CHOOSE f : f = [k \in 0..len |->
                       IF k = 0 THEN cached_packets
                       ELSE IF late(k) THEN f[k - 1] ELSE Inserted(f[k - 1], batch[k])]
           step == [k \in 1..len |-> [x \in A |->
                       IF late(k) THEN x ELSE Inserted(x, batch[k])]]
           P == {k \in 0..len : cached[k] \in A /\ HoldsBatch(batch, k, cached[k])}
<1>1. /\ len \in Nat /\ IsCache(first_seq, stream, cached_packets)
      /\ first_seq \in SeqNums /\ stream \in Seq(Packets) /\ Len(stream) <= MaxSent
      /\ Len(stream) \in Nat /\ passed \in 0..Len(stream)
      /\ \A k \in 1..len : /\ IsCopy(first_seq, stream, batch[k])
                           /\ passed <= Place(first_seq, batch[k].seq)
  BY DEF IsBatch, HeldInv, StreamOK
<1>2. cached_packets \in A /\ HoldsBatch(batch, 0, cached_packets)
  <2>1. {batch[j].seq : j \in 1..0} = {}
    OBVIOUS
  <2> QED BY <1>1, <2>1 DEF IsCache, HoldsBatch
<1>3. \A k \in 1..len : ~late(k)
  BY <1>1, BatchIsNew
<1>4. ASSUME NEW k \in 1..len, NEW x \in A
      PROVE  Inserted(x, batch[k]) \in A /\ HoldsToo(first_seq, stream, x, batch[k], Inserted(x, batch[k]))
  <2>1. HoldsToo(first_seq, stream, x, batch[k], Inserted(x, batch[k]))
    BY <1>1, InsertedFacts
  <2> QED BY <2>1 DEF HoldsToo, IsCache
<1>5. step \in [1..len -> [A -> A]]
  <2> HIDE DEF A, len, late
  <2> QED BY <1>4
<1>6. PICK f \in [0..len -> A] : IsIteration(f, len, cached_packets, step)
  <2> HIDE DEF step, len, A
  <2> QED BY <1>1, <1>2, <1>5, IterationExists
<1>7. f = [k \in 0..len |-> IF k = 0 THEN cached_packets
                            ELSE IF late(k) THEN f[k - 1] ELSE Inserted(f[k - 1], batch[k])]
  <2>1. \A k \in 1..len : f[k - 1] \in A
    <3> HIDE DEF len, step, A
    <3>1. \A k \in 1..len : k - 1 \in 0..len
      BY <1>1
    <3> QED BY <3>1, <1>6
  <2> HIDE DEF A, late
  <2>2. \A k \in 1..len : step[k][f[k - 1]]
          = IF late(k) THEN f[k - 1] ELSE Inserted(f[k - 1], batch[k])
    BY <2>1
  <2> HIDE DEF step, len
  <2>3. f = [k \in 0..len |-> IF k = 0 THEN cached_packets ELSE step[k][f[k - 1]]]
    BY <1>6 DEF IsIteration
  <2>4. \A k \in 0..len : (IF k = 0 THEN cached_packets ELSE step[k][f[k - 1]])
          = IF k = 0 THEN cached_packets
            ELSE IF late(k) THEN f[k - 1] ELSE Inserted(f[k - 1], batch[k])
    BY <1>1, <2>2
  <2> QED BY <2>3, <2>4
<1>8. cached = [k \in 0..len |-> IF k = 0 THEN cached_packets
                  ELSE IF late(k) THEN cached[k - 1] ELSE Inserted(cached[k - 1], batch[k])]
  <2> HIDE DEF len, late
  <2> QED BY <1>7
<1>9. CachePackets(batch) = cached[len]
  BY DEF CachePackets
<1> HIDE DEF cached, step, len, A, late
<1>10. 0 \in P
  BY <1>1, <1>2, <1>8
<1>11. ASSUME NEW k \in 0..(len - 1), k \in P
       PROVE  k + 1 \in P
  <2>1. /\ k + 1 \in 1..len /\ (k + 1) - 1 = k /\ k + 1 # 0 /\ k + 1 \in 0..len
        /\ 1..(k + 1) = (1..k) \cup {k + 1}
    BY <1>1
  <2>2. cached[k + 1] = Inserted(cached[k], batch[k + 1])
    BY <1>3, <1>8, <2>1
  <2>3. cached[k] \in A /\ HoldsBatch(batch, k, cached[k])
    BY <1>11
  <2>4. cached[k + 1] \in A
        /\ HoldsToo(first_seq, stream, cached[k], batch[k + 1], cached[k + 1])
    BY <1>4, <2>1, <2>2, <2>3
  <2>5. {batch[j].seq : j \in 1..(k + 1)} = {batch[j].seq : j \in 1..k} \cup {batch[k + 1].seq}
    BY <2>1
  <2>6. SeqsOf(cached[k + 1]) = SeqsOf(cached_packets) \cup {batch[j].seq : j \in 1..(k + 1)}
    <3>1. SeqsOf(cached[k + 1]) = SeqsOf(cached[k]) \cup {batch[k + 1].seq}
      BY <2>4 DEF HoldsToo
    <3>2. SeqsOf(cached[k]) = SeqsOf(cached_packets) \cup {batch[j].seq : j \in 1..k}
      BY <2>3 DEF HoldsBatch
    <3> QED BY <2>5, <3>1, <3>2
  <2>7. HoldsBatch(batch, k + 1, cached[k + 1])
    <3>1. IsCache(first_seq, stream, cached[k + 1])
      BY <2>4 DEF HoldsToo
    <3>2. \A i \in 1..Len(cached[k + 1]) :
            \/ cached[k + 1][i] = batch[k + 1]
            \/ \E j \in 1..Len(cached[k]) : cached[k + 1][i] = cached[k][j]
      BY <2>4 DEF HoldsToo
    <3>3. \A i \in 1..Len(cached[k]) :
            \/ \E j \in 1..Len(cached_packets) : cached[k][i] = cached_packets[j]
            \/ \E j \in 1..Len(batch) : cached[k][i] = batch[j]
      BY <2>3 DEF HoldsBatch
    <3>4. k + 1 \in 1..Len(batch)
      BY <2>1 DEF len
    <3>5. \A i \in 1..Len(cached[k + 1]) :
            \/ \E j \in 1..Len(cached_packets) : cached[k + 1][i] = cached_packets[j]
            \/ \E j \in 1..Len(batch) : cached[k + 1][i] = batch[j]
      <4> TAKE i \in 1..Len(cached[k + 1])
      <4>1. CASE cached[k + 1][i] = batch[k + 1]
        BY <3>4, <4>1
      <4>2. CASE \E j \in 1..Len(cached[k]) : cached[k + 1][i] = cached[k][j]
        <5>1. PICK m \in 1..Len(cached[k]) : cached[k + 1][i] = cached[k][m]
          BY <4>2
        <5> QED BY <3>3, <5>1
      <4> QED BY <3>2, <4>1, <4>2
    <3> QED BY <2>6, <3>1, <3>5 DEF HoldsBatch
  <2> QED BY <2>1, <2>4, <2>7
<1> HIDE DEF P
<1>12. \A k \in 0..(len - 1) : k \in P => k + 1 \in P
  BY <1>11
<1>13. len \in P
  <2>1. len \in 0..len
    BY <1>1
  <2> QED BY <2>1, <1>1, <1>10, <1>12, InductionUpTo
<1> QED BY <1>9, <1>13 DEF P, len

\* The cache c that Decode takes packets from: what was held, the batch and
\* recovered packets.
IsReady(batch, upto, c) ==
  /\ IsCache(first_seq, stream, c) /\ c # <<>> /\ FoundOrGiven(c)
  /\ SeqsOf(cached_packets) \subseteq SeqsOf(c)
  /\ \A j \in 1..Len(batch) : batch[j].seq \in SeqsOf(c)
  /\ \A s \in SeqsOf(c) : AlreadyOutput(s) => s \in SeqsOf(output)
  /\ \A i \in 1..Len(c) : Place(first_seq, c[i].seq) < upto

\* A batch makes the cache ready.
LEMMA ReadyFacts ==
  ASSUME StreamOK, HeldInv, GivenInv, NEW batch, IsBatch(batch), batch # <<>>,
         NEW upto \in passed..Len(stream),
         \A j \in 1..Len(batch) : Place(first_seq, batch[j].seq) < upto /\ batch[j].received = {}
  PROVE  IsReady(batch, upto, RcoverPackets(CachePackets(batch)))
<1> DEFINE held == cached_packets
           a == CachePackets(batch)
           c == RcoverPackets(a)
<1>1. /\ first_seq \in SeqNums /\ stream \in Seq(Packets) /\ Len(stream) <= MaxSent
      /\ Len(stream) \in Nat /\ passed \in 0..Len(stream) /\ Len(batch) \in Nat /\ Len(batch) >= 1
      /\ \A j \in 1..Len(batch) : /\ IsCopy(first_seq, stream, batch[j])
                                  /\ passed <= Place(first_seq, batch[j].seq)
  BY DEF StreamOK, IsBatch
<1>2. /\ IsCache(first_seq, stream, held) /\ FoundOrGiven(held) /\ Len(held) \in Nat
      /\ \A i \in 1..Len(held) : Place(first_seq, held[i].seq) < passed
      /\ \A s \in SeqsOf(held) : AlreadyOutput(s) => s \in SeqsOf(output)
  BY DEF HeldInv, IsCache
<1>3. HoldsBatch(batch, Len(batch), a)
  BY CachePacketsFacts
<1> HIDE DEF a
<1>4. /\ IsCache(first_seq, stream, a)
      /\ SeqsOf(a) = SeqsOf(held) \cup {batch[j].seq : j \in 1..Len(batch)}
      /\ \A i \in 1..Len(a) : \/ \E j \in 1..Len(held) : a[i] = held[j]
                              \/ \E j \in 1..Len(batch) : a[i] = batch[j]
  BY <1>3 DEF HoldsBatch
<1>5. Len(a) \in Nat /\ Len(a) >= 1 /\ a # <<>>
  <2>1. batch[1].seq \in SeqsOf(a)
    BY <1>1, <1>4
  <2>2. a # <<>>
    BY <2>1 DEF SeqsOf
  <2> QED BY <2>2, <1>4 DEF IsCache
<1>6. FoundOrGiven(a)
  <2> SUFFICES ASSUME NEW i \in 1..Len(a), NEW s \in a[i].received
               PROVE  s \in SeqsOf(a) \/ AlreadyOutput(s)
    BY DEF FoundOrGiven
  <2>1. CASE \E j \in 1..Len(held) : a[i] = held[j]
    BY <1>2, <1>4, <2>1 DEF FoundOrGiven
  <2>2. CASE \E j \in 1..Len(batch) : a[i] = batch[j]
    BY <2>2
  <2> QED BY <1>4, <2>1, <2>2
<1>7. RecoversTo(a, c)
  BY <1>1, <1>4, <1>5, <1>6, RcoverPacketsFacts
<1> HIDE DEF c
<1>8. /\ IsCache(first_seq, stream, c) /\ FoundOrGiven(c) /\ c # <<>>
      /\ c[Len(c)].seq = a[Len(a)].seq /\ SeqsOf(a) \subseteq SeqsOf(c)
      /\ \A s \in SeqsOf(c) : s \in SeqsOf(a) \/ ~AlreadyOutput(s)
  BY <1>7 DEF RecoversTo
<1>9. \A s \in SeqsOf(c) : AlreadyOutput(s) => s \in SeqsOf(output)
  <2> SUFFICES ASSUME NEW s \in SeqsOf(c), AlreadyOutput(s) PROVE s \in SeqsOf(output)
    OBVIOUS
  <2>1. s \in SeqsOf(a)
    BY <1>8
  <2>2. \A j \in 1..Len(batch) : ~AlreadyOutput(batch[j].seq)
    BY <1>1, BatchIsNew
  <2>3. s \in SeqsOf(held)
    BY <1>4, <2>1, <2>2
  <2> QED BY <1>2, <2>3
<1>10. \A i \in 1..Len(c) : Place(first_seq, c[i].seq) < upto
  <2>1. Len(a) \in 1..Len(a)
    BY <1>5
  <2>2. Place(first_seq, a[Len(a)].seq) < upto
    <3>1. CASE \E j \in 1..Len(held) : a[Len(a)] = held[j]
      <4>1. PICK j \in 1..Len(held) : a[Len(a)] = held[j]
        BY <3>1
      <4>2. Place(first_seq, held[j].seq) < passed /\ Place(first_seq, held[j].seq) \in Int
        BY <1>1, <1>2, CacheFacts
      <4> QED BY <1>1, <4>1, <4>2
    <3>2. CASE \E j \in 1..Len(batch) : a[Len(a)] = batch[j]
      BY <3>2
    <3> QED BY <1>4, <2>1, <3>1, <3>2
  <2>3. Len(c) \in Nat /\ Len(c) >= 1
    BY <1>8 DEF IsCache
  <2> SUFFICES ASSUME NEW i \in 1..Len(c) PROVE Place(first_seq, c[i].seq) < upto
    OBVIOUS
  <2>4. Len(c) \in 1..Len(c) /\ (i = Len(c) \/ i < Len(c))
    BY <2>3
  <2>5. i < Len(c) => Place(first_seq, c[i].seq) < Place(first_seq, c[Len(c)].seq)
    BY <1>8, <2>4 DEF IsCache, InStreamOrder
  <2>6. Place(first_seq, c[i].seq) \in Int /\ Place(first_seq, c[Len(c)].seq) \in Int
    BY <1>1, <1>8, <2>4, CacheFacts
  <2> QED BY <1>1, <1>8, <2>2, <2>4, <2>5, <2>6
<1>11. \A j \in 1..Len(batch) : batch[j].seq \in SeqsOf(c)
  BY <1>4, <1>8
<1>12. SeqsOf(held) \subseteq SeqsOf(c)
  BY <1>4, <1>8
<1>13. IsReady(batch, upto, c)
  BY <1>8, <1>9, <1>10, <1>11, <1>12 DEF IsReady
<1> QED BY <1>13 DEF c, a
-----------------------------------------------------------------------------
(* Output *)

\* The greatest of a set of numbers up to n.
LEMMA MaxFacts ==
  ASSUME NEW n \in Nat, NEW S \in SUBSET (0..n), S # {}
  PROVE  Max(S) \in S /\ \A k \in S : k <= Max(S)
<1> DEFINE T == {n - k : k \in S}
<1>1. T \in SUBSET Nat /\ T # {}
  <2>1. \A k \in S : n - k \in Nat
    OBVIOUS
  <2> QED BY <2>1
<1>2. PICK m \in T : \A j \in T : m <= j
  BY <1>1, LeastOf
<1>3. PICK x \in S : m = n - x
  BY <1>2
<1>4. \A k \in S : x >= k
  <2> TAKE k \in S
  <2>1. n - k \in T
    OBVIOUS
  <2>2. m <= n - k
    BY <1>2, <2>1
  <2> QED BY <1>3, <2>2
<1> QED BY <1>4 DEF Max

\* The packets too far behind the last one of the cache are those before a place.
LEMMA LeavingFacts ==
  ASSUME first_seq \in SeqNums, stream \in Seq(Packets), Len(stream) <= MaxSent,
         NEW c, IsCache(first_seq, stream, c), c # <<>>
  PROVE  /\ Leaving(c) \in 0..Len(c)
         /\ \A i \in (Leaving(c) + 1)..Len(c) :
              Place(first_seq, c[Len(c)].seq) - Place(first_seq, c[i].seq) <= MaxCacheSeqDifference
<1> DEFINE len == Len(c)
           near == {i \in DOMAIN c :
                      IsSeqBeforeInRange(c[i].seq, Last(c).seq, MaxCacheSeqDifference)}
<1>1. /\ len \in Nat /\ len >= 1 /\ DOMAIN c = 1..len /\ len \in 1..len /\ Last(c) = c[len]
      /\ \A i \in 1..len : /\ c[i].seq \in SeqNums /\ Place(first_seq, c[i].seq) \in Int
                           /\ Place(first_seq, c[i].seq) < MaxSent
  <2>1. len \in Nat /\ DOMAIN c = 1..len /\ len >= 1
    BY DEF IsCache
  <2>2. \A i \in 1..len : /\ c[i].seq \in SeqNums /\ Place(first_seq, c[i].seq) \in Int
                          /\ Place(first_seq, c[i].seq) < MaxSent
    BY CacheFacts
  <2> QED BY <2>1, <2>2 DEF Last
<1>2. Leaving(c) = IF near = {} THEN len ELSE Min(near) - 1
  BY DEF Leaving
<1>3. \A i \in near : /\ i \in 1..len
                      /\ Place(first_seq, c[len].seq) - Place(first_seq, c[i].seq)
                           <= MaxCacheSeqDifference
  BY <1>1, PlaceOrder
<1>4. near \in SUBSET Nat
  BY <1>1
<1> HIDE DEF near, len
<1>5. CASE near = {}
  BY <1>1, <1>2, <1>5 DEF len
<1>6. CASE near # {}
  <2>1. PICK m \in near : m = Min(near)
    BY <1>4, <1>6, MinFacts
  <2>2. m \in 1..len /\ Leaving(c) = m - 1
    BY <1>2, <1>3, <1>6, <2>1
  <2>3. MaxCacheSeqDifference \in Int
    BY DifferenceAssumption, HalfRangeBounds
  <2>4. ASSUME NEW i \in m..len
        PROVE  Place(first_seq, c[len].seq) - Place(first_seq, c[i].seq) <= MaxCacheSeqDifference
    <3>1. i \in 1..len /\ (i = m \/ m < i)
      BY <1>1, <2>2
    <3>2. m < i => Place(first_seq, c[m].seq) < Place(first_seq, c[i].seq)
      BY <2>2, <3>1 DEF IsCache, InStreamOrder, len
    <3>3. Place(first_seq, c[len].seq) - Place(first_seq, c[m].seq) <= MaxCacheSeqDifference
      BY <1>3, <2>1
    <3> QED BY <1>1, <2>2, <2>3, <3>1, <3>2, <3>3
  <2> QED BY <1>1, <2>2, <2>4 DEF len
<1> QED BY <1>5, <1>6

\* r is what leaves a ready cache c whose first "left" packets are too far back.
IsReleased(c, left, r) ==
  /\ r \in Seq(Packets) /\ InStreamOrder(first_seq, r)
  /\ \A i \in 1..Len(r) : ~AlreadyOutput(r[i].seq) /\ \E j \in 1..Len(c) : r[i] = c[j]
  /\ \A j \in 1..left : AlreadyOutput(c[j].seq) \/ c[j].seq \in SeqsOf(r)
  /\ \A j \in (left + 1)..Len(c) :
       r # <<>> /\ Place(first_seq, c[j].seq) <= Place(first_seq, r[Len(r)].seq)
         => c[j].seq \in SeqsOf(r)

\* The number of copies is one of those RunLength chooses from.
LEMMA RunLengthFacts ==
  ASSUME NEW rest \in Seq(Packets), NEW given
  PROVE  /\ RunLength(rest, given) \in 0..Len(rest)
         /\ RunLength(rest, given) >= 1 =>
              IF given = <<>> THEN ~AlreadyOutput(rest[1].seq)
              ELSE IsNextSeq(Last(given).seq, rest[1].seq)
<1> DEFINE continues(k) ==
             IF k = 1 /\ given = <<>>
             THEN ~AlreadyOutput(rest[1].seq)
             ELSE IsNextSeq(IF k = 1 THEN Last(given).seq ELSE rest[k - 1].seq, rest[k].seq)
           S == {k \in 0..Len(rest) : \A j \in 1..k : continues(j)}
<1>1. RunLength(rest, given) = Max(S)
  BY DEF RunLength
<1>2. continues(1) => IF given = <<>> THEN ~AlreadyOutput(rest[1].seq)
                      ELSE IsNextSeq(Last(given).seq, rest[1].seq)
  OBVIOUS
<1> HIDE DEF continues
<1>3. 0 \in S
  BY LenProperties
<1>4. Max(S) \in S
  <2>1. PICK n \in Nat : n = Len(rest)
    OBVIOUS
  <2>2. S \in SUBSET (0..n) /\ S # {}
    BY <1>3, <2>1
  <2> QED BY <2>2, MaxFacts
<1>5. \A k \in S : k >= 1 => continues(1)
  OBVIOUS
<1> QED BY <1>1, <1>2, <1>4, <1>5

\* The part of a list after the first "left" elements.
LEMMA RestFacts ==
  ASSUME NEW S, NEW c \in Seq(S), NEW left \in 0..Len(c)
  PROVE  /\ SubSeq(c, left + 1, Len(c)) \in Seq(S)
         /\ Len(SubSeq(c, left + 1, Len(c))) = Len(c) - left
         /\ \A k \in 1..(Len(c) - left) :
              /\ left + k \in 1..Len(c) /\ left + k > left
              /\ SubSeq(c, left + 1, Len(c))[k] = c[left + k]
<1> DEFINE rest == SubSeq(c, left + 1, Len(c))
<1>1. PICK n \in Nat : n = Len(c)
  OBVIOUS
<1>2. left \in Nat /\ left <= n
  BY <1>1
<1>3. \A i \in (left + 1)..Len(c) : c[i] \in S
  BY <1>1, <1>2, ElementOfSeq
<1>4. /\ rest \in Seq(S)
      /\ Len(rest) = IF left + 1 <= Len(c) THEN Len(c) - (left + 1) + 1 ELSE 0
      /\ \A i \in 1..(Len(c) - (left + 1) + 1) : rest[i] = c[(left + 1) + i - 1]
  BY <1>1, <1>2, <1>3, SubSeqProperties
<1> HIDE DEF rest
<1>5. Len(rest) = n - left
  BY <1>1, <1>2, <1>4
<1>6. \A k \in 1..(n - left) : /\ left + k \in 1..n /\ left + k > left
                              /\ rest[k] = c[left + k]
  <2> TAKE k \in 1..(n - left)
  <2>1. k \in Int /\ (left + 1) + k - 1 = left + k
    BY <1>1, <1>2
  <2>2. k \in 1..(Len(c) - (left + 1) + 1)
    BY <1>1, <1>2
  <2> QED BY <1>1, <1>2, <1>4, <2>1, <2>2
<1> QED BY <1>1, <1>4, <1>5, <1>6 DEF rest

\* r is the list e followed by "run" elements of c after the first "left" ones.
IsJoined(r, S, e, c, left, run) ==
  /\ r \in Seq(S)
  /\ Len(r) = Len(e) + run
  /\ \A i \in 1..Len(e) : i \in 1..Len(r) /\ r[i] = e[i]
  /\ \A k \in 1..run : /\ Len(e) + k \in 1..Len(r) /\ left + k \in 1..Len(c)
                       /\ r[Len(e) + k] = c[left + k]
  /\ \A i \in 1..Len(r) : i \in 1..Len(e) \/ \E k \in 1..run : i = Len(e) + k

\* The list that Decode gives back is of that form.
LEMMA JoinFacts ==
  ASSUME NEW S, NEW e \in Seq(S), NEW c \in Seq(S), NEW left \in 0..Len(c),
         NEW rest, rest = SubSeq(c, left + 1, Len(c)), NEW run \in 0..Len(rest)
  PROVE  IsJoined(e \o SubSeq(rest, 1, run), S, e, c, left, run)
<1> DEFINE head == SubSeq(rest, 1, run)
           r == e \o head
<1>1. PICK m \in Nat, n \in Nat : m = Len(e) /\ n = Len(c)
  OBVIOUS
<1>2. /\ rest \in Seq(S) /\ Len(rest) = n - left
      /\ \A k \in 1..(n - left) : left + k \in 1..n /\ rest[k] = c[left + k]
  BY <1>1, RestFacts
<1>3. run \in Nat /\ run <= n - left /\ left \in Nat /\ left <= n
  BY <1>1, <1>2
<1>4. head \in Seq(S) /\ Len(head) = run /\ \A k \in 1..run : head[k] = rest[k]
  <2>1. \A i \in 1..run : rest[i] \in S
    BY <1>2, <1>3, ElementOfSeq
  <2>2. /\ head \in Seq(S)
        /\ Len(head) = IF 1 <= run THEN run - 1 + 1 ELSE 0
        /\ \A i \in 1..(run - 1 + 1) : head[i] = rest[1 + i - 1]
    BY <1>3, <2>1, SubSeqProperties
  <2> QED BY <1>3, <2>2
<1> HIDE DEF head
<1>5. /\ r \in Seq(S) /\ Len(r) = m + run
      /\ \A i \in 1..(m + run) : r[i] = IF i <= m THEN e[i] ELSE head[i - m]
  BY <1>1, <1>4, ConcatProperties
<1> HIDE DEF r
<1>6. \A i \in 1..m : i \in 1..(m + run) /\ r[i] = e[i]
  BY <1>3, <1>5
<1>7. \A k \in 1..run : m + k \in 1..(m + run) /\ left + k \in 1..n /\ r[m + k] = c[left + k]
  <2> TAKE k \in 1..run
  <2>1. /\ k \in 1..(n - left) /\ m + k \in 1..(m + run) /\ ~(m + k <= m)
        /\ (m + k) - m = k
    BY <1>3
  <2> QED BY <1>2, <1>4, <1>5, <2>1
<1>8. \A i \in 1..(m + run) : i \in 1..m \/ \E k \in 1..run : i = m + k
  <2> TAKE i \in 1..(m + run)
  <2>1. CASE i <= m
    BY <2>1
  <2>2. CASE i > m
    <3>1. i - m \in 1..run /\ i = m + (i - m)
      BY <1>3, <2>2
    <3> QED BY <3>1
  <2> QED BY <2>1, <2>2
<1>9. IsJoined(r, S, e, c, left, run)
  BY <1>1, <1>5, <1>6, <1>7, <1>8 DEF IsJoined
<1> QED BY <1>9 DEF r, head

\* e is what is given back of the first "left" packets of c.
IsExpired(c, left, e) ==
  /\ e \in Seq(Packets)
  /\ \A i \in 1..Len(e) : \E k \in 1..left : ~AlreadyOutput(c[k].seq) /\ e[i] = c[k]
  /\ \A k \in 1..left : AlreadyOutput(c[k].seq) \/ \E i \in 1..Len(e) : e[i] = c[k]
  /\ \A i, j \in 1..Len(e) : i < j =>
       \E k, l \in 1..left : k < l /\ e[i] = c[k] /\ e[j] = c[l]

\* That and a run of the following packets is in order and leaves no gap.
LEMMA JoinedIsReleased ==
  ASSUME first_seq \in SeqNums, stream \in Seq(Packets), Len(stream) <= MaxSent,
         has_output => /\ seq_last_output \in SeqNums
                       /\ Place(first_seq, seq_last_output) < MaxSent,
         NEW c, IsCache(first_seq, stream, c), NEW left \in Nat, left <= Len(c),
         NEW e, IsExpired(c, left, e), NEW run \in Nat, run <= Len(c) - left,
         run >= 1 => IF e = <<>> THEN ~AlreadyOutput(c[left + 1].seq)
                     ELSE IsNextSeq(Last(e).seq, c[left + 1].seq),
         NEW r, IsJoined(r, Packets, e, c, left, run)
  PROVE  IsReleased(c, left, r)
<1> DEFINE p(i) == Place(first_seq, c[i].seq)
           last == Place(first_seq, seq_last_output)
<1>1. PICK n \in Nat : n = Len(c)
  BY DEF IsCache
<1>2. /\ c \in Seq(Packets) /\ left <= n /\ DOMAIN c = 1..n
      /\ \A i \in 1..n : c[i].seq \in SeqNums /\ p(i) \in Int /\ p(i) < MaxSent
      /\ \A i, j \in 1..n : i < j => p(i) < p(j)
  <2>1. \A i \in 1..Len(c) : c[i].seq \in SeqNums /\ p(i) \in Int /\ p(i) < MaxSent
    BY CacheFacts
  <2>2. \A i, j \in 1..Len(c) : i < j => p(i) < p(j)
    BY DEF IsCache, InStreamOrder
  <2>3. c \in Seq(Packets) /\ DOMAIN c = 1..Len(c)
    BY DEF IsCache
  <2> QED BY <1>1, <2>1, <2>2, <2>3
<1>3. \A i \in 1..n : AlreadyOutput(c[i].seq) <=> has_output /\ p(i) <= last
  <2> TAKE i \in 1..n
  <2>1. has_output => (IsSeqAfter(seq_last_output, c[i].seq) <=> last < p(i))
    BY <1>2, PlaceOrder
  <2>2. has_output => last \in Int
    BY PlaceType, SeqSpaceAssumption
  <2> QED BY <1>2, <2>1, <2>2 DEF AlreadyOutput
<1>4. has_output => last \in Int
  BY PlaceType, SeqSpaceAssumption
<1>7. /\ e \in Seq(Packets)
      /\ \A i \in 1..Len(e) : \E k \in 1..left : ~AlreadyOutput(c[k].seq) /\ e[i] = c[k]
      /\ \A k \in 1..left : AlreadyOutput(c[k].seq) \/ \E i \in 1..Len(e) : e[i] = c[k]
      /\ \A i, j \in 1..Len(e) : i < j =>
           \E k, l \in 1..left : k < l /\ e[i] = c[k] /\ e[j] = c[l]
  BY DEF IsExpired
<1>8. PICK m \in Nat : m = Len(e)
  BY <1>7
<1>9. \A k \in 1..left : k \in 1..n
  BY <1>2
<1>10. run <= n - left
  BY <1>1
<1>12. /\ r \in Seq(Packets) /\ Len(r) = m + run
       /\ \A i \in 1..m : i \in 1..(m + run) /\ r[i] = e[i]
       /\ \A k \in 1..run : /\ m + k \in 1..(m + run) /\ left + k \in 1..n
                            /\ r[m + k] = c[left + k]
       /\ \A i \in 1..(m + run) : i \in 1..m \/ \E k \in 1..run : i = m + k
  BY <1>1, <1>8 DEF IsJoined
<1> HIDE DEF p, last
\* The run starts after the last output, and so does all that follows.
<1>13. ASSUME NEW j \in (left + 1)..n, run >= 1
       PROVE  j \in 1..n /\ ~AlreadyOutput(c[j].seq)
  <2>1. /\ 1 \in 1..(n - left) /\ left + 1 \in 1..n /\ j \in 1..n
        /\ j = left + 1 \/ left + 1 < j
    BY <1>2, <1>10, <1>13
  <2>3. ~AlreadyOutput(c[left + 1].seq)
    <3>1. CASE e = <<>>
      BY <1>13, <3>1
    <3>2. CASE e # <<>>
      <4>1. m >= 1 /\ 1 \in 1..m
        BY <1>7, <1>8, <3>2
      <4>2. PICK k \in 1..left : ~AlreadyOutput(c[k].seq) /\ e[1] = c[k]
        BY <1>7, <1>8, <4>1
      <4>3. k \in 1..n /\ k < left + 1 /\ ~AlreadyOutput(c[k].seq)
        BY <1>2, <1>9, <4>2
      <4>4. p(k) < p(left + 1) /\ p(k) \in Int /\ p(left + 1) \in Int
        BY <1>2, <2>1, <4>3
      <4>5. ~(has_output /\ p(k) <= last)
        BY <1>3, <4>3
      <4>6. ~(has_output /\ p(left + 1) <= last)
        BY <1>4, <4>4, <4>5
      <4> QED BY <1>3, <2>1, <4>6
    <3> QED BY <3>1, <3>2
  <2>4. ~(has_output /\ p(left + 1) <= last)
    BY <1>3, <2>1, <2>3
  <2>5. left + 1 < j => p(left + 1) < p(j)
    BY <1>2, <2>1
  <2>6. p(j) \in Int /\ p(left + 1) \in Int
    BY <1>2, <2>1
  <2>7. ~(has_output /\ p(j) <= last)
    BY <1>4, <2>1, <2>4, <2>5, <2>6
  <2> QED BY <1>3, <2>1, <2>7
\* Each packet given back is one of c, those of the run after the others.
<1>14. \A i \in 1..m : \E k \in 1..left : k \in 1..n /\ ~AlreadyOutput(c[k].seq) /\ r[i] = c[k]
  <2> TAKE i \in 1..m
  <2>1. PICK k \in 1..left : ~AlreadyOutput(c[k].seq) /\ e[i] = c[k]
    BY <1>7, <1>8
  <2>2. r[i] = e[i]
    BY <1>12
  <2> QED BY <1>9, <2>1, <2>2
<1>15. \A i \in 1..Len(r) : ~AlreadyOutput(r[i].seq) /\ \E j \in 1..Len(c) : r[i] = c[j]
  <2> TAKE i \in 1..Len(r)
  <2>1. CASE i \in 1..m
    <3>1. PICK k \in 1..left : k \in 1..n /\ ~AlreadyOutput(c[k].seq) /\ r[i] = c[k]
      BY <1>14, <2>1
    <3> QED BY <1>1, <1>9, <3>1
  <2>2. CASE \E k \in 1..run : i = m + k
    <3>1. PICK k \in 1..run : i = m + k
      BY <2>2
    <3>2. left + k \in (left + 1)..n /\ r[i] = c[left + k] /\ run >= 1
      BY <1>2, <1>10, <1>12, <3>1
    <3> QED BY <1>1, <1>13, <3>2
  <2> QED BY <1>12, <2>1, <2>2
<1>16. InStreamOrder(first_seq, r)
  <2> SUFFICES ASSUME NEW i \in 1..Len(r), NEW j \in 1..Len(r), i < j
               PROVE  Place(first_seq, r[i].seq) < Place(first_seq, r[j].seq)
    BY DEF InStreamOrder
  <2>1. \E k, l \in 1..n : k < l /\ r[i] = c[k] /\ r[j] = c[l]
    <3>1. CASE i \in 1..m /\ j \in 1..m
      <4>1. PICK k \in 1..left, l \in 1..left : k < l /\ e[i] = c[k] /\ e[j] = c[l]
        BY <1>7, <1>8, <3>1
      <4>2. k \in 1..n /\ l \in 1..n
        BY <1>9
      <4> QED BY <1>12, <3>1, <4>1, <4>2
    <3>2. CASE i \in 1..m /\ \E l \in 1..run : j = m + l
      <4>1. PICK k \in 1..left : k \in 1..n /\ ~AlreadyOutput(c[k].seq) /\ r[i] = c[k]
        BY <1>14, <3>2
      <4>2. PICK l \in 1..run : j = m + l
        BY <3>2
      <4>3. left + l \in 1..n /\ r[j] = c[left + l] /\ k < left + l
        BY <1>2, <1>12, <4>1, <4>2
      <4> QED BY <4>1, <4>3
    <3>3. CASE (\E k \in 1..run : i = m + k) /\ \E l \in 1..run : j = m + l
      <4>1. PICK k \in 1..run, l \in 1..run : i = m + k /\ j = m + l
        BY <3>3
      <4>2. left + k \in 1..n /\ r[i] = c[left + k] /\ left + l \in 1..n /\ r[j] = c[left + l]
        BY <1>12, <4>1
      <4>3. left + k < left + l
        BY <1>2, <4>1
      <4> QED BY <4>2, <4>3
    <3>4. CASE (\E k \in 1..run : i = m + k) /\ j \in 1..m
      BY <3>4
    <3> QED BY <1>12, <3>1, <3>2, <3>3, <3>4
  <2> QED BY <1>2, <2>1 DEF p
<1>17. \A i : i \in 1..Len(r) => r[i].seq \in SeqsOf(r)
  <2>1. DOMAIN r = 1..Len(r)
    BY <1>12
  <2> QED BY <2>1 DEF SeqsOf
<1>18. \A j \in 1..left : AlreadyOutput(c[j].seq) \/ c[j].seq \in SeqsOf(r)
  <2> SUFFICES ASSUME NEW j \in 1..left, ~AlreadyOutput(c[j].seq) PROVE c[j].seq \in SeqsOf(r)
    OBVIOUS
  <2>1. PICK i \in 1..m : e[i] = c[j]
    BY <1>7, <1>8, <1>9
  <2>2. i \in 1..Len(r) /\ r[i] = c[j]
    BY <1>12, <2>1
  <2> QED BY <1>17, <2>2
<1>19. ASSUME NEW j \in (left + 1)..n, r # <<>>,
              Place(first_seq, c[j].seq) <= Place(first_seq, r[Len(r)].seq)
       PROVE  c[j].seq \in SeqsOf(r)
  <2>1. m + run >= 1 /\ m + run \in 1..(m + run) /\ j \in 1..n /\ j \in Nat
    BY <1>2, <1>10, <1>12, <1>19
  <2>2. CASE run = 0
    <3>1. m + run \in 1..m
      BY <2>1, <2>2
    <3>2. PICK k \in 1..left : k \in 1..n /\ ~AlreadyOutput(c[k].seq) /\ r[m + run] = c[k]
      BY <1>14, <3>1
    <3>3. k < j
      BY <1>2, <3>2
    <3>4. p(k) < p(j) /\ p(k) \in Int /\ p(j) \in Int
      BY <1>2, <2>1, <3>2, <3>3
    <3>5. p(j) <= p(k)
      BY <1>12, <1>19, <3>2 DEF p
    <3> QED BY <3>4, <3>5
  <2>3. CASE run >= 1
    <3>1. run \in 1..run
      BY <1>10, <2>3
    <3>2. r[m + run] = c[left + run] /\ left + run \in 1..n
      BY <1>12, <3>1
    <3>3. p(j) <= p(left + run)
      BY <1>12, <1>19, <3>2 DEF p
    <3>4. j <= left + run
      <4>1. left + run < j => p(left + run) < p(j) /\ p(left + run) \in Int /\ p(j) \in Int
        BY <1>2, <2>1, <3>2
      <4>2. ~(left + run < j)
        BY <3>3, <4>1
      <4> QED BY <1>2, <1>10, <2>1, <4>2
    <3>5. PICK k \in 1..run : j = left + k
      <4>1. j - left \in 1..run /\ j = left + (j - left)
        BY <1>2, <1>10, <2>1, <3>4
      <4> QED BY <4>1
    <3>6. m + k \in 1..Len(r) /\ r[m + k] = c[j]
      BY <1>12, <3>5
    <3> QED BY <1>17, <3>6
  <2> QED BY <1>10, <2>2, <2>3
<1> QED BY <1>1, <1>12, <1>15, <1>16, <1>18, <1>19 DEF IsReleased

\* What Decode gives back, first the packets too far back, then a run of copies.
LEMMA ReleasedFacts ==
  ASSUME first_seq \in SeqNums, stream \in Seq(Packets), Len(stream) <= MaxSent,
         has_output => /\ seq_last_output \in SeqNums
                       /\ Place(first_seq, seq_last_output) < MaxSent,
         NEW c, IsCache(first_seq, stream, c), c # <<>>
  PROVE  LET rest == SubSeq(c, Leaving(c) + 1, Len(c))
             e == Expired(c)
         IN  IsReleased(c, Leaving(c), e \o SubSeq(rest, 1, RunLength(rest, e)))
<1> DEFINE rest == SubSeq(c, Leaving(c) + 1, Len(c))
           e == Expired(c)
           run == RunLength(rest, e)
           r == e \o SubSeq(rest, 1, run)
           new == {i \in 1..Leaving(c) : ~AlreadyOutput(c[i].seq)}
<1>1. Len(c) \in Nat /\ c \in Seq(Packets)
  BY DEF IsCache
<1>2. PICK left \in Nat : left = Leaving(c) /\ left <= Len(c)
  BY <1>1, LeavingFacts
<1>3. /\ SubSeq(c, left + 1, Len(c)) \in Seq(Packets)
      /\ Len(SubSeq(c, left + 1, Len(c))) = Len(c) - left
      /\ \A k \in 1..(Len(c) - left) : SubSeq(c, left + 1, Len(c))[k] = c[left + k]
  BY <1>1, <1>2, RestFacts
<1>4. rest = SubSeq(c, left + 1, Len(c))
  BY <1>2
<1>5. e = Picked(c, new)
  BY DEF Expired
<1>6. \A k \in 1..left : k \in new \cap (1..Len(c)) <=> ~AlreadyOutput(c[k].seq)
  BY <1>1, <1>2
<1>7. \A k \in new \cap (1..Len(c)) : k \in 1..left
  BY <1>2
<1> HIDE DEF rest, e, new
<1>8. IsExpired(c, left, e)
  <2>1. e \in Seq(Packets) /\ HasPicked(e, c, new)
    BY <1>1, <1>5, PickedElements
  <2>2. \A i, j \in 1..Len(e) : i < j =>
          \E k, l \in new \cap (1..Len(c)) : k < l /\ e[i] = c[k] /\ e[j] = c[l]
    <3>1. ListsPicked(Picked(c, new), c, new \cap (1..Len(c)))
      BY <1>1, PickedFacts
    <3>2. PICK at \in [1..Len(e) -> new \cap (1..Len(c))] :
            /\ \A i, j \in 1..Len(e) : i < j => at[i] < at[j]
            /\ \A i \in 1..Len(e) : e[i] = c[at[i]]
      BY <1>5, <3>1 DEF ListsPicked
    <3>3. \A i \in 1..Len(e) : at[i] \in new \cap (1..Len(c))
      BY <3>2
    <3> QED BY <3>2, <3>3
  <2>3. \A i \in 1..Len(e) : \E k \in new \cap (1..Len(c)) : e[i] = c[k]
    BY <2>1 DEF HasPicked
  <2>4. \A k \in new \cap (1..Len(c)) : \E i \in 1..Len(e) : e[i] = c[k]
    BY <2>1 DEF HasPicked
  <2>5. \A i, j \in 1..Len(e) : i < j =>
          \E k, l \in 1..left : k < l /\ e[i] = c[k] /\ e[j] = c[l]
    BY <1>7, <2>2
  <2>6. \A i \in 1..Len(e) : \E k \in 1..left : ~AlreadyOutput(c[k].seq) /\ e[i] = c[k]
    BY <1>6, <1>7, <2>3
  <2>7. \A k \in 1..left : AlreadyOutput(c[k].seq) \/ \E i \in 1..Len(e) : e[i] = c[k]
    BY <1>6, <2>4
  <2> QED BY <2>1, <2>5, <2>6, <2>7 DEF IsExpired
<1>9. /\ run \in 0..Len(rest)
      /\ run >= 1 => IF e = <<>> THEN ~AlreadyOutput(rest[1].seq)
                     ELSE IsNextSeq(Last(e).seq, rest[1].seq)
  BY <1>3, <1>4, RunLengthFacts
<1>10. /\ run \in Nat /\ run <= Len(c) - left
       /\ run >= 1 => rest[1] = c[left + 1]
  <2>1. PICK n \in Nat : n = Len(c)
    BY <1>1
  <2>2. PICK d \in Int : d = n - left
    BY <1>2, <2>1
  <2>3. run \in 0..d
    BY <1>3, <1>4, <1>9, <2>1, <2>2
  <2>4. run >= 1 => 1 \in 1..d
    BY <2>3
  <2> QED BY <1>3, <1>4, <2>1, <2>2, <2>3, <2>4
<1>11. IsJoined(r, Packets, e, c, left, run)
  <2>1. e \in Seq(Packets)
    BY <1>8 DEF IsExpired
  <2>2. left \in 0..Len(c)
    BY <1>1, <1>2
  <2> HIDE DEF run
  <2> QED BY <1>1, <1>4, <1>9, <2>1, <2>2, JoinFacts
<1> HIDE DEF r, run
<1>12. run >= 1 => IF e = <<>> THEN ~AlreadyOutput(c[left + 1].seq)
                   ELSE IsNextSeq(Last(e).seq, c[left + 1].seq)
  BY <1>9, <1>10
<1>13. IsReleased(c, left, r)
  BY <1>2, <1>8, <1>10, <1>11, <1>12, JoinedIsReleased
<1> QED BY <1>2, <1>13 DEF r, run, e, rest
-----------------------------------------------------------------------------
(* Delivery *)

\* A packet of the stream was output when the last output is not before it.
LEMMA OutputPlace ==
  ASSUME NEW first \in SeqNums, NEW h \in BOOLEAN, NEW a,
         h => a \in SeqNums /\ Place(first, a) < MaxSent,
         NEW s \in SeqNums, Place(first, s) < MaxSent
  PROVE  /\ (h /\ ~IsSeqAfter(a, s)) <=> (h /\ Place(first, s) <= Place(first, a))
         /\ Place(first, s) \in Int
         /\ h => Place(first, a) \in Int
<1>1. Place(first, s) \in Int /\ (h => Place(first, a) \in Int)
  BY PlaceType, SeqSpaceAssumption
<1>2. h => (IsSeqAfter(a, s) <=> Place(first, a) < Place(first, s))
  BY PlaceOrder
<1> QED BY <1>1, <1>2

\* The batch of a step Deliver.
BatchOf(upto, lost) ==
  Picked(stream, {i \in (passed + 1)..upto : stream[i].seq \notin lost})

\* It holds packets that were sent after those passed on before.
LEMMA BatchFacts ==
  ASSUME StreamOK, NEW upto \in (passed + 1)..Len(stream), NEW lost
  PROVE  /\ IsBatch(BatchOf(upto, lost))
         /\ \A j \in 1..Len(BatchOf(upto, lost)) :
              /\ Place(first_seq, BatchOf(upto, lost)[j].seq) < upto
              /\ BatchOf(upto, lost)[j].received = {}
<1> DEFINE chosen == {i \in (passed + 1)..upto : stream[i].seq \notin lost}
           batch == BatchOf(upto, lost)
<1>1. /\ stream \in Seq(Packets) /\ Len(stream) \in Nat /\ passed \in Nat
      /\ \A i \in 1..Len(stream) :
           /\ Place(first_seq, stream[i].seq) = i - 1
           /\ IsCopy(first_seq, stream, stream[i]) /\ stream[i].received = {}
  BY DEF StreamOK
<1>2. batch = Picked(stream, chosen)
  BY DEF BatchOf
<1>3. \A i \in chosen : i \in 1..Len(stream) /\ passed <= i - 1 /\ i - 1 < upto
  BY <1>1
<1> HIDE DEF batch, chosen
<1>4. batch \in Seq(Packets) /\ HasPicked(batch, stream, chosen)
  BY <1>1, <1>2, PickedElements
<1>5. ASSUME NEW j \in 1..Len(batch)
      PROVE  /\ IsCopy(first_seq, stream, batch[j]) /\ passed <= Place(first_seq, batch[j].seq)
             /\ Place(first_seq, batch[j].seq) < upto /\ batch[j].received = {}
  <2>1. PICK k \in chosen : batch[j] = stream[k]
    BY <1>4 DEF HasPicked
  <2> QED BY <1>1, <1>3, <2>1
<1>6. IsBatch(batch)
  BY <1>4, <1>5 DEF IsBatch
<1> QED BY <1>5, <1>6 DEF batch

\* A step of Decode that gives back r from the ready cache c.
GivesBack(c, left, r) ==
  /\ left \in 0..Len(c) /\ IsReleased(c, left, r)
  /\ \A i \in (left + 1)..Len(c) :
       Place(first_seq, c[Len(c)].seq) - Place(first_seq, c[i].seq) <= MaxCacheSeqDifference
  /\ cached_packets' = SubSeq(c, left + 1, Len(c))
  /\ output' = output \o r
  /\ r = <<>> => UNCHANGED <<has_output, seq_last_output>>
  /\ r # <<>> => has_output' = TRUE /\ seq_last_output' = r[Len(r)].seq

\* Every step of Decode is such a step.
LEMMA DecodeFacts ==
  ASSUME StreamOK, HeldInv, GivenInv, NEW batch, IsBatch(batch), batch # <<>>,
         NEW upto \in passed..Len(stream),
         \A j \in 1..Len(batch) : Place(first_seq, batch[j].seq) < upto /\ batch[j].received = {},
         Decode(batch)
  PROVE  \E c, left, r : IsReady(batch, upto, c) /\ GivesBack(c, left, r)
<1> DEFINE c == RcoverPackets(CachePackets(batch))
           left == Leaving(c)
           rest == SubSeq(c, left + 1, Len(c))
           e == Expired(c)
           r == e \o SubSeq(rest, 1, RunLength(rest, e))
<1>1. /\ cached_packets' = rest
      /\ output' = output \o r
      /\ IF r = <<>> THEN UNCHANGED <<has_output, seq_last_output>>
         ELSE has_output' = TRUE /\ seq_last_output' = Last(r).seq
  BY DEF Decode
<1>2. IsReady(batch, upto, c)
  BY ReadyFacts
<1> HIDE DEF c
<1>3. /\ first_seq \in SeqNums /\ stream \in Seq(Packets) /\ Len(stream) <= MaxSent
      /\ IsCache(first_seq, stream, c) /\ c # <<>>
      /\ has_output => /\ seq_last_output \in SeqNums
                       /\ Place(first_seq, seq_last_output) < MaxSent
  <2>1. /\ first_seq \in SeqNums /\ stream \in Seq(Packets) /\ Len(stream) <= MaxSent
        /\ passed \in 0..Len(stream) /\ Len(stream) \in Nat
    BY DEF StreamOK
  <2>2. IsCache(first_seq, stream, c) /\ c # <<>>
    BY <1>2 DEF IsReady
  <2>3. has_output => /\ seq_last_output \in SeqNums
                      /\ Place(first_seq, seq_last_output) < passed
    BY DEF GivenInv
  <2>4. has_output => Place(first_seq, seq_last_output) \in Int
    BY <2>1, <2>3, PlaceType, SeqSpaceAssumption
  <2> QED BY <2>1, <2>2, <2>3, <2>4, SessionAssumption
<1>4. IsReleased(c, left, r)
  BY <1>3, ReleasedFacts
<1>5. /\ left \in 0..Len(c)
      /\ \A i \in (left + 1)..Len(c) :
           Place(first_seq, c[Len(c)].seq) - Place(first_seq, c[i].seq) <= MaxCacheSeqDifference
  BY <1>3, LeavingFacts
<1> HIDE DEF r
<1>6. r \in Seq(Packets)
  BY <1>4 DEF IsReleased
<1>7. r # <<>> => has_output' = TRUE /\ seq_last_output' = r[Len(r)].seq
  BY <1>1, <1>6 DEF Last
<1>8. GivesBack(c, left, r)
  BY <1>1, <1>4, <1>5, <1>7 DEF GivesBack
<1> QED BY <1>2, <1>8

\* t is the list a followed by the list b, both of packets.
IsFollowed(t, a, b) ==
  /\ t \in Seq(Packets) /\ Len(t) = Len(a) + Len(b)
  /\ \A i \in 1..Len(t) : \/ i \in 1..Len(a) /\ t[i] = a[i]
                          \/ \E k \in 1..Len(b) : i = Len(a) + k /\ t[i] = b[k]
  /\ \A i \in 1..Len(a) : i \in 1..Len(t) /\ t[i] = a[i]
  /\ \A k \in 1..Len(b) : Len(a) + k \in 1..Len(t) /\ t[Len(a) + k] = b[k]
  /\ \A s : s \in SeqsOf(t) <=> s \in SeqsOf(a) \/ s \in SeqsOf(b)
  /\ b = <<>> => t = a
  /\ b # <<>> => t # <<>> /\ t[Len(t)] = b[Len(b)]

\* So is every list of packets with another behind it.
LEMMA FollowedFacts ==
  ASSUME NEW a \in Seq(Packets), NEW b \in Seq(Packets)
  PROVE  IsFollowed(a \o b, a, b)
<1> DEFINE t == a \o b
<1>1. PICK m \in Nat, n \in Nat : m = Len(a) /\ n = Len(b)
  OBVIOUS
<1>2. /\ t \in Seq(Packets) /\ Len(t) = m + n
      /\ \A i \in 1..(m + n) : t[i] = IF i <= m THEN a[i] ELSE b[i - m]
  BY <1>1, ConcatProperties
<1>3. b = <<>> => t = a
  OBVIOUS
<1>4. DOMAIN t = 1..Len(t) /\ DOMAIN a = 1..m /\ DOMAIN b = 1..n
  BY <1>1, <1>2
<1> HIDE DEF t
<1>5. \A i \in 1..m : i \in 1..(m + n) /\ t[i] = a[i]
  BY <1>2
<1>6. \A k \in 1..n : m + k \in 1..(m + n) /\ t[m + k] = b[k]
  <2> TAKE k \in 1..n
  <2>1. m + k \in 1..(m + n) /\ ~(m + k <= m) /\ (m + k) - m = k
    OBVIOUS
  <2> QED BY <1>2, <2>1
<1>7. \A i \in 1..(m + n) : \/ i \in 1..m /\ t[i] = a[i]
                            \/ \E k \in 1..n : i = m + k /\ t[i] = b[k]
  <2> TAKE i \in 1..(m + n)
  <2>1. CASE i <= m
    BY <1>2, <2>1
  <2>2. CASE i > m
    <3>1. i - m \in 1..n /\ i = m + (i - m)
      BY <2>2
    <3> QED BY <1>6, <3>1
  <2> QED BY <2>1, <2>2
<1>8. \A s : s \in SeqsOf(t) <=> s \in SeqsOf(a) \/ s \in SeqsOf(b)
  <2>1. \A i \in 1..(m + n) : t[i].seq \in SeqsOf(a) \/ t[i].seq \in SeqsOf(b)
    BY <1>4, <1>7 DEF SeqsOf
  <2>2. \A i \in 1..m : a[i].seq \in SeqsOf(t)
    BY <1>2, <1>4, <1>5 DEF SeqsOf
  <2>3. \A k \in 1..n : b[k].seq \in SeqsOf(t)
    BY <1>2, <1>4, <1>6 DEF SeqsOf
  <2> QED BY <1>2, <1>4, <2>1, <2>2, <2>3 DEF SeqsOf
<1>9. b # <<>> => t # <<>> /\ t[Len(t)] = b[Len(b)]
  <2> SUFFICES ASSUME b # <<>> PROVE t # <<>> /\ t[Len(t)] = b[Len(b)]
    OBVIOUS
  <2>1. n >= 1
    BY <1>1
  <2>2. n \in 1..n
    BY <2>1
  <2> QED BY <1>1, <1>2, <1>6, <2>1, <2>2
<1>10. IsFollowed(t, a, b)
  BY <1>1, <1>2, <1>3, <1>5, <1>6, <1>7, <1>8, <1>9 DEF IsFollowed
<1> QED BY <1>10 DEF t

\* A step that gives packets back keeps the invariant and the order of the output.
LEMMA GivesBackKeeps ==
  ASSUME StreamOK, HeldInv, GivenInv, InStreamOrder(first_seq, output),
         NEW batch, NEW upto \in passed..Len(stream), IsBatch(batch),
         NEW c, NEW left, NEW r, IsReady(batch, upto, c), GivesBack(c, left, r),
         UNCHANGED <<first_seq, stream>>, passed' = upto,
         arrived' = arrived \cup SeqsOf(batch)
  PROVE  StreamOK' /\ HeldInv' /\ GivenInv' /\ InStreamOrder(first_seq, output)'
<1> DEFINE P(s) == Place(first_seq, s)
           rest == cached_packets'
           last == seq_last_output
<1>1. PICK n \in Nat : n = Len(c)
  BY DEF IsReady, IsCache
<1>2. /\ first_seq \in SeqNums /\ stream \in Seq(Packets) /\ Len(stream) <= MaxSent
      /\ Len(stream) \in Nat /\ upto \in 0..Len(stream) /\ passed \in Nat /\ passed <= upto
      /\ first_seq' = first_seq /\ stream' = stream
  BY DEF StreamOK
<1>3. /\ c \in Seq(Packets) /\ InStreamOrder(first_seq, c)
      /\ \A i \in 1..n : /\ IsCopy(first_seq, stream, c[i]) /\ c[i].seq \in SeqNums
                         /\ P(c[i].seq) \in Int /\ P(c[i].seq) < upto /\ P(c[i].seq) < MaxSent
      /\ \A s \in SeqsOf(c) : \E i \in 1..n : s = c[i].seq
  <2>1. IsCache(first_seq, stream, c) /\ \A i \in 1..n : P(c[i].seq) < upto
    BY <1>1 DEF IsReady
  <2>2. /\ \A i \in 1..n : c[i].seq \in SeqNums /\ P(c[i].seq) \in Int /\ P(c[i].seq) < MaxSent
        /\ \A s \in SeqsOf(c) : \E i \in 1..n : s = c[i].seq
    BY <1>1, <1>2, <2>1, CacheFacts
  <2> QED BY <1>1, <2>1, <2>2 DEF IsCache
<1>4. PICK l \in Nat : l = left /\ l <= n
  BY <1>1 DEF GivesBack
<1>5. /\ rest \in Seq(Packets) /\ Len(rest) = n - l /\ DOMAIN rest = 1..(n - l)
      /\ \A k \in 1..(n - l) : l + k \in 1..n /\ l + k > l /\ rest[k] = c[l + k]
  <2>1. rest = SubSeq(c, l + 1, Len(c))
    BY <1>4 DEF GivesBack
  <2> QED BY <1>1, <1>3, <1>4, <2>1, RestFacts
<1>6. /\ \A j \in 1..n : l < j => c[j].seq \in SeqsOf(rest)
      /\ \A s \in SeqsOf(rest) : \E j \in 1..n : l < j /\ s = c[j].seq
  <2>1. \A j \in 1..n : l < j => c[j].seq \in SeqsOf(rest)
    <3> TAKE j \in 1..n
    <3> HAVE l < j
    <3>1. j - l \in 1..(n - l) /\ l + (j - l) = j
      BY <1>4
    <3>2. rest[j - l] = c[j]
      BY <1>5, <3>1
    <3> QED BY <1>5, <3>1, <3>2 DEF SeqsOf
  <2>2. \A s \in SeqsOf(rest) : \E j \in 1..n : l < j /\ s = c[j].seq
    <3> TAKE s \in SeqsOf(rest)
    <3>1. PICK k \in 1..(n - l) : s = rest[k].seq
      BY <1>5 DEF SeqsOf
    <3> QED BY <1>5, <3>1
  <2> QED BY <2>1, <2>2
<1>7. /\ r \in Seq(Packets) /\ InStreamOrder(first_seq, r)
      /\ \A i \in 1..Len(r) : ~AlreadyOutput(r[i].seq) /\ \E j \in 1..n : r[i] = c[j]
      /\ \A j \in 1..l : AlreadyOutput(c[j].seq) \/ c[j].seq \in SeqsOf(r)
      /\ \A j \in 1..n : l < j /\ r # <<>> /\ P(c[j].seq) <= P(r[Len(r)].seq)
                           => c[j].seq \in SeqsOf(r)
  <2>1. /\ r \in Seq(Packets) /\ InStreamOrder(first_seq, r)
        /\ \A i \in 1..Len(r) : ~AlreadyOutput(r[i].seq) /\ \E j \in 1..n : r[i] = c[j]
        /\ \A j \in 1..l : AlreadyOutput(c[j].seq) \/ c[j].seq \in SeqsOf(r)
        /\ \A j \in (l + 1)..n : r # <<>> /\ P(c[j].seq) <= P(r[Len(r)].seq)
                                  => c[j].seq \in SeqsOf(r)
    BY <1>1, <1>4 DEF GivesBack, IsReleased
  <2>2. \A j \in 1..n : l < j => j \in (l + 1)..n
    OBVIOUS
  <2> QED BY <2>1, <2>2
<1>8. /\ output \in Seq(Packets) /\ has_output \in BOOLEAN /\ (has_output <=> output # <<>>)
      /\ \A i \in 1..Len(output) : IsCopy(first_seq, stream, output[i])
      /\ has_output => /\ last \in SeqNums /\ last = output[Len(output)].seq
                       /\ P(last) < passed /\ P(last) \in Int /\ P(last) < MaxSent
      /\ seq_last_output \in SeqNums
      /\ arrived \subseteq SeqsOf(output) \cup SeqsOf(cached_packets)
  <2>1. seq_last_output \in SeqNums /\ P(last) \in Int
    BY <1>2, PlaceType, SeqSpaceAssumption DEF GivenInv
  <2> QED BY <1>2, <2>1, SessionAssumption DEF GivenInv
<1>9. IsFollowed(output', output, r)
  BY <1>7, <1>8, FollowedFacts DEF GivesBack
<1>10. /\ r = <<>> => has_output' = has_output /\ seq_last_output' = last
       /\ r # <<>> => has_output' = TRUE /\ seq_last_output' = r[Len(r)].seq
  BY DEF GivesBack
<1>11. /\ r # <<>> => Len(r) \in 1..Len(r) /\ Len(r) \in Nat
       /\ DOMAIN r = 1..Len(r)
       /\ \A i \in 1..Len(r) : r[i].seq \in SeqsOf(r)
       /\ \A s \in SeqsOf(r) : \E i \in 1..Len(r) : s = r[i].seq
  <2>1. PICK q \in Nat : q = Len(r) /\ DOMAIN r = 1..q /\ (r # <<>> => q >= 1)
    BY <1>7
  <2>2. r # <<>> => q \in 1..q
    BY <2>1
  <2>3. /\ \A i \in 1..q : r[i].seq \in SeqsOf(r)
        /\ \A s \in SeqsOf(r) : \E i \in 1..q : s = r[i].seq
    BY <2>1 DEF SeqsOf
  <2> QED BY <2>1, <2>2, <2>3
\* The last output before and after the step.
<1>12. /\ has_output' \in BOOLEAN
       /\ seq_last_output' \in SeqNums
       /\ has_output' => /\ P(seq_last_output') < upto /\ P(seq_last_output') < MaxSent
                         /\ P(seq_last_output') \in Int
  <2>1. CASE r = <<>>
    BY <1>2, <1>8, <1>10, <2>1
  <2>2. CASE r # <<>>
    <3>1. PICK j \in 1..n : r[Len(r)] = c[j]
      BY <1>7, <1>11, <2>2
    <3>2. seq_last_output' = c[j].seq
      BY <1>10, <2>2, <3>1
    <3> QED BY <1>3, <1>10, <2>2, <3>1, <3>2
  <2> QED BY <2>1, <2>2
<1>13. \A s \in SeqNums : P(s) < MaxSent =>
         /\ P(s) \in Int
         /\ AlreadyOutput(s) <=> has_output /\ P(s) <= P(last)
         /\ AlreadyOutput(s)' <=> has_output' /\ P(s) <= P(seq_last_output')
  <2> SUFFICES ASSUME NEW s \in SeqNums, P(s) < MaxSent
               PROVE  /\ P(s) \in Int
                      /\ AlreadyOutput(s) <=> has_output /\ P(s) <= P(last)
                      /\ AlreadyOutput(s)' <=> has_output' /\ P(s) <= P(seq_last_output')
    OBVIOUS
  <2>1. P(s) \in Int /\ (AlreadyOutput(s) <=> has_output /\ P(s) <= P(last))
    BY <1>2, <1>8, OutputPlace DEF AlreadyOutput
  <2>2. (has_output' /\ ~IsSeqAfter(seq_last_output', s))
          <=> has_output' /\ P(s) <= P(seq_last_output')
    BY <1>2, <1>12, OutputPlace
  <2>3. AlreadyOutput(s)' <=> (has_output' /\ ~IsSeqAfter(seq_last_output', s))
    BY DEF AlreadyOutput
  <2> QED BY <2>1, <2>2, <2>3
<1> HIDE DEF P
\* All of r comes after what was output, and the last of r is the last output.
<1>14. \A k \in 1..Len(r) : has_output => P(last) < P(r[k].seq)
  <2> TAKE k \in 1..Len(r)
  <2> HAVE has_output
  <2>1. PICK j \in 1..n : r[k] = c[j]
    BY <1>7
  <2>2. ~AlreadyOutput(r[k].seq)
    BY <1>7
  <2>3. /\ r[k].seq \in SeqNums /\ P(r[k].seq) \in Int /\ P(r[k].seq) < MaxSent
    BY <1>3, <2>1
  <2>4. ~(P(r[k].seq) <= P(last))
    BY <1>13, <2>2, <2>3
  <2> QED BY <1>8, <2>3, <2>4
<1>15. \A k \in 1..Len(r) : P(r[k].seq) <= P(r[Len(r)].seq) /\ AlreadyOutput(r[k].seq)'
  <2> TAKE k \in 1..Len(r)
  <2>1. Len(r) \in 1..Len(r) /\ r # <<>> /\ (k = Len(r) \/ k < Len(r))
    <3>1. PICK q \in Nat : q = Len(r)
      BY <1>7
    <3>2. q \in 1..q /\ (k = q \/ k < q)
      BY <3>1
    <3>3. r # <<>>
      BY <3>1, <3>2
    <3> QED BY <3>1, <3>2, <3>3
  <2>2. k < Len(r) => P(r[k].seq) < P(r[Len(r)].seq)
    BY <1>7, <2>1 DEF InStreamOrder, P
  <2>3. PICK j \in 1..n : r[k] = c[j]
    BY <1>7
  <2>4. PICK m \in 1..n : r[Len(r)] = c[m]
    BY <1>7, <2>1
  <2>5. /\ r[k].seq \in SeqNums /\ P(r[k].seq) \in Int /\ P(r[k].seq) < MaxSent
        /\ P(r[Len(r)].seq) \in Int
    BY <1>3, <2>3, <2>4
  <2>6. P(r[k].seq) <= P(r[Len(r)].seq)
    BY <2>1, <2>2, <2>5
  <2> QED BY <1>10, <1>13, <2>1, <2>5, <2>6
<1>16. \A s \in SeqNums : P(s) < MaxSent /\ AlreadyOutput(s) => AlreadyOutput(s)'
  <2> SUFFICES ASSUME NEW s \in SeqNums, P(s) < MaxSent, AlreadyOutput(s)
               PROVE  AlreadyOutput(s)'
    OBVIOUS
  <2>1. has_output /\ P(s) <= P(last) /\ P(s) \in Int /\ P(last) \in Int
    BY <1>8, <1>13
  <2>2. CASE r = <<>>
    BY <1>10, <1>13, <2>1, <2>2
  <2>3. CASE r # <<>>
    <3>1. P(last) < P(r[Len(r)].seq) /\ has_output' /\ seq_last_output' = r[Len(r)].seq
      BY <1>10, <1>11, <1>14, <2>1, <2>3
    <3>2. P(seq_last_output') \in Int
      BY <1>12, <3>1
    <3>3. P(s) <= P(seq_last_output')
      BY <2>1, <3>1, <3>2
    <3> QED BY <1>13, <3>1, <3>3
  <2> QED BY <2>2, <2>3
<1>17. \A s \in SeqsOf(c) : /\ s \in SeqNums /\ P(s) < MaxSent
                            /\ AlreadyOutput(s) => s \in SeqsOf(output)
                            /\ s \in SeqsOf(rest) \/ AlreadyOutput(s) \/ s \in SeqsOf(r)
  <2> TAKE s \in SeqsOf(c)
  <2>1. PICK j \in 1..n : s = c[j].seq
    BY <1>3
  <2>2. j \in 1..l \/ l < j
    BY <1>4
  <2>3. AlreadyOutput(s) => s \in SeqsOf(output)
    BY DEF IsReady
  <2>4. s \in SeqNums /\ P(s) < MaxSent
    BY <1>3, <2>1 DEF P
  <2> QED BY <1>6, <1>7, <2>1, <2>2, <2>3, <2>4
<1>18. \A s \in SeqsOf(r) : AlreadyOutput(s)' /\ s \in SeqsOf(output')
  BY <1>9, <1>11, <1>15 DEF IsFollowed
<1>19. \A s \in SeqsOf(c) : \/ s \in SeqsOf(rest)
                            \/ AlreadyOutput(s)' /\ s \in SeqsOf(output')
  BY <1>9, <1>16, <1>17, <1>18 DEF IsFollowed
<1>20. StreamOK'
  BY <1>2 DEF StreamOK
<1>21. HeldInv'
  <2>1. IsCache(first_seq, stream, rest)
    <3>1. \A k \in 1..Len(rest) : IsCopy(first_seq, stream, rest[k])
      BY <1>3, <1>5
    <3>2. InStreamOrder(first_seq, rest)
      <4> SUFFICES ASSUME NEW i \in 1..Len(rest), NEW j \in 1..Len(rest), i < j
                   PROVE  Place(first_seq, rest[i].seq) < Place(first_seq, rest[j].seq)
        BY DEF InStreamOrder
      <4>1. i \in 1..(n - l) /\ j \in 1..(n - l) /\ l + i < l + j
        BY <1>4, <1>5
      <4>2. l + i \in 1..n /\ l + j \in 1..n /\ rest[i] = c[l + i] /\ rest[j] = c[l + j]
        BY <1>5, <4>1
      <4> QED BY <1>1, <1>3, <4>1, <4>2 DEF InStreamOrder
    <3> QED BY <1>5, <3>1, <3>2 DEF IsCache
  <2>2. \A k \in 1..Len(rest) : P(rest[k].seq) < upto
    BY <1>3, <1>5 DEF P
  <2>3. \A k \in 1..Len(rest) : P(rest[Len(rest)].seq) - P(rest[k].seq) <= MaxCacheSeqDifference
    <3> TAKE k \in 1..Len(rest)
    <3>1. /\ k \in 1..(n - l) /\ n - l \in 1..(n - l) /\ l + (n - l) = n
          /\ l + k \in (l + 1)..n /\ Len(rest) = n - l
      BY <1>4, <1>5
    <3>2. rest[Len(rest)] = c[n] /\ rest[k] = c[l + k]
      BY <1>5, <3>1
    <3>3. \A i \in (l + 1)..n : P(c[n].seq) - P(c[i].seq) <= MaxCacheSeqDifference
      BY <1>1, <1>4 DEF GivesBack, P
    <3> QED BY <3>1, <3>2, <3>3
  <2>4. \A k \in 1..Len(rest) : \A s \in rest[k].received :
          s \in SeqsOf(rest) \/ AlreadyOutput(s)'
    <3> TAKE k \in 1..Len(rest)
    <3> TAKE s \in rest[k].received
    <3>1. PICK j \in 1..n : rest[k] = c[j]
      BY <1>5
    <3>2. s \in SeqsOf(c) \/ AlreadyOutput(s)
      BY <1>1, <3>1 DEF IsReady, FoundOrGiven
    <3>3. s \in SeqNums /\ P(s) < MaxSent
      <4>1. c[j] \in Packets /\ s \in c[j].protected /\ IsMedia(first_seq, stream, s)
        BY <1>3, <3>1 DEF IsCopy
      <4>2. s \in SeqNums
        BY <4>1 DEF Packets
      <4>3. P(s) + 1 \in 1..Len(stream) /\ P(s) \in Int
        BY <1>2, <4>1, <4>2, PlaceType, SeqSpaceAssumption DEF IsMedia, P
      <4> QED BY <1>2, <4>2, <4>3, SessionAssumption
    <3> QED BY <1>16, <1>19, <3>2, <3>3
  <2>5. \A s \in SeqsOf(rest) : AlreadyOutput(s)' => s \in SeqsOf(output')
    <3> SUFFICES ASSUME NEW s \in SeqsOf(rest), AlreadyOutput(s)' PROVE s \in SeqsOf(output')
      OBVIOUS
    <3>1. PICK j \in 1..n : l < j /\ s = c[j].seq
      BY <1>6
    <3>2. s \in SeqNums /\ P(s) < MaxSent /\ s \in SeqsOf(c)
      <4>1. c[j].seq \in SeqsOf(c)
        BY <1>1, <1>3 DEF SeqsOf
      <4> QED BY <1>17, <3>1, <4>1
    <3>3. has_output' /\ P(s) <= P(seq_last_output')
      BY <1>13, <3>2
    <3>4. CASE r = <<>>
      <4>1. AlreadyOutput(s)
        BY <1>10, <1>13, <3>2, <3>3, <3>4
      <4> QED BY <1>9, <1>17, <3>2, <4>1 DEF IsFollowed
    <3>5. CASE r # <<>>
      <4>1. s \in SeqsOf(r)
        BY <1>7, <1>10, <3>1, <3>3, <3>5
      <4> QED BY <1>18, <4>1
    <3> QED BY <3>4, <3>5
  <2>6. FoundOrGiven(cached_packets)'
    BY <2>4 DEF FoundOrGiven
  <2> QED BY <1>2, <2>1, <2>2, <2>3, <2>5, <2>6 DEF HeldInv, P
<1>22. InStreamOrder(first_seq, output')
  <2> SUFFICES ASSUME NEW i \in 1..Len(output'), NEW j \in 1..Len(output'), i < j
               PROVE  P(output'[i].seq) < P(output'[j].seq)
    BY DEF InStreamOrder, P
  <2>1. /\ i \in 1..Len(output) /\ output'[i] = output[i]
        \/ \E k \in 1..Len(r) : i = Len(output) + k /\ output'[i] = r[k]
    BY <1>9 DEF IsFollowed
  <2>2. /\ j \in 1..Len(output) /\ output'[j] = output[j]
        \/ \E k \in 1..Len(r) : j = Len(output) + k /\ output'[j] = r[k]
    BY <1>9 DEF IsFollowed
  <2>3. PICK m \in Nat : m = Len(output)
    BY <1>8
  <2>4. CASE i \in 1..m /\ j \in 1..m
    <3>1. output'[i] = output[i] /\ output'[j] = output[j]
      BY <2>1, <2>2, <2>3, <2>4
    <3> QED BY <2>3, <2>4, <3>1 DEF InStreamOrder, P
  <2>5. CASE i \in 1..m /\ j \notin 1..m
    <3>1. PICK k \in 1..Len(r) : output'[j] = r[k]
      BY <2>2, <2>3, <2>5
    <3>2. output'[i] = output[i] /\ has_output /\ m \in 1..m /\ (i = m \/ i < m)
      BY <1>8, <2>1, <2>3, <2>5
    <3>3. i < m => P(output[i].seq) < P(output[m].seq)
      BY <2>3, <2>5, <3>2 DEF InStreamOrder, P
    <3>4. P(output[m].seq) < P(r[k].seq)
      BY <1>8, <1>14, <2>3, <3>2
    <3>5. P(output[i].seq) \in Int /\ P(output[m].seq) \in Int /\ P(r[k].seq) \in Int
      <4>1. output[i].seq \in SeqNums /\ output[m].seq \in SeqNums
        BY <1>8, <2>3, <2>5, <3>2 DEF IsCopy, Packets
      <4>2. PICK q \in 1..n : r[k] = c[q]
        BY <1>7
      <4>3. r[k].seq \in SeqNums
        BY <1>3, <4>2
      <4>4. \A s \in SeqNums : P(s) \in Int
        BY <1>2, PlaceType, SeqSpaceAssumption DEF P
      <4> QED BY <4>1, <4>3, <4>4
    <3> QED BY <3>1, <3>2, <3>3, <3>4, <3>5
  <2>6. CASE i \notin 1..m /\ j \notin 1..m
    <3>1. PICK k \in 1..Len(r) : i = m + k /\ output'[i] = r[k]
      BY <2>1, <2>3, <2>6
    <3>2. PICK q \in 1..Len(r) : j = m + q /\ output'[j] = r[q]
      BY <2>2, <2>3, <2>6
    <3>3. k < q
      BY <3>1, <3>2
    <3> QED BY <1>7, <3>1, <3>2, <3>3 DEF InStreamOrder, P
  <2>7. i \notin 1..m => j \notin 1..m
    <3>1. i \in Nat /\ j \in Nat /\ 1 <= i
      OBVIOUS
    <3> QED BY <3>1
  <2> QED BY <2>4, <2>5, <2>6, <2>7
<1>23. GivenInv'
  <2>1. \A i \in 1..Len(output') : IsCopy(first_seq, stream, output'[i])
    <3> TAKE i \in 1..Len(output')
    <3>1. \/ i \in 1..Len(output) /\ output'[i] = output[i]
          \/ \E k \in 1..Len(r) : i = Len(output) + k /\ output'[i] = r[k]
      BY <1>9 DEF IsFollowed
    <3> QED BY <1>3, <1>7, <1>8, <3>1
  <2>2. has_output' <=> output' # <<>>
    BY <1>8, <1>9, <1>10 DEF IsFollowed
  <2>3. has_output' => seq_last_output' = output'[Len(output')].seq
    BY <1>8, <1>9, <1>10 DEF IsFollowed
  <2>4. arrived' \subseteq SeqsOf(output') \cup SeqsOf(rest)
    <3>1. \A s \in SeqsOf(output) : s \in SeqsOf(output')
      BY <1>9 DEF IsFollowed
    <3>2. \A s \in SeqsOf(cached_packets) : s \in SeqsOf(c)
      BY DEF IsReady
    <3>3. \A s \in SeqsOf(batch) : s \in SeqsOf(c)
      BY DEF IsReady, IsBatch, SeqsOf
    <3> QED BY <1>8, <1>19, <3>1, <3>2, <3>3
  <2>5. output' \in Seq(Packets)
    BY <1>9 DEF IsFollowed
  <2> QED BY <1>2, <1>12, <1>22, <2>1, <2>2, <2>3, <2>4, <2>5 DEF GivenInv, P
<1> QED BY <1>2, <1>20, <1>21, <1>22, <1>23

\* A step Deliver keeps the invariant and the order of the output.
LEMMA DeliverKeeps ==
  ASSUME FecInv, NEW upto \in (passed + 1)..Len(stream), NEW lost, Deliver(upto, lost)
  PROVE  FecInv' /\ InStreamOrder(first_seq, output)'
<1> DEFINE batch == BatchOf(upto, lost)
<1>1. StreamOK /\ BlockOK /\ nb_blocks \in Nat /\ HeldInv /\ GivenInv
  BY DEF FecInv
<1>2. /\ batch # <<>> /\ Decode(batch) /\ passed' = upto
      /\ arrived' = arrived \cup SeqsOf(batch)
      /\ UNCHANGED <<first_seq, stream, block, nb_blocks>>
  BY DEF Deliver, BatchOf
<1>3. /\ IsBatch(batch)
      /\ \A j \in 1..Len(batch) : Place(first_seq, batch[j].seq) < upto /\ batch[j].received = {}
  BY <1>1, BatchFacts
<1> HIDE DEF batch
<1>4. upto \in passed..Len(stream) /\ passed # Len(stream)
  BY <1>1 DEF StreamOK
<1>5. InStreamOrder(first_seq, output)
  BY <1>1, <1>4 DEF GivenInv, StreamEnded
<1>6. PICK c, left, r : IsReady(batch, upto, c) /\ GivesBack(c, left, r)
  BY <1>1, <1>2, <1>3, <1>4, DecodeFacts
<1>7. StreamOK' /\ HeldInv' /\ GivenInv' /\ InStreamOrder(first_seq, output)'
  BY <1>1, <1>2, <1>3, <1>4, <1>5, <1>6, GivesBackKeeps
<1>8. BlockOK' /\ nb_blocks' \in Nat
  BY <1>1, <1>2 DEF BlockOK
<1> QED BY <1>7, <1>8 DEF FecInv

\* The end of the stream keeps the invariant: what is held goes out once more.
LEMMA EndStreamKeeps ==
  ASSUME FecInv, EndStream
  PROVE  FecInv'
<1>1. StreamOK /\ BlockOK /\ nb_blocks \in Nat /\ HeldInv /\ GivenInv
  BY DEF FecInv
<1>2. /\ cached_packets # <<>> /\ cached_packets' = <<>>
      /\ output' = output \o cached_packets
      /\ has_output' = TRUE /\ seq_last_output' = Last(cached_packets).seq
      /\ UNCHANGED <<first_seq, stream, block, nb_blocks, passed, arrived, nb_lost>>
      /\ StreamEnded
  BY DEF EndStream, Flush, sessionVars, StreamEnded
<1>3. StreamOK' /\ BlockOK' /\ nb_blocks' \in Nat /\ StreamEnded'
  BY <1>1, <1>2 DEF StreamOK, BlockOK, StreamEnded
<1>4. /\ IsCache(first_seq, stream, cached_packets) /\ cached_packets \in Seq(Packets)
      /\ \A i \in 1..Len(cached_packets) : /\ IsCopy(first_seq, stream, cached_packets[i])
                                           /\ Place(first_seq, cached_packets[i].seq) < passed
  BY <1>1 DEF HeldInv, IsCache
<1>5. PICK n \in Nat : n = Len(cached_packets) /\ n >= 1 /\ n \in 1..n
  BY <1>2, <1>4
<1>6. /\ first_seq \in SeqNums /\ stream \in Seq(Packets) /\ Len(stream) <= MaxSent
  BY <1>1 DEF StreamOK
<1>7. HeldInv'
  <2>1. Len(<<>>) = 0 /\ 1..0 = {} /\ SeqsOf(<<>>) = {} /\ <<>> \in Seq(Packets)
    BY DEF SeqsOf
  <2>2. IsCache(first_seq, stream, <<>>)
    BY <2>1 DEF IsCache, InStreamOrder
  <2>3. IsCache(first_seq, stream, cached_packets)'
    BY <1>2, <2>2
  <2>4. FoundOrGiven(cached_packets)'
    BY <1>2, <2>1 DEF FoundOrGiven
  <2>5. SeqsOf(cached_packets)' = {} /\ 1..Len(cached_packets') = {}
    BY <1>2, <2>1
  <2> QED BY <2>3, <2>4, <2>5 DEF HeldInv
<1>8. GivenInv'
  <2>1. IsFollowed(output', output, cached_packets)
    BY <1>1, <1>2, <1>4, FollowedFacts DEF GivenInv
  <2>2. Last(cached_packets) = cached_packets[n]
    BY <1>5 DEF Last
  <2>3. cached_packets[n].seq \in SeqNums
    BY <1>4, <1>5 DEF IsCopy, Packets
  <2>4. \A i \in 1..Len(output') : IsCopy(first_seq, stream, output'[i])
    <3> TAKE i \in 1..Len(output')
    <3>1. \/ i \in 1..Len(output) /\ output'[i] = output[i]
          \/ \E k \in 1..Len(cached_packets) :
               i = Len(output) + k /\ output'[i] = cached_packets[k]
      BY <2>1 DEF IsFollowed
    <3>2. \A k \in 1..Len(output) : IsCopy(first_seq, stream, output[k])
      BY <1>1 DEF GivenInv
    <3> QED BY <1>4, <3>1, <3>2
  <2>5. output' # <<>> /\ output'[Len(output')] = cached_packets[n]
    BY <1>2, <1>5, <2>1 DEF IsFollowed
  <2>6. Place(first_seq, cached_packets[n].seq) < passed
    BY <1>4, <1>5
  <2>7. arrived \subseteq SeqsOf(output')
    <3>1. arrived \subseteq SeqsOf(output) \cup SeqsOf(cached_packets)
      BY <1>1 DEF GivenInv
    <3>2. \A s : s \in SeqsOf(output') <=> s \in SeqsOf(output) \/ s \in SeqsOf(cached_packets)
      BY <2>1 DEF IsFollowed
    <3> QED BY <3>1, <3>2
  <2>8. output' \in Seq(Packets)
    BY <2>1 DEF IsFollowed
  <2> QED BY <1>2, <1>3, <2>2, <2>3, <2>4, <2>5, <2>6, <2>7, <2>8 DEF GivenInv
<1> QED BY <1>3, <1>7, <1>8 DEF FecInv
-----------------------------------------------------------------------------
(* Sending *)

\* The number of FEC packets is a number.
LEMMA NumFecPacketsType ==
  ASSUME NEW media \in Nat, NEW factor \in Nat
  PROVE  NumFecPackets(media, factor) \in Nat
<1>1. PICK b \in Nat : b = media * factor
  OBVIOUS
<1>2. (b + 128) \div 256 \in Nat
  OBVIOUS
<1> QED BY <1>1, <1>2 DEF NumFecPackets

\* The groups of a block are sets of numbers of bits of a row.
LEMMA GroupsType ==
  ASSUME NEW mask, NEW media \in Nat, NEW n \in Nat
  PROVE  GenerateFecPackets(mask, media, n) \in Seq(SUBSET (0..47))
<1>1. PacketMaskSize(media) \in {2, 6}
  BY DEF PacketMaskSize, kUlpfecPacketMaskSizeLBitSet, kUlpfecPacketMaskSizeLBitClear
<1>2. \A size \in {2, 6} : \A row : Row(mask, size, row) \in SUBSET (0..47)
  BY DEF Row
<1>3. GenerateFecPackets(mask, media, n) \in [1..n -> SUBSET (0..47)]
  BY <1>1, <1>2 DEF GenerateFecPackets
<1>4. \A S : [1..n -> S] \subseteq Seq(S)
  OBVIOUS
<1> QED BY <1>3, <1>4

\* Encoding a block keeps the invariant.
LEMMA EncodeBlockKeeps ==
  ASSUME FecInv, NEW call, EncodeBlock(call)
  PROVE  FecInv'
<1> DEFINE answer == Encode(call.media, call.important, call.method, call.factor, call.type)
           n == NumFecPackets(call.media, call.factor)
           mask == GeneratePacketMasks(call.media, n, call.important, call.method, call.type)
<1>1. /\ nb_blocks < Len(Calls) /\ call \in Calls[nb_blocks + 1] /\ answer.ok
      /\ block' = [call |-> call, media |-> call.media, groups |-> answer.groups]
      /\ nb_blocks' = nb_blocks + 1
      /\ UNCHANGED <<first_seq, stream, passed, arrived, nb_lost, decoderVars>>
  BY DEF EncodeBlock
<1>2. StreamOK /\ nb_blocks \in Nat /\ HeldInv /\ GivenInv
  BY DEF FecInv
<1>3. call.media \in Nat /\ call.factor \in Nat
  <2>1. nb_blocks + 1 \in 1..Len(Calls)
    BY <1>1, <1>2, SessionAssumption
  <2>2. Calls[nb_blocks + 1] \in SUBSET [media : Nat, important : Nat, method : Methods,
                                          factor : 0..255, type : MaskTypes]
    BY <2>1, SessionAssumption, ElementOfSeq
  <2>3. call \in [media : Nat, important : Nat, method : Methods,
                  factor : 0..255, type : MaskTypes]
    BY <1>1, <2>2
  <2> QED BY <2>3
<1>4. /\ call.media \in 1..48
      /\ answer.groups = GenerateFecPackets(mask, call.media, n)
  BY <1>1 DEF Encode, kUlpfecMaxMediaPackets
<1>5. answer.groups \in Seq(SUBSET (0..47))
  <2>1. n \in Nat
    BY <1>3, NumFecPacketsType
  <2> HIDE DEF n, mask, answer
  <2> QED BY <1>3, <1>4, <2>1, GroupsType
<1>6. BlockOK' /\ nb_blocks' \in Nat
  BY <1>1, <1>2, <1>4, <1>5 DEF BlockOK
<1>7. StreamOK' /\ HeldInv'
  BY <1>1, <1>2 DEF StreamOK, HeldInv, FoundOrGiven, AlreadyOutput, decoderVars
<1>8. InStreamOrder(first_seq, output)
  BY <1>1, <1>2 DEF GivenInv, StreamEnded
<1>9. GivenInv'
  BY <1>1, <1>2, <1>8 DEF GivenInv, decoderVars
<1> QED BY <1>6, <1>7, <1>9 DEF FecInv

\* The header of a FEC packet names the packets of its group and no other.
LEMMA HeaderNamesGroup ==
  ASSUME NEW first \in Int, NEW group, group # {}, group \subseteq 0..47
  PROVE  LET header == BuildFecPacket(group)
         IN  DecodeFecInfo((first + header.seq_base) % SeqSpace, header.l, header.mask)
             = {(first + i) % SeqSpace : i \in group}
<1> DEFINE header == BuildFecPacket(group)
           named == DecodeFecInfo((first + header.seq_base) % SeqSpace, header.l, header.mask)
           l == NeedsLongMask(Max(group) - Min(group) + 1)
           width == IF l THEN 47 ELSE 15
<1>1. PICK g \in group : g = Min(group) /\ \A i \in group : g <= i
  <2>1. group \in SUBSET Nat
    OBVIOUS
  <2> QED BY <2>1, MinFacts
<1>2. PICK h \in group : h = Max(group) /\ \A i \in group : i <= h
  <2>1. group \in SUBSET (0..47)
    OBVIOUS
  <2> QED BY <2>1, MaxFacts
<1>3. /\ header.seq_base = g /\ header.l = l
      /\ header.mask = {i - g : i \in group} \cap 0..width
  BY <1>1 DEF BuildFecPacket
<1>4. \A i \in group : i - g \in 0..width
  <2> TAKE i \in group
  <2>1. i \in 0..47 /\ g \in 0..47 /\ h \in 0..47 /\ g <= i /\ i <= h
    BY <1>1, <1>2
  <2>2. CASE l
    BY <2>1, <2>2
  <2>3. CASE ~l
    <3>1. h - g + 1 <= 16
      BY <1>1, <1>2, <2>1, <2>3 DEF NeedsLongMask, kUlpfecPacketMaskSizeLBitClear
    <3> QED BY <2>1, <2>3, <3>1
  <2> QED BY <2>2, <2>3
<1>5. named = {(SeqAt(first + g) + i) % SeqSpace : i \in header.mask \cap 0..width}
  BY <1>3 DEF DecodeFecInfo, SeqAt
<1> HIDE DEF width, l, named
<1>6. \A i : i \in header.mask \cap 0..width <=> \E j \in group : i = j - g
  BY <1>3, <1>4
<1> HIDE DEF header
<1>7. \A j \in group : (SeqAt(first + g) + (j - g)) % SeqSpace = (first + j) % SeqSpace
  <2> TAKE j \in group
  <2>1. j \in Int /\ g \in Int /\ (first + g) + (j - g) = first + j
    OBVIOUS
  <2>2. SeqAt(SeqAt(first + g) + (j - g)) = SeqAt((first + g) + (j - g))
    BY <2>1, SeqAtOfSum
  <2> QED BY <2>1, <2>2 DEF SeqAt
<1>8. named = {(first + j) % SeqSpace : j \in group}
  BY <1>5, <1>6, <1>7
<1> QED BY <1>8 DEF named, header

\* The packet p of the stream at the given place.
IsSentAt(first, p, place) ==
  p \in Packets /\ Place(first, p.seq) = place /\ p.received = {}

\* The media packets of a block.
LEMMA MediaPacketFacts ==
  ASSUME NEW first \in SeqNums, NEW len \in Nat, NEW i \in Nat, len + i < MaxSent
  PROVE  LET p == MediaPacket(SeqAt(first + len), i)
         IN  /\ IsSentAt(first, p, len + i) /\ ~p.fec /\ p.payload = {p.seq}
             /\ p.protected = {}
<1> DEFINE s == (SeqAt(first + len) + i) % SeqSpace
           p == MediaPacket(SeqAt(first + len), i)
<1>1. first \in Int /\ (first + len) + i = first + (len + i)
  BY SeqSpaceAssumption DEF SeqNums
<1>2. len + i < SeqSpace /\ len + i \in Nat
  BY HalfRangeBounds, DifferenceAssumption, SessionAssumption, SeqSpaceAssumption
<1>3. s = SeqAt(first + (len + i))
  <2>1. SeqAt(SeqAt(first + len) + i) = SeqAt((first + len) + i)
    BY <1>1, SeqAtOfSum
  <2> QED BY <1>1, <2>1 DEF SeqAt
<1>4. s \in SeqNums /\ Place(first, s) = len + i
  BY <1>2, <1>3, PlaceOfPosition
<1> HIDE DEF s
<1>5. p = [seq |-> s, fec |-> FALSE, payload |-> {s},
           protected |-> {}, received |-> {}, invalid |-> FALSE]
  BY DEF MediaPacket, s
<1> HIDE DEF p
<1>6. p \in Packets
  BY <1>4, <1>5 DEF Packets
<1>7. IsSentAt(first, p, len + i) /\ ~p.fec /\ p.payload = {p.seq} /\ p.protected = {}
  BY <1>4, <1>5, <1>6 DEF IsSentAt
<1> QED BY <1>7 DEF p

\* p is the k-th FEC packet of a block whose first packet is at place len.
IsFecSentAt(p, first, len, media, k) ==
  /\ IsSentAt(first, p, len + media + k - 1) /\ p.fec /\ p.payload = p.protected
  /\ \A s \in p.protected : s \in SeqNums
                            /\ \E i \in 0..(media - 1) : Place(first, s) = len + i

\* The FEC packets of a block.
LEMMA FecPacketFacts ==
  ASSUME NEW first \in SeqNums, NEW len \in Nat, NEW media \in 1..48, NEW groups,
         NEW k \in Nat, k >= 1, len + media + k - 1 < MaxSent,
         groups[k] # {}, groups[k] \subseteq 0..(media - 1)
  PROVE  IsFecSentAt(FecPacket(SeqAt(first + len), media, groups, k), first, len, media, k)
<1> DEFINE at == SeqAt(first + len)
           p == FecPacket(at, media, groups, k)
           s == (at + media + k - 1) % SeqSpace
           names == {(at + i) % SeqSpace : i \in groups[k]}
<1>1. first \in Int /\ at \in Int
  BY SeqAtType, SeqSpaceAssumption DEF SeqNums
<1>2. \A d \in Nat : len + d < MaxSent =>
        (at + d) % SeqSpace \in SeqNums /\ Place(first, (at + d) % SeqSpace) = len + d
  <2> SUFFICES ASSUME NEW d \in Nat, len + d < MaxSent
               PROVE  (at + d) % SeqSpace \in SeqNums /\ Place(first, (at + d) % SeqSpace) = len + d
    OBVIOUS
  <2>1. (first + len) + d = first + (len + d)
    BY <1>1
  <2>2. len + d < SeqSpace /\ len + d \in Nat
    BY HalfRangeBounds, DifferenceAssumption, SessionAssumption, SeqSpaceAssumption
  <2>3. (at + d) % SeqSpace = SeqAt(first + (len + d))
    <3>1. SeqAt(at + d) = SeqAt((first + len) + d)
      BY <1>1, SeqAtOfSum
    <3> QED BY <2>1, <3>1 DEF SeqAt
  <2> QED BY <2>2, <2>3, PlaceOfPosition
<1>3. s \in SeqNums /\ Place(first, s) = len + media + k - 1
  <2>1. PICK d \in Nat : d = media + k - 1
    OBVIOUS
  <2>2. len + d < MaxSent /\ at + d = at + media + k - 1 /\ len + d = len + media + k - 1
    BY <1>1, <2>1
  <2> QED BY <1>2, <2>1, <2>2
<1>4. \A x \in names : x \in SeqNums /\ \E i \in 0..(media - 1) : Place(first, x) = len + i
  <2> TAKE x \in names
  <2>1. PICK i \in groups[k] : x = (at + i) % SeqSpace
    OBVIOUS
  <2>2. i \in 0..(media - 1) /\ i \in Nat /\ len + i < MaxSent
    <3>1. i \in 0..(media - 1)
      OBVIOUS
    <3> QED BY <3>1, SessionAssumption
  <2> QED BY <1>2, <2>1, <2>2
<1>5. LET header == BuildFecPacket(groups[k])
      IN  DecodeFecInfo((at + header.seq_base) % SeqSpace, header.l, header.mask) = names
  <2>1. groups[k] \subseteq 0..47
    OBVIOUS
  <2> QED BY <1>1, <2>1, HeaderNamesGroup
<1>6. p = [seq |-> s, fec |-> TRUE, payload |-> names, protected |-> names,
           received |-> {}, invalid |-> FALSE]
  BY <1>5 DEF FecPacket
<1> HIDE DEF s, names, p, at
<1>7. names \in SUBSET SeqNums
  BY <1>4
<1>8. p \in Packets
  BY <1>3, <1>6, <1>7 DEF Packets
<1>9. IsFecSentAt(p, first, len, media, k)
  BY <1>3, <1>4, <1>6, <1>8 DEF IsSentAt, IsFecSentAt
<1> QED BY <1>9 DEF p, at

\* A copy of a packet stays one when the stream goes on.
LEMMA CopyOfLonger ==
  ASSUME NEW first, NEW sent \in Seq(Packets), NEW longer \in Seq(Packets),
         \A i \in 1..Len(sent) : i \in 1..Len(longer) /\ longer[i] = sent[i],
         NEW p, IsCopy(first, sent, p)
  PROVE  IsCopy(first, longer, p)
  BY DEF IsCopy, IsMedia

\* The stream t is sent with the packets of a block behind it.
IsLonger(t, sent, media, fecs) ==
  /\ t \in Seq(Packets) /\ Len(t) = Len(sent) + media + fecs
  /\ \A i \in 1..Len(sent) : i \in 1..Len(t) /\ t[i] = sent[i]
  /\ \A j \in 1..media : Len(sent) + j \in 1..Len(t)
  /\ \A i \in 1..Len(t) : \/ i \in 1..Len(sent)
                          \/ \E j \in 1..media : i = Len(sent) + j
                          \/ \E k \in 1..fecs : i = Len(sent) + media + k

\* The list that SendBlock puts together is of that form.
LEMMA LongerFacts ==
  ASSUME NEW sent \in Seq(Packets), NEW media \in Nat, NEW fecs \in Nat,
         NEW A \in [1..media -> Packets], NEW B \in [1..fecs -> Packets]
  PROVE  /\ IsLonger(sent \o A \o B, sent, media, fecs)
         /\ \A j \in 1..media : (sent \o A \o B)[Len(sent) + j] = A[j]
         /\ \A k \in 1..fecs : (sent \o A \o B)[Len(sent) + media + k] = B[k]
<1> DEFINE u == sent \o A
           t == u \o B
<1>1. PICK n \in Nat : n = Len(sent)
  OBVIOUS
<1>2. A \in Seq(Packets) /\ Len(A) = media /\ B \in Seq(Packets) /\ Len(B) = fecs
  OBVIOUS
<1>3. IsFollowed(u, sent, A)
  BY <1>2, FollowedFacts
<1> HIDE DEF u
<1>4. IsFollowed(t, u, B)
  BY <1>2, <1>3, FollowedFacts DEF IsFollowed
<1> HIDE DEF t
<1>5. /\ u \in Seq(Packets) /\ Len(u) = n + media
      /\ \A i \in 1..n : i \in 1..Len(u) /\ u[i] = sent[i]
      /\ \A j \in 1..media : n + j \in 1..Len(u) /\ u[n + j] = A[j]
      /\ \A i \in 1..Len(u) : i \in 1..n \/ \E j \in 1..media : i = n + j
  BY <1>1, <1>2, <1>3 DEF IsFollowed
<1>6. /\ t \in Seq(Packets) /\ Len(t) = n + media + fecs
      /\ \A i \in 1..Len(u) : i \in 1..Len(t) /\ t[i] = u[i]
      /\ \A k \in 1..fecs : t[n + media + k] = B[k]
      /\ \A i \in 1..Len(t) : i \in 1..Len(u) \/ \E k \in 1..fecs : i = n + media + k
  BY <1>2, <1>4, <1>5 DEF IsFollowed
<1>7. \A i \in 1..n : i \in 1..Len(t) /\ t[i] = sent[i]
  BY <1>5, <1>6
<1>8. \A j \in 1..media : n + j \in 1..Len(t) /\ t[n + j] = A[j]
  BY <1>5, <1>6
<1>9. \A i \in 1..Len(t) : \/ i \in 1..n
                           \/ \E j \in 1..media : i = n + j
                           \/ \E k \in 1..fecs : i = n + media + k
  BY <1>5, <1>6
<1>10. IsLonger(t, sent, media, fecs)
  BY <1>1, <1>6, <1>7, <1>8, <1>9 DEF IsLonger
<1> QED BY <1>1, <1>6, <1>8, <1>10 DEF t, u

\* Sending a block keeps the invariant when its masks name packets of the block.
LEMMA SendBlockKeeps ==
  ASSUME FecInv, MaskNamesBlock, SendBlock
  PROVE  FecInv'
<1> DEFINE at == SeqOfPacket(Len(stream) + 1)
           m == block.media
           q == Len(block.groups)
           A == [i \in 1..m |-> MediaPacket(at, i - 1)]
           B == [k \in 1..q |-> FecPacket(at, m, block.groups, k)]
           t == stream'
<1>1. StreamOK /\ BlockOK /\ nb_blocks \in Nat /\ HeldInv /\ GivenInv
  BY DEF FecInv
<1>2. /\ block # NoBlock /\ Len(stream) + m + q <= MaxSent /\ t = stream \o A \o B
      /\ block' = NoBlock
      /\ UNCHANGED <<first_seq, nb_blocks, passed, arrived, nb_lost, decoderVars>>
  BY DEF SendBlock
<1>3. PICK n \in Nat : n = Len(stream)
  BY <1>1 DEF StreamOK
<1>4. /\ m \in 1..48 /\ m \in Nat /\ q \in Nat /\ DOMAIN block.groups = 1..q
      /\ first_seq \in SeqNums /\ stream \in Seq(Packets) /\ passed \in 0..n
      /\ \A i \in 1..n : /\ Place(first_seq, stream[i].seq) = i - 1
                         /\ IsCopy(first_seq, stream, stream[i]) /\ stream[i].received = {}
  <2>1. m \in 1..48 /\ block.groups \in Seq(SUBSET (0..47))
    BY <1>1, <1>2 DEF BlockOK
  <2>2. q \in Nat /\ DOMAIN block.groups = 1..q
    BY <2>1
  <2> HIDE DEF m, q
  <2>3. m \in Nat
    BY <2>1
  <2> QED BY <1>1, <1>3, <2>1, <2>2, <2>3 DEF StreamOK
<1>5. at = SeqAt(first_seq + n)
  <2>1. first_seq + (n + 1) - 1 = first_seq + n
    BY <1>4, SeqSpaceAssumption DEF SeqNums
  <2> QED BY <1>3, <2>1 DEF SeqOfPacket, SeqAt
<1>6. \A k \in 1..q : block.groups[k] # {} /\ block.groups[k] \subseteq 0..(m - 1)
  BY <1>4 DEF MaskNamesBlock
<1>7. n + m + q <= MaxSent /\ MaxSent \in Nat
  BY <1>2, <1>3, SessionAssumption
<1> HIDE DEF m, q, at
<1>8. \A j \in 1..m : /\ A[j] \in Packets /\ A[j].received = {} /\ ~A[j].fec
                      /\ Place(first_seq, A[j].seq) = n + j - 1
                      /\ A[j].payload = {A[j].seq} /\ A[j].protected = {}
  <2> TAKE j \in 1..m
  <2>1. PICK i \in Nat : i = j - 1 /\ n + i < MaxSent /\ n + i = n + j - 1
    BY <1>4, <1>7
  <2>2. A[j] = MediaPacket(SeqAt(first_seq + n), i)
    BY <1>5, <2>1
  <2> QED BY <1>4, <2>1, <2>2, MediaPacketFacts DEF IsSentAt
<1>9. \A k \in 1..q :
        /\ B[k] \in Packets /\ B[k].received = {} /\ B[k].fec
        /\ Place(first_seq, B[k].seq) = n + m + k - 1
        /\ B[k].payload = B[k].protected
        /\ \A s \in B[k].protected : \E i \in 0..(m - 1) : Place(first_seq, s) = n + i
  <2> TAKE k \in 1..q
  <2>1. k \in Nat /\ k >= 1 /\ n + m + k - 1 < MaxSent
    BY <1>4, <1>7
  <2>2. B[k] = FecPacket(SeqAt(first_seq + n), m, block.groups, k)
    BY <1>5
  <2>3. block.groups[k] # {} /\ block.groups[k] \subseteq 0..(m - 1)
    BY <1>6
  <2>4. PICK p : p = FecPacket(SeqAt(first_seq + n), m, block.groups, k)
    OBVIOUS
  <2>5. IsFecSentAt(p, first_seq, n, m, k)
    <3>1. \A g : g[k] # {} /\ g[k] \subseteq 0..(m - 1) =>
                  IsFecSentAt(FecPacket(SeqAt(first_seq + n), m, g, k), first_seq, n, m, k)
      BY <1>4, <2>1, FecPacketFacts
    <3> QED BY <2>3, <2>4, <3>1
  <2>6. B[k] = p
    BY <2>2, <2>4
  <2> HIDE DEF B
  <2> QED BY <2>5, <2>6 DEF IsSentAt, IsFecSentAt
<1>10. A \in [1..m -> Packets] /\ B \in [1..q -> Packets]
  BY <1>8, <1>9
<1> HIDE DEF A, B
<1>11. /\ IsLonger(t, stream, m, q)
       /\ \A j \in 1..m : t[n + j] = A[j]
       /\ \A k \in 1..q : t[n + m + k] = B[k]
  <2> DEFINE u == stream \o A \o B
  <2>1. /\ IsLonger(u, stream, m, q)
        /\ \A j \in 1..m : u[Len(stream) + j] = A[j]
        /\ \A k \in 1..q : u[Len(stream) + m + k] = B[k]
    BY <1>4, <1>10, LongerFacts, ZenonT(60)
  <2>2. t = u
    BY <1>2
  <2> HIDE DEF t, u
  <2> QED BY <1>3, <2>1, <2>2
<1>12. /\ t \in Seq(Packets) /\ Len(t) = n + m + q
       /\ \A i \in 1..n : i \in 1..Len(t) /\ t[i] = stream[i]
       /\ \A j \in 1..m : n + j \in 1..Len(t)
       /\ \A i \in 1..Len(t) : \/ i \in 1..n
                               \/ \E j \in 1..m : i = n + j
                               \/ \E k \in 1..q : i = n + m + k
  BY <1>3, <1>11 DEF IsLonger
<1> HIDE DEF t
<1>13. \A p : IsCopy(first_seq, stream, p) => IsCopy(first_seq, t, p)
  BY <1>3, <1>4, <1>12, CopyOfLonger
<1>14. ASSUME NEW i \in 1..Len(t)
       PROVE  /\ Place(first_seq, t[i].seq) = i - 1
              /\ IsCopy(first_seq, t, t[i]) /\ t[i].received = {}
  <2>1. CASE i \in 1..n
    BY <1>4, <1>12, <1>13, <2>1
  <2>2. CASE \E j \in 1..m : i = n + j
    <3>1. PICK j \in 1..m : i = n + j
      BY <2>2
    <3>2. t[i] = A[j]
      BY <1>11, <3>1
    <3>3. Place(first_seq, t[i].seq) = i - 1 /\ (i - 1) + 1 = i
      BY <1>8, <3>1, <3>2
    <3>4. IsCopy(first_seq, t, t[i])
      BY <1>8, <3>2, <3>3 DEF IsCopy
    <3> QED BY <1>8, <3>2, <3>3, <3>4
  <2>3. CASE \E k \in 1..q : i = n + m + k
    <3>1. PICK k \in 1..q : i = n + m + k
      BY <2>3
    <3>2. t[i] = B[k]
      BY <1>11, <3>1
    <3>3. Place(first_seq, t[i].seq) = i - 1 /\ (i - 1) + 1 = i
      <4>1. Place(first_seq, B[k].seq) = n + m + k - 1
        BY <1>9
      <4>2. n + m + k - 1 = i - 1 /\ (i - 1) + 1 = i
        BY <1>4, <3>1
      <4> QED BY <3>2, <4>1, <4>2
    <3>4. \A s \in B[k].protected : IsMedia(first_seq, t, s)
      <4> TAKE s \in B[k].protected
      <4>1. PICK d \in 0..(m - 1) : Place(first_seq, s) = n + d
        BY <1>9
      <4>2. d + 1 \in 1..m /\ Place(first_seq, s) + 1 = n + (d + 1)
        <5>1. m \in Nat
          BY <1>4
        <5> QED BY <4>1, <5>1
      <4>3. ~A[d + 1].fec /\ t[n + (d + 1)] = A[d + 1] /\ n + (d + 1) \in 1..Len(t)
        BY <1>8, <1>11, <1>12, <4>2
      <4> QED BY <4>2, <4>3 DEF IsMedia
    <3>5. IsCopy(first_seq, t, t[i])
      BY <1>9, <3>2, <3>3, <3>4 DEF IsCopy
    <3> QED BY <1>9, <3>2, <3>3, <3>5
  <2> QED BY <1>12, <2>1, <2>2, <2>3
<1>15. /\ first_seq' = first_seq /\ stream' = t /\ passed' = passed /\ arrived' = arrived
       /\ nb_blocks' = nb_blocks /\ cached_packets' = cached_packets /\ output' = output
       /\ has_output' = has_output /\ seq_last_output' = seq_last_output
  BY <1>2 DEF decoderVars, t
<1>16. StreamOK'
  <2>1. passed \in 0..Len(t) /\ Len(t) <= MaxSent
    BY <1>4, <1>7, <1>12
  <2> QED BY <1>4, <1>12, <1>14, <1>15, <2>1 DEF StreamOK
<1>17. HeldInv'
  <2>1. IsCache(first_seq, t, cached_packets)
    BY <1>1, <1>13 DEF HeldInv, IsCache
  <2> QED BY <1>1, <1>15, <2>1 DEF HeldInv, FoundOrGiven, AlreadyOutput
<1>18. GivenInv'
  <2>1. InStreamOrder(first_seq, output)
    BY <1>1, <1>2 DEF GivenInv, StreamEnded
  <2>2. \A i \in 1..Len(output) : IsCopy(first_seq, t, output[i])
    BY <1>1, <1>13 DEF GivenInv
  <2> QED BY <1>1, <1>15, <2>1, <2>2 DEF GivenInv
<1> QED BY <1>1, <1>2, <1>15, <1>16, <1>17, <1>18 DEF FecInv, BlockOK
-----------------------------------------------------------------------------
(* The theorems *)

\* The invariant holds at the start.
LEMMA FecInvInit == Init => FecInv
<1> SUFFICES ASSUME Init PROVE FecInv
  OBVIOUS
<1>1. /\ first_seq \in SeqNums /\ stream = <<>> /\ block = NoBlock /\ nb_blocks = 0
      /\ passed = 0 /\ arrived = {} /\ cached_packets = <<>> /\ output = <<>>
      /\ has_output = FALSE /\ seq_last_output = 0
  BY SessionAssumption DEF Init, DecoderInit
<1>2. Len(<<>>) = 0 /\ 1..0 = {} /\ SeqsOf(<<>>) = {} /\ <<>> \in Seq(Packets)
  BY DEF SeqsOf
<1>3. StreamOK /\ BlockOK /\ nb_blocks \in Nat
  BY <1>1, <1>2, SessionAssumption DEF StreamOK, BlockOK
<1>4. HeldInv
  BY <1>1, <1>2 DEF HeldInv, IsCache, InStreamOrder, FoundOrGiven
<1>5. GivenInv
  <2>1. 0 \in SeqNums
    BY SeqSpaceAssumption DEF SeqNums
  <2> QED BY <1>1, <1>2, <2>1 DEF GivenInv, InStreamOrder
<1> QED BY <1>3, <1>4, <1>5 DEF FecInv

\* Every step keeps it while the masks name packets of their blocks.
LEMMA FecInvNext == FecInv /\ MaskNamesBlock /\ [Next]_vars => FecInv'
<1> SUFFICES ASSUME FecInv, MaskNamesBlock, [Next]_vars PROVE FecInv'
  OBVIOUS
<1>1. ASSUME NEW call, EncodeBlock(call) PROVE FecInv'
  BY <1>1, EncodeBlockKeeps
<1>2. CASE SendBlock
  BY <1>2, SendBlockKeeps
<1>3. ASSUME NEW upto \in (passed + 1)..Len(stream), NEW lost, Deliver(upto, lost)
      PROVE  FecInv'
  BY <1>3, DeliverKeeps
<1>4. CASE EndStream
  BY <1>4, EndStreamKeeps
<1>5. CASE UNCHANGED vars
  BY <1>5 DEF vars, sessionVars, decoderVars, FecInv, StreamOK, BlockOK, HeldInv, GivenInv,
              FoundOrGiven, AlreadyOutput, StreamEnded
<1> QED BY <1>1, <1>2, <1>3, <1>4, <1>5 DEF Next

\* The inductive invariant of the decoder, whatever is lost and however the
\* stream is cut into batches.
THEOREM FecInvariant == Spec /\ []MaskNamesBlock => []FecInv
<1>1. Init => FecInv
  BY FecInvInit
<1>2. FecInv /\ MaskNamesBlock /\ [Next]_vars => FecInv'
  BY FecInvNext
<1> QED BY <1>1, <1>2, PTL DEF Spec

\* No packet is recovered with other bytes than were sent (RcoverPackets).
THEOREM NothingForged == Spec /\ []MaskNamesBlock => []RecoveredAreOriginals
<1>1. FecInv => RecoveredAreOriginals
  <2> SUFFICES ASSUME FecInv, NEW i \in DOMAIN output, ~output[i].fec
               PROVE  output[i].payload = {output[i].seq}
    BY DEF RecoveredAreOriginals
  <2>1. output \in Seq(Packets) /\ \A j \in 1..Len(output) : IsCopy(first_seq, stream, output[j])
    BY DEF FecInv, GivenInv
  <2>2. i \in 1..Len(output)
    BY <2>1
  <2> QED BY <2>1, <2>2 DEF IsCopy
<1> QED BY <1>1, FecInvariant, PTL

\* What arrived is given back or held, and what is held is near (Decode).
THEOREM NothingLost == Spec /\ []MaskNamesBlock => []NothingDropped
<1>1. FecInv => NothingDropped
  <2> SUFFICES ASSUME FecInv PROVE NothingDropped
    OBVIOUS
  <2>1. StreamOK /\ HeldInv /\ GivenInv
    BY DEF FecInv
  <2>2. /\ first_seq \in SeqNums /\ IsCache(first_seq, stream, cached_packets)
        /\ stream \in Seq(Packets) /\ Len(stream) <= MaxSent
    BY <2>1 DEF StreamOK, HeldInv
  <2> SUFFICES ASSUME NEW i \in DOMAIN cached_packets
               PROVE  DiffSeq(cached_packets[i].seq, Last(cached_packets).seq)
                        <= MaxCacheSeqDifference
    BY <2>1 DEF NothingDropped, GivenInv
  <2>3. PICK n \in Nat : n = Len(cached_packets) /\ DOMAIN cached_packets = 1..n
    BY <2>2 DEF IsCache
  <2>4. i \in 1..n /\ n \in 1..n /\ (i = n \/ i < n)
    BY <2>3
  <2>5. Last(cached_packets) = cached_packets[n]
    BY <2>3 DEF Last
  <2>6. PICK a \in SeqNums, b \in SeqNums :
          a = cached_packets[i].seq /\ b = cached_packets[n].seq
    BY <2>2, <2>3, <2>4, CacheFacts
  <2>7. Place(first_seq, a) = Place(first_seq, b) \/ Place(first_seq, a) < Place(first_seq, b)
    BY <2>2, <2>3, <2>4, <2>6 DEF IsCache, InStreamOrder
  <2>8. DiffSeq(a, b) = Place(first_seq, b) - Place(first_seq, a)
    BY <2>2, <2>7, SeqSpaceAssumption DEF Place, DiffSeq, SeqNums
  <2>9. Place(first_seq, b) - Place(first_seq, a) <= MaxCacheSeqDifference
    BY <2>1, <2>3, <2>4, <2>6 DEF HeldInv
  <2> QED BY <2>5, <2>6, <2>8, <2>9
<1> QED BY <1>1, FecInvariant, PTL

\* A pointer to a packet that left the cache is never followed (RcoverPackets).
THEOREM NoDanglingUse == Spec /\ []MaskNamesBlock => []DanglingNeverUsed
<1>1. FecInv => DanglingNeverUsed
  <2> SUFFICES ASSUME FecInv, NEW i \in DOMAIN cached_packets,
                      ~(cached_packets[i].received \subseteq SeqsOf(cached_packets))
               PROVE  \E s \in cached_packets[i].protected : AlreadyOutput(s)
    BY DEF DanglingNeverUsed
  <2>1. IsCache(first_seq, stream, cached_packets) /\ FoundOrGiven(cached_packets)
    BY DEF FecInv, HeldInv
  <2>2. i \in 1..Len(cached_packets)
    BY <2>1 DEF IsCache
  <2>3. PICK s \in cached_packets[i].received : s \notin SeqsOf(cached_packets)
    OBVIOUS
  <2>4. AlreadyOutput(s)
    BY <2>1, <2>2, <2>3 DEF FoundOrGiven
  <2>5. s \in cached_packets[i].protected
    BY <2>1, <2>2, <2>3 DEF IsCache, IsCopy
  <2> QED BY <2>4, <2>5
<1> QED BY <1>1, FecInvariant, PTL

\* Over all calls of Decode the packets come out in order, each once.
THEOREM DecoderOrder == Spec /\ []MaskNamesBlock => OutputInOrder
<1> DEFINE Given == passed' # passed =>
             \A i \in 1..(Len(output') - 1) :
               DiffSeq(first_seq, output'[i].seq) < DiffSeq(first_seq, output'[i + 1].seq)
<1>1. FecInv /\ [Next]_vars => [Given]_vars
  <2> SUFFICES ASSUME FecInv, Next, passed' # passed PROVE Given
    OBVIOUS
  <2>1. PICK upto \in (passed + 1)..Len(stream) : \E lost : Deliver(upto, lost)
    BY DEF Next, EncodeBlock, SendBlock, EndStream, sessionVars
  <2>2. first_seq' = first_seq /\ FecInv' /\ InStreamOrder(first_seq, output)'
    BY <2>1, DeliverKeeps DEF Deliver
  <2>3. InStreamOrder(first_seq, output')
    BY <2>2
  <2>4. Len(output') \in Nat
    BY <2>2 DEF FecInv, GivenInv
  <2>5. \A i \in 1..(Len(output') - 1) :
          i \in 1..Len(output') /\ i + 1 \in 1..Len(output') /\ i < i + 1
    BY <2>4
  <2> QED BY <2>3, <2>5 DEF InStreamOrder, Place
<1>2. OutputInOrder <=> [][Given]_vars
  BY DEF OutputInOrder
<1> QED BY <1>1, <1>2, FecInvariant, PTL DEF Spec
=============================================================================
