---------------------------- MODULE SeqNumProofs ----------------------------
EXTENDS SeqNum, ListOps, WellFoundedInduction, SequenceTheorems, TLAPS

Within(n, m, d) == n - m <= d /\ m - n <= d

\* Every stream position has a sequence number.
LEMMA SeqAtType == \A n \in Int : SeqAt(n) \in SeqNums
  BY SeqSpaceAssumption DEF SeqAt, SeqNums

\* A position is its cycle times the modulus plus its sequence number.
LEMMA DivisionFacts ==
  \A n \in Int : /\ n \div SeqSpace \in Int
                 /\ n = SeqSpace * (n \div SeqSpace) + SeqAt(n)
  BY SeqSpaceAssumption DEF SeqAt

\* Half the sequence space is less than the whole, whatever the rounding.
LEMMA HalfRangeBounds ==
  HalfRange \in Nat /\ 2 * HalfRange < SeqSpace
  BY SeqSpaceAssumption DEF HalfRange

\* The distance of two positions is that of their sequence numbers plus whole
\* cycles.
LEMMA CycleDistance ==
  ASSUME NEW n \in Int, NEW m \in Int
  PROVE  \E d \in Int : m - n = SeqSpace * d + (SeqAt(m) - SeqAt(n))
<1> DEFINE q == n \div SeqSpace
           p == m \div SeqSpace
           a == SeqSpace * q
           b == SeqSpace * p
           c == SeqSpace * (p - q)
<1>1. /\ q \in Int /\ p \in Int
      /\ n = a + SeqAt(n) /\ m = b + SeqAt(m)
      /\ SeqAt(n) \in Int /\ SeqAt(m) \in Int
  <2>1. SeqAt(n) \in Int /\ SeqAt(m) \in Int
    BY SeqAtType, SeqSpaceAssumption DEF SeqNums
  <2>2. QED BY <2>1, DivisionFacts
<1> HIDE DEF q, p
<1>2. b - a = c /\ a \in Int /\ b \in Int /\ c \in Int
  BY <1>1, SeqSpaceAssumption
<1> HIDE DEF a, b
<1>3. m - n = c + (SeqAt(m) - SeqAt(n))
  <2> HIDE DEF c
  <2>1. QED BY <1>1, <1>2
<1>4. p - q \in Int
  BY <1>1
<1>5. QED BY <1>3, <1>4

\* Two stream positions closer than the sequence space are in the same cycle of
\* the counter or in neighbouring ones.
LEMMA NeighbourCycles ==
  ASSUME NEW n \in Int, NEW m \in Int, 0 <= m - n, m - n < SeqSpace
  PROVE  \/ SeqAt(m) - SeqAt(n) = m - n
         \/ SeqAt(m) - SeqAt(n) = m - n - SeqSpace
<1>1. PICK d \in Int : m - n = SeqSpace * d + (SeqAt(m) - SeqAt(n))
  BY CycleDistance
<1>2. SeqAt(n) \in SeqNums /\ SeqAt(m) \in SeqNums
  BY SeqAtType
<1>3. d = 0 \/ d = 1
  <2>1. CASE d >= 2
    <3>1. SeqSpace * d >= SeqSpace * 2
      BY <2>1, SeqSpaceAssumption
    <3>2. QED BY <3>1, <1>1, <1>2, SeqSpaceAssumption DEF SeqNums
  <2>2. CASE d <= -1
    <3>1. SeqSpace * d <= SeqSpace * (-1)
      BY <2>2, SeqSpaceAssumption
    <3>2. QED BY <3>1, <1>1, <1>2, SeqSpaceAssumption DEF SeqNums
  <2>3. QED BY <2>1, <2>2
<1>4. CASE d = 0
  BY <1>4, <1>1, <1>2, SeqSpaceAssumption DEF SeqNums
<1>5. CASE d = 1
  BY <1>5, <1>1, <1>2, SeqSpaceAssumption DEF SeqNums
<1>6. QED BY <1>3, <1>4, <1>5

\* Within half the sequence space, equal sequence numbers are the same packet.
LEMMA SeqAtInjective ==
  ASSUME NEW n \in Int, NEW m \in Int, Within(n, m, HalfRange)
  PROVE  SeqAt(n) = SeqAt(m) <=> n = m
<1>0. SeqAt(n) \in 0..(SeqSpace - 1) /\ SeqAt(m) \in 0..(SeqSpace - 1)
  BY SeqAtType DEF SeqNums
<1>1. CASE n <= m
  <2>1. \/ SeqAt(m) - SeqAt(n) = m - n
        \/ SeqAt(m) - SeqAt(n) = m - n - SeqSpace
    BY <1>1, NeighbourCycles, HalfRangeBounds, SeqSpaceAssumption DEF Within
  <2>2. QED BY <1>0, <1>1, <2>1, HalfRangeBounds, SeqSpaceAssumption DEF Within
<1>2. CASE m <= n
  <2>1. \/ SeqAt(n) - SeqAt(m) = n - m
        \/ SeqAt(n) - SeqAt(m) = n - m - SeqSpace
    BY <1>2, NeighbourCycles, HalfRangeBounds, SeqSpaceAssumption DEF Within
  <2>2. QED BY <1>0, <1>2, <2>1, HalfRangeBounds, SeqSpaceAssumption DEF Within
<1>3. QED BY <1>1, <1>2

\* Within half the sequence space, IsSeqAfter is the order of the stream,
\* whether or not the counter wrapped in between.
LEMMA SeqOrderIsStreamOrder ==
  ASSUME NEW n \in Int, NEW m \in Int, Within(n, m, HalfRange)
  PROVE  IsSeqAfter(SeqAt(n), SeqAt(m)) <=> n < m
<1>0. SeqAt(n) \in 0..(SeqSpace - 1) /\ SeqAt(m) \in 0..(SeqSpace - 1)
  BY SeqAtType DEF SeqNums
<1>1. CASE n < m
  <2>1. \/ SeqAt(m) - SeqAt(n) = m - n
        \/ SeqAt(m) - SeqAt(n) = m - n - SeqSpace
    BY <1>1, NeighbourCycles, HalfRangeBounds, SeqSpaceAssumption DEF Within
  <2>2. QED
    BY <1>0, <1>1, <2>1, HalfRangeBounds, SeqSpaceAssumption
       DEF Within, IsSeqAfter, IsSeqAfterInRange, DiffSeq
<1>2. CASE m <= n
  <2>1. \/ SeqAt(n) - SeqAt(m) = n - m
        \/ SeqAt(n) - SeqAt(m) = n - m - SeqSpace
    BY <1>2, NeighbourCycles, HalfRangeBounds, SeqSpaceAssumption DEF Within
  <2>2. QED
    BY <1>0, <1>2, <2>1, HalfRangeBounds, SeqSpaceAssumption
       DEF Within, IsSeqAfter, IsSeqAfterInRange, DiffSeq
<1>3. QED BY <1>1, <1>2

\* The sequence numbers come around after SeqSpace positions.
LEMMA SeqAtPeriodic ==
  ASSUME NEW n \in Int
  PROVE  SeqAt(n + SeqSpace) = SeqAt(n)
<1>1. n + SeqSpace \in Int /\ (n + SeqSpace) - n = SeqSpace
  BY SeqSpaceAssumption
<1>2. PICK d \in Int : (n + SeqSpace) - n = SeqSpace * d + (SeqAt(n + SeqSpace) - SeqAt(n))
  BY <1>1, CycleDistance
<1>3. SeqAt(n) \in 0..(SeqSpace - 1) /\ SeqAt(n + SeqSpace) \in 0..(SeqSpace - 1)
  BY <1>1, SeqAtType DEF SeqNums
<1>4. SeqSpace = SeqSpace * d + (SeqAt(n + SeqSpace) - SeqAt(n))
  BY <1>1, <1>2
<1>5. d = 1
  <2>1. CASE d >= 2
    <3>1. SeqSpace * d >= SeqSpace * 2
      BY <2>1, SeqSpaceAssumption
    <3>2. QED BY <3>1, <1>3, <1>4, SeqSpaceAssumption
  <2>2. CASE d <= 0
    <3>1. SeqSpace * d <= 0
      BY <2>2, SeqSpaceAssumption
    <3>2. QED BY <3>1, <1>3, <1>4, SeqSpaceAssumption
  <2>3. QED BY <2>1, <2>2
<1>6. QED BY <1>3, <1>4, <1>5, SeqSpaceAssumption

\* The distance between two sequence numbers is the distance of the positions,
\* up to a whole cycle: what IsSeqAfterInRange says of packets one cycle apart
\* or closer, for any range.
LEMMA InRangeIsStreamDistance ==
  ASSUME NEW n \in Int, NEW k \in 1..SeqSpace, NEW r \in SeqNums
  PROVE  IsSeqAfterInRange(SeqAt(n), SeqAt(n + k), r) <=> k <= r
<1>0. /\ SeqAt(n) \in 0..(SeqSpace - 1) /\ SeqAt(n + k) \in 0..(SeqSpace - 1)
      /\ k \in Int /\ n + k \in Int /\ r \in 0..(SeqSpace - 1)
  BY SeqAtType, SeqSpaceAssumption DEF SeqNums
<1>1. CASE k = SeqSpace
  <2>1. SeqAt(n + k) = SeqAt(n)
    BY <1>0, <1>1, SeqAtPeriodic
  <2>2. QED BY <1>0, <1>1, <2>1, SeqSpaceAssumption DEF IsSeqAfterInRange
<1>2. CASE k < SeqSpace
  <2>1. \/ SeqAt(n + k) - SeqAt(n) = (n + k) - n
        \/ SeqAt(n + k) - SeqAt(n) = (n + k) - n - SeqSpace
    <3>1. 0 <= (n + k) - n /\ (n + k) - n < SeqSpace
      BY <1>0, <1>2, SeqSpaceAssumption
    <3>2. QED BY <1>0, <3>1, NeighbourCycles
  <2>2. QED
    BY <1>0, <1>2, <2>1, SeqSpaceAssumption DEF IsSeqAfterInRange, DiffSeq
<1>3. QED BY <1>0, <1>1, <1>2, SeqSpaceAssumption
\* A number below the modulus is not above its residue.
LEMMA BelowModulus ==
  ASSUME NEW x \in Int, x < SeqSpace
  PROVE  x <= SeqAt(x)
<1> DEFINE q == x \div SeqSpace
           c == SeqSpace * q
<1>1. q \in Int /\ c \in Int /\ x = c + SeqAt(x)
  BY DivisionFacts, SeqSpaceAssumption
<1>2. SeqAt(x) \in 0..(SeqSpace - 1)
  BY SeqAtType DEF SeqNums
<1>3. q <= 0
  <2> SUFFICES ASSUME q >= 1 PROVE FALSE
    BY <1>1
  <2>1. c >= SeqSpace
    <3> HIDE DEF q
    <3> QED BY <1>1, SeqSpaceAssumption
  <2> HIDE DEF c
  <2> QED BY <2>1, <1>1, <1>2, SeqSpaceAssumption
<1>4. c <= 0
  <2> HIDE DEF q
  <2> QED BY <1>1, <1>3, SeqSpaceAssumption
<1> HIDE DEF c
<1> QED BY <1>1, <1>2, <1>4, SeqSpaceAssumption

\* A sequence number is its own residue.
LEMMA SeqAtOfSeq == \A s \in SeqNums : SeqAt(s) = s
<1> TAKE s \in SeqNums
<1> DEFINE q == s \div SeqSpace
           c == SeqSpace * q
<1>1. s \in Int /\ s \in 0..(SeqSpace - 1) /\ SeqAt(s) \in 0..(SeqSpace - 1)
  BY SeqSpaceAssumption, SeqAtType DEF SeqNums
<1>2. q \in Int /\ c \in Int /\ s = c + SeqAt(s)
  BY <1>1, DivisionFacts, SeqSpaceAssumption
<1>3. (q >= 1 => c >= SeqSpace) /\ (q <= -1 => c <= -SeqSpace) /\ (q = 0 => c = 0)
  <2> HIDE DEF q
  <2> QED BY <1>2, SeqSpaceAssumption
<1> HIDE DEF c, q
<1>4. q = 0
  BY <1>1, <1>2, <1>3, SeqSpaceAssumption
<1> QED BY <1>1, <1>2, <1>3, <1>4

\* Moving two positions by the same distance keeps their numbers equal.
LEMMA ShiftKeepsSeq ==
  ASSUME NEW n \in Int, NEW a \in Int, NEW b \in Int, SeqAt(a) = SeqAt(b)
  PROVE  SeqAt(n - (b - a)) = SeqAt(n)
<1>1. PICK d \in Int : b - a = SeqSpace * d + (SeqAt(b) - SeqAt(a))
  BY CycleDistance
<1>2. b - a = SeqSpace * d
  <2>1. SeqAt(a) \in Int /\ SeqAt(b) \in Int /\ SeqSpace * d \in Int
    BY SeqAtType, SeqSpaceAssumption DEF SeqNums
  <2> QED BY <1>1, <2>1
<1> DEFINE m == n - (b - a)
<1>3. PICK e \in Int : m - n = SeqSpace * e + (SeqAt(m) - SeqAt(n))
  BY CycleDistance
<1>4. SeqAt(m) - SeqAt(n) = SeqSpace * (-d - e)
  <2>1. SeqAt(m) \in Int /\ SeqAt(n) \in Int /\ m - n = -(SeqSpace * d)
    BY SeqAtType, <1>2, SeqSpaceAssumption DEF SeqNums
  <2>2. SeqSpace * (-d - e) = -(SeqSpace * d) - SeqSpace * e
    BY SeqSpaceAssumption
  <2> HIDE DEF m
  <2> QED BY <1>3, <2>1, <2>2, SeqSpaceAssumption
<1> DEFINE f == -d - e
           g == SeqSpace * f
<1>5. SeqAt(m) \in 0..(SeqSpace - 1) /\ SeqAt(n) \in 0..(SeqSpace - 1) /\ f \in Int
  BY SeqAtType DEF SeqNums
<1>6. (f >= 1 => g >= SeqSpace) /\ (f <= -1 => g <= -SeqSpace) /\ (f = 0 => g = 0)
  <2> HIDE DEF f
  <2> QED BY <1>5, SeqSpaceAssumption
<1>7. SeqAt(m) - SeqAt(n) = g
  BY <1>4
<1> HIDE DEF g, f, m
<1>8. f = 0
  BY <1>5, <1>6, <1>7, SeqSpaceAssumption
<1>9. SeqAt(m) = SeqAt(n)
  BY <1>5, <1>6, <1>7, <1>8
<1> QED BY <1>9 DEF m
-----------------------------------------------------------------------------
(* Induction over data *)

\* Every set of naturals that is not empty has a least member.
LEMMA LeastOf ==
  ASSUME NEW S \in SUBSET Nat, S # {}
  PROVE  \E k \in S : \A j \in S : k <= j
<1>1. PICK k \in S : \A j \in S : <<j, k>> \notin OpToRel(<, Nat)
  BY WFMin, NatLessThanWellFounded
<1>2. \A j \in S : ~(j < k)
  BY <1>1 DEF OpToRel
<1>3. QED BY <1>2

\* Induction on the numbers up to len, with a set for the predicate.
LEMMA InductionUpTo ==
  ASSUME NEW len \in Nat, NEW P, 0 \in P,
         \A k \in 0..(len - 1) : k \in P => k + 1 \in P
  PROVE  \A k \in 0..len : k \in P
<1> DEFINE fails == {k \in 0..len : k \notin P}
<1>1. CASE fails = {}
  BY <1>1
<1>2. CASE fails # {}
  <2>1. fails \in SUBSET Nat
    OBVIOUS
  <2>2. PICK k \in fails : \A j \in fails : k <= j
    BY <1>2, <2>1, LeastOf
  <2>3. k # 0 /\ k \in 0..len
    BY <2>2
  <2>4. k - 1 \in 0..(len - 1) /\ k - 1 \notin fails
    BY <2>2, <2>3
  <2>5. k - 1 \in P
    BY <2>4
  <2>6. (k - 1) + 1 = k
    BY <2>3
  <2>7. k \in P
    BY <2>4, <2>5, <2>6
  <2> QED BY <2>2, <2>7
<1> QED BY <1>1, <1>2

\* What a function defined by recursion over 0..len stands for.
IsIteration(f, len, start, step) ==
  f = [k \in 0..len |-> IF k = 0 THEN start ELSE step[k][f[k - 1]]]

\* There is a function that satisfies the recursion.
LEMMA IterationExists ==
  ASSUME NEW A, NEW start \in A, NEW len \in Nat, NEW step \in [1..len -> [A -> A]]
  PROVE  \E f \in [0..len -> A] : IsIteration(f, len, start, step)
<1> DEFINE Upto(n) == {f \in [0..n -> A] :
                         /\ f[0] = start
                         /\ \A k \in 1..n : f[k] = step[k][f[k - 1]]}
           P == {n \in 0..len : Upto(n) # {}}
<1>1. 0 \in P
  <2>1. [k \in 0..0 |-> start] \in Upto(0)
    OBVIOUS
  <2> QED BY <2>1
<1>2. ASSUME NEW n \in 0..(len - 1), n \in P
      PROVE  n + 1 \in P
  <2>1. PICK f \in Upto(n) : TRUE
    BY <1>2
  <2> DEFINE g == [k \in 0..(n + 1) |-> IF k = n + 1 THEN step[n + 1][f[n]] ELSE f[k]]
  <2>2. n + 1 \in 1..len /\ f[n] \in A /\ step[n + 1] \in [A -> A]
    BY <2>1
  <2>3. g \in [0..(n + 1) -> A]
    BY <2>1, <2>2
  <2>4. g[0] = start
    BY <2>1
  <2>5. ASSUME NEW k \in 1..(n + 1)
        PROVE  g[k] = step[k][g[k - 1]]
    <3>1. CASE k = n + 1
      BY <3>1
    <3>2. CASE k # n + 1
      <4>1. k \in 1..n /\ k - 1 \in 0..n
        BY <3>2
      <4>2. f[k] = step[k][f[k - 1]]
        BY <2>1, <4>1
      <4>3. g[k] = f[k] /\ g[k - 1] = f[k - 1]
        BY <4>1
      <4> QED BY <4>2, <4>3
    <3> QED BY <3>1, <3>2
  <2>6. g \in Upto(n + 1)
    BY <2>3, <2>4, <2>5
  <2> QED BY <2>2, <2>6, SMTT(30)
<1>3. len \in P
  <2> HIDE DEF P
  <2>1. \A n \in 0..(len - 1) : n \in P => n + 1 \in P
    BY <1>2
  <2>2. len \in 0..len
    OBVIOUS
  <2> QED BY <1>1, <2>1, <2>2, InductionUpTo
<1>4. PICK f \in Upto(len) : TRUE
  BY <1>3
<1>5. f = [k \in 0..len |-> IF k = 0 THEN start ELSE step[k][f[k - 1]]]
  BY <1>4
<1> QED BY <1>4, <1>5 DEF IsIteration
-----------------------------------------------------------------------------
(* Picked *)

\* r lists the elements of s with the indexes in I, in their order.
ListsPicked(r, s, I) ==
  \E at \in [1..Len(r) -> I] :
    /\ \A i, j \in 1..Len(r) : i < j => at[i] < at[j]
    /\ \A i \in 1..Len(r) : r[i] = s[at[i]]
    /\ \A k \in I : \E i \in 1..Len(r) : at[i] = k

\* Nothing is picked by no index.
LEMMA PickNone == ASSUME NEW s PROVE ListsPicked(<<>>, s, {})
<1> DEFINE none == [i \in {} |-> 0]
<1>1. Len(<<>>) = 0 /\ 1..0 = {}
  OBVIOUS
<1>2. none \in [1..Len(<<>>) -> {}] /\ 1..Len(<<>>) = {}
  BY <1>1
<1> HIDE DEF none
<1> QED BY <1>2 DEF ListsPicked

\* The next index adds its element at the end.
LEMMA PickNext ==
  ASSUME NEW A, NEW r \in Seq(A), NEW s, NEW k \in Nat, s[k] \in A,
         NEW I \in SUBSET 1..(k - 1), ListsPicked(r, s, I)
  PROVE  ListsPicked(Append(r, s[k]), s, I \cup {k})
<1>1. PICK at \in [1..Len(r) -> I] :
           /\ \A i, j \in 1..Len(r) : i < j => at[i] < at[j]
           /\ \A i \in 1..Len(r) : r[i] = s[at[i]]
           /\ \A m \in I : \E i \in 1..Len(r) : at[i] = m
  BY DEF ListsPicked
<1> DEFINE q == Append(r, s[k])
           to == [i \in 1..Len(q) |-> IF i = Len(q) THEN k ELSE at[i]]
<1>2. Len(r) \in Nat /\ Len(q) = Len(r) + 1 /\ q[Len(q)] = s[k]
      /\ \A i \in 1..Len(r) : q[i] = r[i]
  OBVIOUS
<1> HIDE DEF q
<1>3. ASSUME NEW i \in 1..Len(r)
      PROVE  at[i] \in I /\ at[i] \in 1..(k - 1) /\ to[i] = at[i] /\ i \in 1..Len(q)
  <2>1. at[i] \in I /\ at[i] \in 1..(k - 1)
    BY <1>1
  <2>2. i \in 1..Len(q) /\ i # Len(q)
    BY <1>2
  <2> QED BY <2>1, <2>2
<1>4. to[Len(q)] = k /\ Len(q) \in 1..Len(q)
  BY <1>2
<1>5. \A i \in 1..Len(q) : i = Len(q) \/ i \in 1..Len(r)
  BY <1>2
<1>6. to \in [1..Len(q) -> I \cup {k}]
  BY <1>3, <1>4, <1>5
<1>7. ASSUME NEW i \in 1..Len(q), NEW j \in 1..Len(q), i < j
      PROVE  to[i] < to[j]
  <2>1. i \in 1..Len(r)
    BY <1>7, <1>2, <1>5
  <2>2. CASE j = Len(q)
    <3>1. to[j] = k /\ to[i] \in 1..(k - 1)
      BY <2>1, <2>2, <1>3, <1>4
    <3> QED BY <3>1
  <2>3. CASE j \in 1..Len(r)
    BY <2>1, <2>3, <1>1, <1>3, <1>7
  <2> QED BY <2>2, <2>3, <1>5
<1>8. \A i \in 1..Len(q) : q[i] = s[to[i]]
  BY <1>1, <1>2, <1>3, <1>4, <1>5
<1>9. ASSUME NEW m \in I \cup {k}
      PROVE  \E i \in 1..Len(q) : to[i] = m
  <2>1. CASE m = k
    BY <2>1, <1>4
  <2>2. CASE m \in I
    <3>1. PICK i \in 1..Len(r) : at[i] = m
      BY <2>2, <1>1
    <3> QED BY <3>1, <1>3
  <2> QED BY <2>1, <2>2
<1> HIDE DEF to
<1>10. ListsPicked(q, s, I \cup {k})
  BY <1>6, <1>7, <1>8, <1>9 DEF ListsPicked
<1> QED BY <1>10 DEF q

\* What Picked returns.
LEMMA PickedFacts ==
  ASSUME NEW A, NEW s \in Seq(A), NEW I
  PROVE  Picked(s, I) \in Seq(A) /\ ListsPicked(Picked(s, I), s, I \cap (1..Len(s)))
<1> DEFINE len == Len(s)
           picked == CHOOSE f : f = [k \in 0..len |->
                       IF k = 0 THEN <<>>
                       ELSE IF k \in I THEN Append(f[k - 1], s[k]) ELSE f[k - 1]]
           step == [k \in 1..len |-> [q \in Seq(A) |-> IF k \in I THEN Append(q, s[k]) ELSE q]]
           P == {k \in 0..len : picked[k] \in Seq(A) /\ ListsPicked(picked[k], s, I \cap (1..k))}
<1>1. len \in Nat /\ \A k \in 1..len : s[k] \in A
  OBVIOUS
<1>2. step \in [1..len -> [Seq(A) -> Seq(A)]]
  BY <1>1
<1>3. <<>> \in Seq(A)
  OBVIOUS
<1>4. PICK f \in [0..len -> Seq(A)] : IsIteration(f, len, <<>>, step)
  <2> HIDE DEF step, len
  <2> QED BY <1>1, <1>2, <1>3, IterationExists
<1>5. f = [k \in 0..len |-> IF k = 0 THEN <<>>
                            ELSE IF k \in I THEN Append(f[k - 1], s[k]) ELSE f[k - 1]]
  <2>1. \A k \in 1..len : f[k - 1] \in Seq(A)
    <3> HIDE DEF len, step
    <3>1. \A k \in 1..len : k - 1 \in 0..len
      BY <1>1
    <3> QED BY <3>1, <1>4
  <2>2. \A k \in 1..len : step[k][f[k - 1]] = IF k \in I THEN Append(f[k - 1], s[k]) ELSE f[k - 1]
    BY <2>1
  <2> HIDE DEF step, len
  <2>3. f = [k \in 0..len |-> IF k = 0 THEN <<>> ELSE step[k][f[k - 1]]]
    BY <1>4 DEF IsIteration
  <2>4. \A k \in 0..len : (IF k = 0 THEN <<>> ELSE step[k][f[k - 1]])
          = IF k = 0 THEN <<>> ELSE IF k \in I THEN Append(f[k - 1], s[k]) ELSE f[k - 1]
    BY <1>1, <2>2
  <2> QED BY <2>3, <2>4
<1>6. picked = [k \in 0..len |-> IF k = 0 THEN <<>>
                  ELSE IF k \in I THEN Append(picked[k - 1], s[k]) ELSE picked[k - 1]]
  <2> HIDE DEF len
  <2> QED BY <1>5
<1>7. Picked(s, I) = picked[len]
  BY DEF Picked
<1> HIDE DEF picked, step, len
<1>8. 0 \in P
  <2>1. picked[0] = <<>> /\ I \cap (1..0) = {} /\ 0 \in 0..len
    BY <1>6, <1>1
  <2> QED BY <2>1, <1>3, PickNone
<1>9. ASSUME NEW k \in 0..(len - 1), k \in P
      PROVE  k + 1 \in P
  <2>1. k + 1 \in 1..len /\ (k + 1) - 1 = k /\ k + 1 # 0 /\ k + 1 \in 0..len /\ k + 1 \in Nat
    BY <1>1
  <2>2. picked[k + 1] = IF k + 1 \in I THEN Append(picked[k], s[k + 1]) ELSE picked[k]
    BY <1>6, <2>1
  <2>3. picked[k] \in Seq(A) /\ ListsPicked(picked[k], s, I \cap (1..k))
    BY <1>9
  <2>4. CASE k + 1 \notin I
    <3>1. I \cap (1..(k + 1)) = I \cap (1..k) /\ picked[k + 1] = picked[k]
      BY <2>1, <2>2, <2>4
    <3> QED BY <3>1, <2>1, <2>3
  <2>5. CASE k + 1 \in I
    <3>1. /\ I \cap (1..(k + 1)) = (I \cap (1..k)) \cup {k + 1}
          /\ I \cap (1..k) \in SUBSET 1..((k + 1) - 1)
          /\ picked[k + 1] = Append(picked[k], s[k + 1]) /\ s[k + 1] \in A
      BY <1>1, <2>1, <2>2, <2>5
    <3>2. ListsPicked(picked[k + 1], s, I \cap (1..(k + 1)))
      <4> DEFINE J == I \cap (1..k)
                 m == k + 1
      <4>1. J \in SUBSET 1..(m - 1) /\ m \in Nat /\ s[m] \in A
        BY <2>1, <3>1
      <4> HIDE DEF J
      <4>2. ListsPicked(Append(picked[k], s[m]), s, J \cup {m})
        BY <4>1, <2>3, PickNext DEF J
      <4> QED BY <4>2, <3>1 DEF J
    <3>3. picked[k + 1] \in Seq(A)
      BY <2>3, <3>1, AppendProperties
    <3> QED BY <2>1, <3>2, <3>3
  <2> QED BY <2>4, <2>5
<1> HIDE DEF P
<1>10. \A k \in 0..(len - 1) : k \in P => k + 1 \in P
  BY <1>9
<1>11. len \in P
  <2>1. len \in 0..len
    BY <1>1
  <2> QED BY <2>1, <1>1, <1>8, <1>10, InductionUpTo
<1> QED BY <1>11, <1>7 DEF len, P

\* The elements of r are those of s at the indexes in I.
HasPicked(r, s, I) ==
  /\ \A i \in 1..Len(r) : \E k \in I \cap (1..Len(s)) : r[i] = s[k]
  /\ \A k \in I \cap (1..Len(s)) : \E i \in 1..Len(r) : r[i] = s[k]

\* The elements of Picked are those of s at the indexes in I.
LEMMA PickedElements ==
  ASSUME NEW A, NEW s \in Seq(A), NEW I
  PROVE  Picked(s, I) \in Seq(A) /\ HasPicked(Picked(s, I), s, I)
<1> DEFINE J == I \cap (1..Len(s))
           r == Picked(s, I)
<1>1. r \in Seq(A) /\ ListsPicked(r, s, J)
  BY PickedFacts
<1> HIDE DEF J, r
<1>2. PICK at \in [1..Len(r) -> J] :
           /\ \A i \in 1..Len(r) : r[i] = s[at[i]]
           /\ \A k \in J : \E i \in 1..Len(r) : at[i] = k
  BY <1>1 DEF ListsPicked
<1>3. \A i \in 1..Len(r) : \E k \in J : r[i] = s[k]
  BY <1>2
<1>4. \A k \in J : \E i \in 1..Len(r) : r[i] = s[k]
  BY <1>2
<1>5. HasPicked(r, s, I)
  BY <1>3, <1>4 DEF J, HasPicked
<1> QED BY <1>1, <1>5 DEF r

\* Picked elements stand in the order of the list.
LEMMA PickedOrder ==
  ASSUME NEW A, NEW s \in Seq(A), NEW I
  PROVE  \A i, j \in 1..Len(Picked(s, I)) : i < j =>
           \E k, l \in I \cap (1..Len(s)) :
             k < l /\ Picked(s, I)[i] = s[k] /\ Picked(s, I)[j] = s[l]
<1> DEFINE r == Picked(s, I)
           J == I \cap (1..Len(s))
<1>1. ListsPicked(r, s, J)
  BY PickedFacts
<1> HIDE DEF r, J
<1>2. \A i, j \in 1..Len(r) : i < j => \E k, l \in J : k < l /\ r[i] = s[k] /\ r[j] = s[l]
  <2>1. PICK at \in [1..Len(r) -> J] :
           /\ \A i, j \in 1..Len(r) : i < j => at[i] < at[j]
           /\ \A i \in 1..Len(r) : r[i] = s[at[i]]
    BY <1>1 DEF ListsPicked
  <2>2. \A i \in 1..Len(r) : at[i] \in J
    BY <2>1
  <2> QED BY <2>1, <2>2
<1> QED BY <1>2 DEF r, J
-----------------------------------------------------------------------------
(* Insertion *)

\* Inserting x before the m-th element of s.
LEMMA InsertBeforeFacts ==
  ASSUME NEW S, NEW s \in Seq(S), NEW x \in S, NEW m \in 1..Len(s)
  PROVE  LET r == SubSeq(s, 1, m - 1) \o <<x>> \o SubSeq(s, m, Len(s))
         IN  /\ r \in Seq(S)
             /\ Len(r) = Len(s) + 1
             /\ \A i \in 1..(m - 1) : r[i] = s[i]
             /\ r[m] = x
             /\ \A i \in m..Len(s) : r[i + 1] = s[i]
<1> DEFINE a == SubSeq(s, 1, m - 1)
           b == SubSeq(s, m, Len(s))
           r == a \o <<x>> \o b
<1>1. a \in Seq(S) /\ Len(a) = m - 1 /\ \A i \in 1..(m - 1) : a[i] = s[i]
  OBVIOUS
<1>2. /\ b \in Seq(S) /\ Len(b) = Len(s) - m + 1
      /\ \A i \in 1..Len(b) : b[i] = s[m + i - 1]
  OBVIOUS
<1> HIDE DEF a, b
<1>3. r \in Seq(S) /\ Len(r) = Len(s) + 1
  <2>1. a \o <<x>> \in Seq(S) /\ Len(a \o <<x>>) = m
    BY <1>1
  <2>2. r \in Seq(S) /\ Len(r) = m + Len(b)
    BY <2>1, <1>2, ConcatProperties
  <2>3. QED BY <2>2, <1>2
<1>4. \A i \in 1..(m - 1) : r[i] = s[i]
  BY <1>1, <1>2
<1>5. r[m] = x
  BY <1>1, <1>2
<1>6. ASSUME NEW i \in m..Len(s)
      PROVE  r[i + 1] = s[i]
  <2> DEFINE k == i + 1 - m
  <2>1. r[i + 1] = b[k]
    BY <1>1, <1>2
  <2>2. k \in 1..Len(b) /\ m + k - 1 = i
    BY <1>2
  <2>3. b[k] = s[m + k - 1]
    BY <2>2, <1>2
  <2>4. QED BY <2>1, <2>2, <2>3
<1>7. QED BY <1>3, <1>4, <1>5, <1>6 DEF a, b

\* r is s with x inserted before its m-th element, or at its end.
IsInsertion(r, S, s, x, m) ==
  /\ r \in Seq(S)
  /\ Len(r) = Len(s) + 1
  /\ \A i \in 1..(m - 1) : r[i] = s[i]
  /\ r[m] = x
  /\ \A i \in m..Len(s) : r[i + 1] = s[i]

\* What InsertAt makes of a list.
LEMMA InsertionFacts ==
  ASSUME NEW S, NEW s \in Seq(S), NEW x \in S, NEW m \in 1..(Len(s) + 1)
  PROVE  IsInsertion(SubSeq(s, 1, m - 1) \o <<x>> \o SubSeq(s, m, Len(s)), S, s, x, m)
<1> DEFINE r == SubSeq(s, 1, m - 1) \o <<x>> \o SubSeq(s, m, Len(s))
<1>1. CASE m \in 1..Len(s)
  BY <1>1, InsertBeforeFacts DEF IsInsertion
<1>2. CASE m = Len(s) + 1
  <2>1. /\ SubSeq(s, 1, m - 1) = s
        /\ SubSeq(s, m, Len(s)) = <<>>
    BY <1>2, SubSeqFull
  <2>2. r = Append(s, x)
    BY <2>1
  <2> HIDE DEF r
  <2>3. IsInsertion(r, S, s, x, m)
    BY <1>2, <2>2 DEF IsInsertion
  <2> QED BY <2>3 DEF r
<1>3. m \in 1..Len(s) \/ m = Len(s) + 1
  OBVIOUS
<1> QED BY <1>1, <1>2, <1>3
=============================================================================
