------------------------------- MODULE SeqNum -------------------------------
(***************************************************************************)
(* The 16-bit RTP sequence numbers of src/src/utils/seq_comparison.h,      *)
(* with the modulus as a parameter: SeqSpace is 2^16 in the program and a  *)
(* small number in a model.                                                *)
(***************************************************************************)
EXTENDS Integers

CONSTANT SeqSpace  \* the number of sequence numbers, 2^16 in the code

ASSUME SeqSpaceAssumption == SeqSpace \in Nat /\ SeqSpace >= 2

SeqNums == 0..(SeqSpace - 1)

\* The sequence number the n-th packet of a stream carries.
SeqAt(n) == n % SeqSpace

\* How far the unsigned counter runs from a up to b.
DiffSeq(a, b) == IF b >= a THEN b - a ELSE b + (SeqSpace - 1) - a + 1

IsSeqAfterInRange(a, b, range_num) == a # b /\ DiffSeq(a, b) <= range_num

\* a is at most range_num before b: the code defines it as the same test.
IsSeqBeforeInRange(a, b, range_num) == IsSeqAfterInRange(a, b, range_num)

IsNextSeq(a, b) == IsSeqAfterInRange(a, b, 1)

\* max_seq >> 1: the largest distance at which "after" has a meaning.
HalfRange == (SeqSpace - 1) \div 2

\* b comes after a.
IsSeqAfter(a, b) == IsSeqAfterInRange(a, b, HalfRange)

\* a comes before b: the code defines it as the same test.
IsSeqBefore(a, b) == IsSeqAfter(a, b)
=============================================================================
