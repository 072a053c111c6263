------------------------------ MODULE NackPacking ------------------------------
(***************************************************************************)
(* The feedback packet of a NACK (src/src/rtp_rtcp/nack.h, .cc): Pack      *)
(* writes a list of sequence numbers as items of a number and a mask of    *)
(* those that follow it, and Unpack reads the items at the other end.      *)
(*                                                                         *)
(* One behaviour is one call of SetPacketIds; its loops take one step per  *)
(* number. A bitmask is the set of its bits.                               *)
(***************************************************************************)
EXTENDS SeqNum, Sequences, SequencesExt

CONSTANTS
  MaskBits,  \* 16: the bits of a mask
  Lists      \* the lists given to SetPacketIds

ASSUME NackAssumption ==
  /\ MaskBits \in Nat /\ MaskBits < SeqSpace
  /\ Lists \subseteq Seq(SeqNums)

VARIABLES
  packet_ids,  \* the list
  it,          \* the index of the next number
  packed,
  open         \* Pack is in its inner loop, the last item is not finished

packVars == <<packet_ids, it, packed, open>>

Items == [first_pid : SeqNums, bitmask : SUBSET (0..MaskBits-1)]

\* How far a number is behind the one after pid, in 16 bits.
Shift(seq, pid) == SeqAt(seq - pid - 1)

\* Mutant of Fits: one bit less than the mask has.
FitsOneLess(seq, pid) == seq >= pid /\ Shift(seq, pid) < MaskBits - 1

\* Mutant of Fits: one bit more than the mask has.
FitsOneMore(seq, pid) == seq >= pid /\ Shift(seq, pid) <= MaskBits

\* The number is looked for in the mask of the item.
Fits(seq, pid) == seq >= pid /\ Shift(seq, pid) <= MaskBits - 1

\* 1 << shift, of which 16 bits are kept.
SetBit(bitmask, shift) == (bitmask \cup {shift}) \cap 0..MaskBits-1

-----------------------------------------------------------------------------

SetPacketIds(list) ==
  /\ packet_ids = list
  /\ it = 1
  /\ packed = <<>>
  /\ open = FALSE

\* Mutant of StartItem: the next number is passed over.
StartItemSkips ==
  /\ ~open /\ it <= Len(packet_ids)
  /\ packed' = Append(packed, [first_pid |-> packet_ids[it], bitmask |-> {}])
  /\ it' = it + 2
  /\ open' = TRUE
  /\ UNCHANGED packet_ids

StartItem ==
  /\ ~open /\ it <= Len(packet_ids)
  /\ packed' = Append(packed, [first_pid |-> packet_ids[it], bitmask |-> {}])
  /\ it' = it + 1
  /\ open' = TRUE
  /\ UNCHANGED packet_ids

CoverNext ==
  LET item == Last(packed)
  IN  /\ open /\ it <= Len(packet_ids)
      /\ Fits(packet_ids[it], item.first_pid)
      /\ packed' = [packed EXCEPT ![Len(packed)].bitmask =
                      SetBit(@, Shift(packet_ids[it], item.first_pid))]
      /\ it' = it + 1
      /\ UNCHANGED <<packet_ids, open>>

CloseItem ==
  /\ open
  /\ it <= Len(packet_ids) => ~Fits(packet_ids[it], Last(packed).first_pid)
  /\ open' = FALSE
  /\ UNCHANGED <<packet_ids, it, packed>>

\* The numbers Unpack takes from an item, pid going on in 16 bits.
UnpackItem(item) ==
  {item.first_pid} \cup {SeqAt(item.first_pid + 1 + k) : k \in item.bitmask}

Unpack == UNION {UnpackItem(packed[i]) : i \in DOMAIN packed}

PackInit == \E list \in Lists : SetPacketIds(list)

PackNext == StartItem \/ CoverNext \/ CloseItem

PackSpec == PackInit /\ [][PackNext]_packVars

-----------------------------------------------------------------------------
(* Properties *)

\* The types of the variables.
PackTypeOK ==
  /\ packet_ids \in Seq(SeqNums)
  /\ it \in 1..Len(packet_ids)+1
  /\ packed \in Seq(Items)
  /\ open \in BOOLEAN

Asked == {packet_ids[i] : i \in 1..it-1}

\* Whatever the list - unsorted, with repetitions, over a wrap - the other end
\* reads exactly the numbers packed so far: nack.h:45 asks for an increasing
\* list, and RtpReceiver does not always give one.
NothingLostInPacking == Unpack = Asked

Increasing == \A i \in 1..Len(packet_ids)-1 : packet_ids[i] < packet_ids[i+1]

\* For an increasing list the items are as few as can be: no item starts with a
\* number the mask before it has room for.
NoItemWasted ==
  Increasing =>
    \A i \in 1..Len(packed)-1 :
      packed[i+1].first_pid > packed[i].first_pid + MaskBits
===============================================================================
