----------------------------- MODULE MCRtpSender -----------------------------
(* Instances of RtpSender for TLC. *)
EXTENDS RtpSender

\* Every payload type has an rtx type, as SendRtp's callers must arrange for
\* PutPacket's requirement to hold (rtp_sender.h:33).
AllMapped == {"mapped", "foreign"}

\* A NACK asks for up to two packets, any two, the same one twice too; the
\* empty list is a NACK whose decoding gave nothing.
ShortRequests == {<<>>} \cup {<<s>> : s \in SeqNums} \cup (SeqNums \X SeqNums)

\* One packet of the first cycle carries no payload.
OneBare == {1}

\* std::mt19937 may draw any number.
AnyNumber == SeqNums
=============================================================================
