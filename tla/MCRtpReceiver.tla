--------------------------- MODULE MCRtpReceiver ----------------------------
(* Instances of RtpReceiver for TLC (SeqSpace = 16). *)
EXTENDS RtpReceiver

\* A stream within the first cycle of the counter.
FirstCycle == 1..5

\* A stream around a wrap, with gaps just before and after it. Its first and
\* last packets are out of each other's reach, and all are out of reach of the
\* other stream, so that a behaviour has one of the two.
AroundTheWrap == {13, 15, 16, 17, 21}

TwoStreams == FirstCycle \cup AroundTheWrap

MediaOnly == {"media"}
=============================================================================
